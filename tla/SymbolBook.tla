------------------------------ MODULE SymbolBook ------------------------------
(***************************************************************************)
(* The portfolio: which symbols are in it, under which magic number each   *)
(* one trades, and who switches it on.  Every open position, closed deal   *)
(* and unresolved fill is resolved to a symbol through its magic, so the   *)
(* numbers handed out here decide whose position is managed and whose      *)
(* record is judged.                                                       *)
(*                                                                         *)
(* Rows live in store.symbols (micofx/store.py); the panel's requests      *)
(* (micofx/web/app.py) add, delete, renumber, switch, seed and wipe them,  *)
(* each on a thread of its own; the autopilot (micofx/autopilot.py) sends  *)
(* a symbol nobody has searched to the optimizer and switches on a stamped *)
(* one.  A request is a sequence of steps: what one reads before it writes *)
(* is in req.  A step under engine.entry_lock is one action.               *)
(***************************************************************************)
EXTENDS Integers, FiniteSets, FiniteSetsExt

CONSTANTS
    NameCount,     \* symbols, numbered in the order of their names
    MaxMagic,      \* numbers next_magic walks, the first being 1
    Preset,        \* the fixed magic defaults.json ships, 0 when it has none
    Threads,       \* request threads of the panel
    MaxDeals,      \* bound: closed deals inside the lookback window
    Gaps,          \* TRUE: steps of others fit into the windows of Clear
    ReadsMayFail,  \* TRUE: history_deals_get may fail inside a request
    Absent         \* no row, no request

Names == 1..NameCount
Magics == 1..MaxMagic

ASSUME BookCounts ==
    /\ {NameCount, MaxMagic} \subseteq Nat \ {0}
    /\ MaxDeals \in Nat
    /\ {Gaps, ReadsMayFail} \subseteq BOOLEAN

ASSUME BookPresets ==
    /\ Preset \in [Names -> 0..MaxMagic]
    /\ \A n, k \in Names : n # k /\ Preset[n] = Preset[k] => Preset[n] = 0

VARIABLES
    book,        \* store.symbols: a row per symbol in the portfolio
    held,        \* positions at the broker, orphan: a ticket nobody identified
    scan,        \* secondary_orphan_scan: fills still looked for
    deals,       \* closed deals inside the supervisor's lookback window
    connected,   \* client.connected
    off,         \* operator_disabled_symbols
    word,        \* what the operator last said of the symbol's switch
    job,         \* the optimizer's job: its symbol and what asked for it
    req,         \* per thread: where its request stands
    tick         \* symbols the running autopilot tick still has to switch on

bookVars == <<book, held, scan, deals, connected, off, word, job, req, tick>>

Stamps == {"none", "weak", "good"}
Rows == [magic : Magics, enabled : BOOLEAN, stamp : Stamps]

(* Mutated form of NewRow: a new row keeps the template's enabled flag.     *)
NewRowAsTold(m) == [magic |-> m, enabled |-> TRUE, stamp |-> "none"]

(* A new row is born switched off, whatever template or caller ask.        *)
NewRow(m) == [magic |-> m, enabled |-> FALSE, stamp |-> "none"]

(* A request between two of its steps.                                     *)
Requests ==
    [at : {"add"}, name : Names, avoid : SUBSET Magics]
    \cup [at : {"save"}, name : Names, magic : Magics]
    \cup [at : {"sort"}, rows : [Names -> Rows \cup {Absent}]]
    \cup [at : {"mark"}, name : Names, on : BOOLEAN]
    \cup [at : {"write"}, marks : SUBSET Names]

ASSUME BookAbsent == Absent \notin Rows \cup Requests

Marks == [by : Names, magic : Magics]
Positions == [by : Names, magic : Magics, orphan : BOOLEAN]

InBook == {n \in Names : book[n] # Absent}
Owned == {book[n].magic : n \in InBook}
Scanned == {g.magic : g \in scan}
OrphanMagics == {p.magic : p \in {q \in held : q.orphan}}
DealMagics == {d.magic : d \in deals}
Open(m) == \E p \in held : p.magic = m
Pending(n) == \E g \in scan : g.by = n /\ g.magic = book[n].magic

BookTypeOK ==
    /\ book \in [Names -> Rows \cup {Absent}]
    /\ held \subseteq Positions
    /\ scan \subseteq Marks
    /\ deals \subseteq Marks
    /\ connected \in BOOLEAN
    /\ off \subseteq Names
    /\ word \in [Names -> {"none", "on", "off"}]
    /\ job = Absent \/ job \in [name : Names, source : {"panel", "onboarding"}]
    /\ req \in [Threads -> Requests \cup {Absent}]
    /\ tick \subseteq Names

BookInit ==
    /\ book = [n \in Names |-> IF Preset[n] = 0 THEN Absent ELSE NewRow(Preset[n])]
    /\ held = {} /\ scan = {} /\ deals = {}
    /\ connected = TRUE
    /\ off = {}
    /\ word = [n \in Names |-> "none"]
    /\ job = Absent
    /\ req = [t \in Threads |-> Absent]
    /\ tick = {}

-----------------------------------------------------------------------------
(* Numbers *)

(* Mutated form of MagicTaken: a number whose deals are recent is free.    *)
MagicTakenByRowsOnly(m, avoid) == m \in Owned \cup Scanned

(* _magic_taken: a row, a pending scan or the caller's avoid set owns m.   *)
MagicTaken(m, avoid) == m \in Owned \cup Scanned \cup avoid

Free(avoid) == {m \in Magics : ~MagicTaken(m, avoid)}

(* The wanted number of the template when nothing owns it, otherwise the   *)
(* smallest one next_magic finds free.                                     *)
NewMagic(n, avoid) ==
    IF Preset[n] # 0 /\ ~MagicTaken(Preset[n], avoid)
    THEN Preset[n] ELSE Min(Free(avoid))

(* avoid_magics = _orphan_ticket_magics() | _recent_deal_magics(): the     *)
(* second refuses while disconnected, but a read that fails inside it      *)
(* answers the empty set and marks the link lost.                          *)
ReadsAvoid(avoid) ==
    /\ connected
    /\ \/ avoid = OrphanMagics \cup DealMagics /\ UNCHANGED connected
       \/ ReadsMayFail /\ avoid = OrphanMagics /\ connected' = FALSE

-----------------------------------------------------------------------------
(* Panel: add, seed, delete, renumber, wipe *)

InGap == \E t \in Threads : req[t] # Absent /\ req[t].at \in {"sort", "mark", "write"}

(* Whether a step may fall into the windows no lock closes: between a      *)
(* switch and its mark, between the copy sort_symbols_by_group takes and   *)
(* its writes, and between the autopilot's list and its writes.            *)
Clear == Gaps \/ (tick = {} /\ ~InGap)

Begins(t) == req[t] = Absent /\ Clear
Finishes(t) == req' = [req EXCEPT ![t] = Absent]
Goes(t, r) == req' = [req EXCEPT ![t] = r]

(* create_symbol and the soft seed read what they must not reuse before    *)
(* they look at the rows.                                                  *)
AddReads(t, n) ==
    /\ Begins(t)
    /\ \E avoid \in SUBSET Magics :
          ReadsAvoid(avoid) /\ Goes(t, [at |-> "add", name |-> n, avoid |-> avoid])
    /\ UNCHANGED <<book, held, scan, deals, off, word, job, tick>>

(* add_symbol: a duplicate name is refused, otherwise the number is chosen *)
AddPicks(t) ==
    /\ req[t] # Absent /\ req[t].at = "add"
    /\ \/ /\ req[t].name \in InBook
          /\ Finishes(t)
       \/ /\ req[t].name \notin InBook
          /\ Free(req[t].avoid) # {}
          /\ Goes(t, [at |-> "save", name |-> req[t].name,
                      magic |-> NewMagic(req[t].name, req[t].avoid)])
    /\ UNCHANGED <<book, held, scan, deals, connected, off, word, job, tick>>

(* ... and the row is saved, born disabled, followed by the copy of every  *)
(* row that sort_symbols_by_group is about to write back.                  *)
AddSaves(t) ==
    /\ req[t] # Absent /\ req[t].at = "save" /\ Clear
    /\ LET rows == [book EXCEPT ![req[t].name] = NewRow(req[t].magic)]
       IN  book' = rows /\ Goes(t, [at |-> "sort", rows |-> rows])
    /\ word' = [word EXCEPT ![req[t].name] = "none"]
    /\ UNCHANGED <<held, scan, deals, connected, off, job, tick>>

(* The panel asks for the order alone.                                     *)
SortPanel(t) ==
    /\ Begins(t)
    /\ Goes(t, [at |-> "sort", rows |-> book])
    /\ UNCHANGED <<book, held, scan, deals, connected, off, word, job, tick>>

(* sort_symbols_by_group saves every row it copied.                        *)
Sorts(t) ==
    /\ req[t] # Absent /\ req[t].at = "sort"
    /\ book' = [n \in Names |-> IF req[t].rows[n] # Absent THEN req[t].rows[n] ELSE book[n]]
    /\ Finishes(t)
    /\ UNCHANGED <<held, scan, deals, connected, off, word, job, tick>>

(* Mutated form of Delete: a pending ticket scan does not hold the symbol. *)
DeleteOverScan(t, n) ==
    /\ Begins(t) /\ connected /\ n \in InBook
    /\ ~Open(book[n].magic)
    /\ book' = [book EXCEPT ![n] = Absent]
    /\ UNCHANGED <<held, scan, deals, connected, off, word, job, req, tick>>

(* remove_symbol: connected, flat, and no fill still looked for.           *)
Delete(t, n) ==
    /\ Begins(t) /\ connected /\ n \in InBook
    /\ ~Open(book[n].magic)
    /\ ~Pending(n)
    /\ book' = [book EXCEPT ![n] = Absent]
    /\ UNCHANGED <<held, scan, deals, connected, off, word, job, req, tick>>

(* Mutated form of Renumber: another symbol's row may own the number.      *)
RenumberOntoRow(t, n, m) ==
    /\ Begins(t) /\ connected /\ n \in InBook /\ m # book[n].magic
    /\ m \notin Scanned \cup OrphanMagics \cup DealMagics
    /\ ~Open(book[n].magic) /\ ~Pending(n)
    /\ book' = [book EXCEPT ![n].magic = m]
    /\ UNCHANGED <<held, scan, deals, connected, off, word, job, req, tick>>

(* patch_symbol with a new magic: the number must be clean of rows, scans, *)
(* orphan tickets and recent deals (_magic_blocked_by_orphan_state), and   *)
(* the symbol flat under its old one.  A read that fails in between is     *)
(* caught by _positions, which refuses once the link is lost.              *)
Renumber(t, n, m) ==
    /\ Begins(t) /\ connected /\ n \in InBook /\ m # book[n].magic
    /\ m \notin Owned
    /\ m \notin Scanned \cup OrphanMagics \cup DealMagics
    /\ ~Open(book[n].magic) /\ ~Pending(n)
    /\ book' = [book EXCEPT ![n].magic = m]
    /\ UNCHANGED <<held, scan, deals, connected, off, word, job, req, tick>>

(* seed(overwrite): refused over any open or looked-for fill of the book;  *)
(* then every row goes, the scans with them, and the shipped rows come     *)
(* back under their shipped numbers.                                       *)
Wipe(t) ==
    /\ Begins(t) /\ connected
    /\ \A n \in InBook : ~Open(book[n].magic) /\ ~Pending(n)
    /\ book' = [n \in Names |-> IF Preset[n] = 0 THEN Absent ELSE NewRow(Preset[n])]
    /\ scan' = {}
    /\ UNCHANGED <<held, deals, connected, off, word, job, req, tick>>

-----------------------------------------------------------------------------
(* The switch *)

Flagged(marks, n, on) == IF on THEN marks \ {n} ELSE marks \cup {n}

(* patch_symbol with "enabled": only a stamped symbol may be switched on;  *)
(* the row is written, then mark_operator_disabled rewrites the flag set.  *)
Switch(t, n, on) ==
    /\ Begins(t) /\ n \in InBook
    /\ on => book[n].stamp # "none"
    /\ book' = [book EXCEPT ![n].enabled = on]
    /\ word' = [word EXCEPT ![n] = IF on THEN "on" ELSE "off"]
    /\ Goes(t, [at |-> "mark", name |-> n, on |-> on])
    /\ UNCHANGED <<held, scan, deals, connected, off, job, tick>>

(* mark_operator_disabled reads the whole set and writes it back.          *)
MarkReads(t) ==
    /\ req[t] # Absent /\ req[t].at = "mark"
    /\ Goes(t, [at |-> "write", marks |-> Flagged(off, req[t].name, req[t].on)])
    /\ UNCHANGED <<book, held, scan, deals, connected, off, word, job, tick>>

MarkWrites(t) ==
    /\ req[t] # Absent /\ req[t].at = "write"
    /\ off' = req[t].marks
    /\ Finishes(t)
    /\ UNCHANGED <<book, held, scan, deals, connected, word, job, tick>>

-----------------------------------------------------------------------------
(* Autopilot and optimizer *)

(* Mutated form of Operator: the operator's switch is not looked at.       *)
NobodyDisabled == {}

(* _operator_disabled *)
Operator == off

(* _enable_candidates: stamped above the holdout floor, still disabled.    *)
Ready == {n \in InBook \ Operator : ~book[n].enabled /\ book[n].stamp = "good"}

(* _onboarding_candidates: disabled and never stamped.                     *)
Newcomers == {n \in InBook \ Operator : ~book[n].enabled /\ book[n].stamp = "none"}

(* _lifecycle_enable lists the ready symbols and writes them one by one.   *)
TickEnables ==
    /\ tick = {} /\ Ready # {} /\ Clear
    /\ tick' = Ready
    /\ UNCHANGED <<book, held, scan, deals, connected, off, word, job, req>>

EnableWrites(n) ==
    /\ n \in tick
    /\ book' = IF n \in InBook THEN [book EXCEPT ![n].enabled = TRUE] ELSE book
    /\ tick' = tick \ {n}
    /\ UNCHANGED <<held, scan, deals, connected, off, word, job, req>>

(* _lifecycle_queue_onboarding: the first newcomer by name, when no search *)
(* runs.                                                                   *)
TickQueues ==
    /\ tick = {} /\ Clear /\ job = Absent /\ Newcomers # {}
    /\ job' = [name |-> Min(Newcomers), source |-> "onboarding"]
    /\ UNCHANGED <<book, held, scan, deals, connected, off, word, req, tick>>

(* A search the panel or the supervisor asks for.                          *)
PanelSearch(n) ==
    /\ job = Absent /\ n \in InBook
    /\ job' = [name |-> n, source |-> "panel"]
    /\ UNCHANGED <<book, held, scan, deals, connected, off, word, req, tick>>

(* The search ends: its winner is stamped, unless none was accepted or the *)
(* symbol is a closed one that already carries a stamp.                    *)
SearchEnds(result) ==
    /\ job # Absent /\ Clear
    /\ LET n == job.name
       IN  /\ result # "none" =>
                  /\ n \in InBook
                  /\ book[n].enabled \/ book[n].stamp = "none" \/ job.source = "onboarding"
           /\ book' = IF result = "none" THEN book ELSE [book EXCEPT ![n].stamp = result]
    /\ job' = Absent
    /\ UNCHANGED <<held, scan, deals, connected, off, word, req, tick>>

-----------------------------------------------------------------------------
(* Trading, the broker and the process *)

Busy(n) == (\E p \in held : p.by = n) \/ (\E g \in scan : g.by = n)

(* An entry of an enabled symbol fills, or its ticket is not identified    *)
(* and a scan under its magic begins.                                      *)
Fill(n) ==
    /\ connected /\ n \in InBook /\ book[n].enabled /\ ~Busy(n)
    /\ held' = held \cup {[by |-> n, magic |-> book[n].magic, orphan |-> FALSE]}
    /\ UNCHANGED <<book, scan, deals, connected, off, word, job, req, tick>>

Vanish(n) ==
    /\ connected /\ n \in InBook /\ book[n].enabled /\ ~Busy(n)
    /\ scan' = scan \cup {[by |-> n, magic |-> book[n].magic]}
    /\ UNCHANGED <<book, held, deals, connected, off, word, job, req, tick>>

(* The looked-for fill surfaces as an orphan ticket, or the window ends.   *)
Surface(g) ==
    /\ connected
    /\ scan' = scan \ {g}
    /\ held' = held \cup {[by |-> g.by, magic |-> g.magic, orphan |-> TRUE]}
    /\ UNCHANGED <<book, deals, connected, off, word, job, req, tick>>

ScanEnds(g) ==
    /\ scan' = scan \ {g}
    /\ UNCHANGED <<book, held, deals, connected, off, word, job, req, tick>>

(* A position closes and leaves its deal under its magic.                  *)
PositionCloses(p) ==
    /\ Cardinality(deals \cup {[by |-> p.by, magic |-> p.magic]}) <= MaxDeals
    /\ held' = held \ {p}
    /\ deals' = deals \cup {[by |-> p.by, magic |-> p.magic]}
    /\ UNCHANGED <<book, scan, connected, off, word, job, req, tick>>

(* The lookback window moves past a deal.                                  *)
Age(d) ==
    /\ deals' = deals \ {d}
    /\ UNCHANGED <<book, held, scan, connected, off, word, job, req, tick>>

Link ==
    /\ connected' = ~connected
    /\ UNCHANGED <<book, held, scan, deals, off, word, job, req, tick>>

(* The process restarts: rows, scans and flags are in the database.        *)
Restart ==
    /\ Clear
    /\ job' = Absent /\ tick' = {} /\ req' = [t \in Threads |-> Absent]
    /\ UNCHANGED <<book, held, scan, deals, connected, off, word>>

Request(t) ==
    \/ \E n \in Names : AddReads(t, n)
    \/ AddPicks(t)
    \/ AddSaves(t)
    \/ SortPanel(t)
    \/ Sorts(t)
    \/ \E n \in Names : Delete(t, n)
    \/ \E n \in Names, m \in Magics : Renumber(t, n, m)
    \/ Wipe(t)
    \/ \E n \in Names, on \in BOOLEAN : Switch(t, n, on)

Mark(t) == MarkReads(t) \/ MarkWrites(t)

Autopilot ==
    \/ TickEnables
    \/ \E n \in Names : EnableWrites(n)
    \/ TickQueues

Optimizer ==
    \/ \E n \in Names : PanelSearch(n)
    \/ \E result \in Stamps : SearchEnds(result)

Broker ==
    \/ \E n \in Names : Fill(n) \/ Vanish(n)
    \/ \E g \in scan : Surface(g) \/ ScanEnds(g)
    \/ \E p \in held : PositionCloses(p)
    \/ \E d \in deals : Age(d)
    \/ Link

BookNext ==
    \/ \E t \in Threads : Request(t) \/ Mark(t)
    \/ Autopilot
    \/ Optimizer
    \/ Broker
    \/ Restart

(* A request runs to its end, a search ends, and the autopilot ticks every *)
(* quarter of an hour, so also in one of the pauses between two searches.  *)
BookFairness ==
    /\ \A t \in Threads : WF_bookVars(AddPicks(t) \/ AddSaves(t) \/ Sorts(t) \/ Mark(t))
    /\ WF_bookVars(TickEnables \/ \E n \in Names : EnableWrites(n))
    /\ SF_bookVars(TickQueues)
    /\ SF_bookVars(\E result \in Stamps : SearchEnds(result))

BookSpec == BookInit /\ [][BookNext]_bookVars
FairBook == BookSpec /\ BookFairness

-----------------------------------------------------------------------------
(* Two symbols never trade under one magic: a position, a deal and a scan  *)
(* each belong to one row, whatever add, seed, renumber and wipe did.      *)
UniqueMagic == \A n, k \in InBook : n # k => book[n].magic # book[k].magic

(* What is open or still looked for is owned: its symbol is in the book    *)
(* and trades under the magic it was sent with, so the engine manages the  *)
(* position or adopts the late fill under the right name.                  *)
Managed ==
    \A p \in held \cup scan : p.by \in InBook /\ book[p.by].magic = p.magic

(* A symbol does not take over a record: whenever a row gets a number, by  *)
(* being added or renumbered, no recent deal under it is another symbol's. *)
(* The wipe, which puts the shipped numbers back unread, is apart.         *)
CleanMagic ==
    [][\A n \in Names :
          /\ book'[n] # Absent
          /\ book[n] = Absent \/ book[n].magic # book'[n].magic
          => \/ book' = [k \in Names |-> IF Preset[k] = 0 THEN Absent ELSE NewRow(Preset[k])]
             \/ \A d \in deals : d.magic = book'[n].magic => d.by = n]_bookVars

(* What the operator switched off stays off until the operator switches it *)
(* on: the autopilot does not open it, whatever searches stamp meanwhile.  *)
OffStays == \A n \in InBook : word[n] = "off" => ~book[n].enabled

(* Nothing trades on factory settings: an enabled row carries a stamp.     *)
OnlySearchedTrades == \A n \in InBook : book[n].enabled => book[n].stamp # "none"

(* A symbol in the book that nobody has searched and nobody switched off   *)
(* is searched some day.                                                   *)
NewcomerSearched ==
    \A n \in Names :
        n \in Newcomers ~> (n \notin Newcomers \/ (job # Absent /\ job.name = n))
==============================================================================
