---------------------------- MODULE BrokerLink ----------------------------
(***************************************************************************)
(* The link to the MetaTrader 5 terminal (MT5Client.connect, ensure,       *)
(* reconnect and resolve of micofx/mt5client.py): which terminal the       *)
(* client may attach to, when it may call initialize, which holds the      *)
(* interpreter for as long as a dead pipe is waited for, and whose names   *)
(* of the symbols it trades under.                                         *)
(*                                                                         *)
(* The terminal is known by its day log alone: a boot writes a line when   *)
(* it starts and another when it is synchronized, and a new day is a new   *)
(* file.                                                                   *)
(***************************************************************************)
EXTENDS Integers, FiniteSets

CONSTANTS
    Installs,    \* directories with a terminal64.exe
    Alike,       \* pairs <<e, a>>: the name of e's directory is part of a's path
    MaxBoots,    \* bound: starts of one terminal
    MaxAttach,   \* bound: attaches of this process
    Instruments, \* symbols of the book
    Autostart,   \* autostart_mt5
    Midnight,    \* TRUE: a day may turn, and the terminal opens a new log
    MidRead,     \* TRUE: another thread may attach between a name's read and its write
    Nobody       \* no install, no read under way

ASSUME LinkAssumption ==
    /\ Alike \subseteq Installs \X Installs
    /\ MaxBoots \in Nat \ {0} /\ MaxAttach \in Nat
    /\ Autostart \in BOOLEAN /\ Midnight \in BOOLEAN /\ MidRead \in BOOLEAN
    /\ Nobody \notin Installs \union Instruments

VARIABLES
    stage,       \* per install: "down", "booting", "lined" or "synced"
    boots,       \* per install: how often it has been started
    pipe,        \* per install: the API of the present boot answers
    daylog,      \* per install: the boot its newest log names, and "synchronized"
    path,        \* terminal_path
    moving,      \* the panel has set the path and not yet reconnected
    armed,       \* allow_initialize
    link,        \* connected, the terminal behind it, latch and cooldown
    epoch,       \* attaches so far
    names,       \* _name_map: per symbol the attach its name was read in, or 0
    reading,     \* a name read and not yet written to the map
    hangs        \* pipe waits per boot since the operator last asked

linkVars == <<stage, boots, pipe, daylog, path, moving, armed, link, epoch,
              names, reading, hangs>>
terminalVars == <<stage, boots, pipe, daylog>>

(* What _boot_key answers: a line of a boot, or the day of a log without.  *)
NoBoot == [of |-> Nobody, boot |-> 0]
DayOnly == [of |-> Nobody, boot |-> -1]
BootKeys == [of : Installs, boot : 1 .. MaxBoots] \union {NoBoot, DayOnly}

LinkTypeOK ==
    /\ stage \in [Installs -> {"down", "booting", "lined", "synced"}]
    /\ boots \in [Installs -> 0 .. MaxBoots]
    /\ pipe \in [Installs -> BOOLEAN]
    /\ daylog \in [Installs -> [key : BootKeys, ready : BOOLEAN]]
    /\ path \in Installs /\ moving \in BOOLEAN /\ armed \in BOOLEAN
    /\ link \in [on : BOOLEAN, at : Installs \union {Nobody},
                 latch : BootKeys, rested : BOOLEAN]
    /\ epoch \in 0 .. MaxAttach
    /\ names \in [Instruments -> 0 .. MaxAttach]
    /\ reading \in {Nobody} \union [of : Instruments, epoch : 0 .. MaxAttach]
    /\ hangs \in [Installs -> [1 .. MaxBoots -> 0 .. 2]]

LinkInit ==
    /\ stage \in [Installs -> {"down", "synced"}]
    /\ boots = [i \in Installs |-> 1]
    /\ pipe \in [Installs -> BOOLEAN]
    /\ daylog = [i \in Installs |-> [key |-> [of |-> i, boot |-> 1], ready |-> TRUE]]
    /\ path \in Installs /\ moving = FALSE /\ armed = FALSE
    /\ link = [on |-> FALSE, at |-> Nobody, latch |-> NoBoot, rested |-> TRUE]
    /\ epoch = 0 /\ names = [s \in Instruments |-> 0] /\ reading = Nobody
    /\ hangs = [i \in Installs |-> [b \in 1 .. MaxBoots |-> 0]]

-----------------------------------------------------------------------------
(* The terminals.                                                          *)
clientVars == <<path, moving, armed, link, epoch, names, reading, hangs>>

Starts(i) ==
    /\ stage[i] = "down" /\ boots[i] < MaxBoots
    /\ stage' = [stage EXCEPT ![i] = "booting"]
    /\ boots' = [boots EXCEPT ![i] = @ + 1]
    /\ \E answers \in BOOLEAN : pipe' = [pipe EXCEPT ![i] = answers]
    /\ UNCHANGED daylog

Announces(i) ==
    /\ stage[i] = "booting"
    /\ stage' = [stage EXCEPT ![i] = "lined"]
    /\ daylog' = [daylog EXCEPT ![i] =
                     [key |-> [of |-> i, boot |-> boots[i]], ready |-> FALSE]]
    /\ UNCHANGED <<boots, pipe>>

Synchronizes(i) ==
    /\ stage[i] = "lined"
    /\ stage' = [stage EXCEPT ![i] = "synced"]
    /\ daylog' = [daylog EXCEPT ![i].ready = TRUE]
    /\ UNCHANGED <<boots, pipe>>

(* A log without a boot line reads as a terminal that has been up since    *)
(* the day before.                                                         *)
TurnsDay(i) ==
    /\ Midnight /\ stage[i] \in {"lined", "synced"} /\ daylog[i].key # DayOnly
    /\ daylog' = [daylog EXCEPT ![i] = [key |-> DayOnly, ready |-> TRUE]]
    /\ UNCHANGED <<stage, boots, pipe>>

Dies(i) ==
    /\ stage[i] # "down"
    /\ stage' = [stage EXCEPT ![i] = "down"]
    /\ UNCHANGED <<boots, pipe, daylog>>

Terminal(i) ==
    /\ Starts(i) \/ Announces(i) \/ Synchronizes(i) \/ TurnsDay(i) \/ Dies(i)
    /\ UNCHANGED clientVars

-----------------------------------------------------------------------------
(* Attaching.                                                              *)

(* terminal_info answers.                                                  *)
Answers(i) == i # Nobody /\ stage[i] = "synced" /\ pipe[i]

(* _ipc_latched *)
Latched(l) == l.latch # NoBoot /\ l.latch = daylog[path].key

MayInitialize(l) == armed /\ daylog[path].ready /\ ~Latched(l)

(* _paths_compatible *)
Compatible(expected, actual) ==
    expected = actual \/ <<expected, actual>> \in Alike

(* What one call of connect makes of the link l and of the waits h that    *)
(* were counted before it.                                                 *)

(* Not armed, the log not ready, or the boot latched.                      *)
Refuses(l, h) ==
    ~MayInitialize(l) /\ link' = l /\ hangs' = h /\ UNCHANGED <<epoch, names>>

(* A terminal still booting is not counted: its log does not name it yet.  *)
Waited(h) ==
    IF stage[path] = "booting" \/ h[path][boots[path]] = 2
    THEN h
    ELSE [h EXCEPT ![path][boots[path]] = @ + 1]

(* Mutated form of Hangs: the boot that did not answer is not remembered.  *)
HangsUnlatched(l, h) ==
    /\ MayInitialize(l) /\ ~Answers(path)
    /\ link' = l /\ hangs' = Waited(h)
    /\ UNCHANGED <<epoch, names>>

(* initialize waits for a pipe that does not answer; the boot is latched   *)
(* under the key its log had before the call.                              *)
Hangs(l, h) ==
    /\ MayInitialize(l) /\ ~Answers(path)
    /\ link' = [l EXCEPT !.latch = daylog[path].key] /\ hangs' = Waited(h)
    /\ UNCHANGED <<epoch, names>>

(* initialize fails at once, terminal_info answers nothing, or the         *)
(* terminal that answered is of another install.                           *)
Fails(l, h) ==
    MayInitialize(l) /\ link' = l /\ hangs' = h /\ UNCHANGED <<epoch, names>>

Takes(l, h) ==
    /\ MayInitialize(l) /\ epoch < MaxAttach
    /\ MidRead \/ reading = Nobody
    /\ \E i \in Installs :
         /\ Answers(i) /\ Compatible(path, i)
         /\ link' = [l EXCEPT !.on = TRUE, !.at = i, !.latch = NoBoot]
    /\ epoch' = epoch + 1
    /\ hangs' = h

(* Mutated form of Attaches: the map keeps the names of the last attach.   *)
AttachesWithOldNames(l, h) == Takes(l, h) /\ UNCHANGED names

(* _after_connect keeps a terminal of its own install, and forgets every   *)
(* name it knew.                                                           *)
Attaches(l, h) == Takes(l, h) /\ names' = [s \in Instruments |-> 0]

Connects(l, h) == Refuses(l, h) \/ Hangs(l, h) \/ Fails(l, h) \/ Attaches(l, h)

-----------------------------------------------------------------------------
(* The bot.                                                                *)
Unlinked == [link EXCEPT !.on = FALSE]
Lost == link.on => ~Answers(link.at)

(* ensure lets it rest: the cooldown has not passed, or the boot is        *)
(* latched.  A terminal that does not answer any more is dropped first.    *)
EnsureRests ==
    /\ link.on /\ Lost
    /\ ~link.rested \/ Latched(link)
    /\ link' = Unlinked
    /\ UNCHANGED <<path, moving, armed, epoch, names, reading, hangs, terminalVars>>

(* ensure tries again.  autostart launches the configured terminal when no *)
(* terminal of any install is running, and connect follows in the same     *)
(* call.                                                                   *)
EnsureTries ==
    /\ Lost /\ link.rested /\ ~Latched(link)
    /\ Connects([Unlinked EXCEPT !.rested = FALSE], hangs)
    /\ IF Autostart /\ (\A i \in Installs : stage[i] = "down") /\ boots[path] < MaxBoots
       THEN Starts(path)
       ELSE UNCHANGED terminalVars
    /\ UNCHANGED <<path, moving, armed, reading>>

(* _RECONNECT_COOLDOWN passes.                                             *)
CoolsDown ==
    /\ ~link.rested
    /\ link' = [link EXCEPT !.rested = TRUE]
    /\ UNCHANGED <<path, moving, armed, epoch, names, reading, hangs, terminalVars>>

(* account: account_info answered nothing.                                 *)
AccountFails ==
    /\ link.on
    /\ link' = Unlinked
    /\ UNCHANGED <<path, moving, armed, epoch, names, reading, hangs, terminalVars>>

(* run.py arms initialize once the panel is served.                        *)
Arms ==
    /\ ~armed /\ armed' = TRUE
    /\ UNCHANGED <<path, moving, link, epoch, names, reading, hangs, terminalVars>>

(* The panel writes a path (PATCH /api/system) and reconnects after it;    *)
(* the engine's ensure may come between.                                   *)
SetsPath(p) ==
    /\ ~moving /\ path' = p /\ moving' = TRUE
    /\ UNCHANGED <<armed, link, epoch, names, reading, hangs, terminalVars>>

Forgiven == [i \in Installs |-> [b \in 1 .. MaxBoots |-> 0]]

(* reconnect forgives the latch and the cooldown, and connects.            *)
Reconnects ==
    /\ Connects([Unlinked EXCEPT !.latch = NoBoot, !.rested = TRUE], Forgiven)
    /\ moving' = FALSE
    /\ UNCHANGED <<path, armed, reading, terminalVars>>

(* resolve asks the broker for its name of a symbol under the lock, and    *)
(* writes it to the map after it.                                          *)
ResolveReads(s) ==
    /\ link.on /\ names[s] = 0 /\ reading = Nobody
    /\ reading' = [of |-> s, epoch |-> epoch]
    /\ UNCHANGED <<path, moving, armed, link, epoch, names, hangs, terminalVars>>

ResolveKeeps ==
    /\ reading # Nobody
    /\ names' = [names EXCEPT ![reading.of] = reading.epoch]
    /\ reading' = Nobody
    /\ UNCHANGED <<path, moving, armed, link, epoch, hangs, terminalVars>>

LinkNext ==
    \/ \E i \in Installs : Terminal(i)
    \/ EnsureRests
    \/ EnsureTries
    \/ CoolsDown
    \/ AccountFails
    \/ Arms
    \/ \E p \in Installs : SetsPath(p)
    \/ Reconnects
    \/ \E s \in Instruments : ResolveReads(s)
    \/ ResolveKeeps

LinkSpec == LinkInit /\ [][LinkNext]_linkVars

-----------------------------------------------------------------------------
(* Properties.                                                             *)

(* The bot trades on the configured terminal: whatever else runs on the    *)
(* machine, a link that is up is to the install of the path the operator   *)
(* set, once the panel's own reconnect is through, and no symbol is traded *)
(* under a name that was read in an earlier attach: on this terminal that  *)
(* name may be another instrument.                                         *)
OwnTerminal ==
    /\ link.on /\ ~moving => link.at = path
    /\ \A s \in Instruments : names[s] \in {0, epoch}

(* initialize sits out a dead pipe at most once for a boot of a terminal   *)
(* until the operator asks again: each wait holds the whole interpreter.   *)
OneHangPerBoot == \A i \in Installs, b \in 1 .. MaxBoots : hangs[i][b] <= 1
=============================================================================
