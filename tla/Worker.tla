-------------------------------- MODULE Worker --------------------------------
(***************************************************************************)
(* The worker thread of the GUI (gui/src/worker.rs): the one owner of the  *)
(* controllers.  It runs the window's commands one at a time, and while it *)
(* has none it polls sysfs, debounces what it sees on each USB port path   *)
(* and tells the window.  The window is any client here: it sends commands *)
(* and takes events as it likes.  Desk has the real one.                   *)
(*                                                                         *)
(* A poll reads sysfs within milliseconds, so it is one step.  A command   *)
(* is two, Take and the end of its kind, and the pads may change between.  *)
(***************************************************************************)
EXTENDS Naturals, Sequences, FiniteSets

CONSTANTS
  Port,         \* the USB port paths
  Mode,         \* the modes a config port shows
  UnlockMode,   \* the mode of the config port an unlock brings up
  WriteVia,     \* the mode a write flips a pad to, Nothing where it writes in place
  Kinds,        \* which kinds of pads there are
  Nothing,      \* no pad, no sighting, no mode, no command
  SettlePolls,  \* SETTLE_POLLS
  MaxDevnum,    \* bound: how many device numbers the kernel gives
  MaxQueue,     \* bound: the worker waits while as many events are not taken
  MaxSend,      \* bound: how many commands wait in the worker's channel
  Unsettled     \* a pad may change while a write or a lock command for it is
                \* under way, or twice between two polls

(***************************************************************************)
(* What can be on a port: a supported config port, one of a model that     *)
(* nobody validated, one that only shares a USB id, an id no description   *)
(* lists, or a locked controller.                                          *)
(***************************************************************************)
Kind == {"config", "refused", "lookalike", "unlisted", "locked"}
ConfigPorts == {"config", "refused", "lookalike"}
Pad == [kind: Kind, mode: Mode, num: Nat]
Sighting == [mode: Mode, num: Nat]

PortOps == {"read", "steps", "write", "unlock", "relock"}
Command == [op: PortOps, port: Port] \cup [op: {"install"}]

\* An Unplugged, Refused, ... event; a list of locked ports; what a read answered.
ReadResult == {"ok", "error", "denied", "foreign"}
UnlockResult == {"port", "unsupported", "failed", "denied"}
Event ==
  [type: {"presence"}, port: Port, mode: Mode \cup {Nothing}]
    \cup [type: {"read"}, port: Port, result: ReadResult, num: Nat]
    \cup [type: {"steps", "relock"}, port: Port, ok: BOOLEAN]
    \cup [type: {"written", "refused", "unplugged"}, port: Port]
    \cup [type: {"locked"}, list: SUBSET Port]
    \cup [type: {"unlock"}, port: Port, result: UnlockResult, mode: Mode \cup {Nothing}]
    \cup [type: {"installed"}, ok: BOOLEAN]

ASSUME WorkerAssumption ==
  /\ IsFiniteSet(Port)
  /\ UnlockMode \in Mode
  /\ Kinds \subseteq Kind
  /\ Nothing \notin Mode \cup Pad \cup Sighting \cup Command
  /\ SettlePolls \in Nat \ {0}
  /\ MaxDevnum \in Nat /\ MaxQueue \in Nat /\ MaxSend \in Nat
  /\ Unsettled \in BOOLEAN

ASSUME WriteAssumption == WriteVia \in [Mode -> Mode \cup {Nothing}]

VARIABLES
  bus,          \* what is on each port
  devnum,       \* the last device number the kernel gave
  unseen,       \* the ports whose kind of pad changed since the last poll
  reported,     \* Debounce.reported: the presence the window knows of
  candidate,    \* Debounce.candidate: the presence the last polls saw
  agreeing,     \* Debounce.agreeing: how many polls in a row saw it
  locked_seen,  \* the locked ports last told
  unsupported,  \* the ports whose pad is left alone until it goes
  cmd,          \* the command that runs, or Nothing
  broken,       \* the pad changed under that command
  cmds,         \* the channel to the worker
  evts,         \* the channel to the window
  log,          \* history: what the last SettlePolls polls saw on each port
  untold        \* history: the ports a command left in another mode, or without the
                \* pad, and no event has told since

pads == <<bus, devnum, unseen>>
debounce == <<reported, candidate, agreeing, log, untold>>
locks == <<locked_seen, unsupported>>
wvars == <<pads, debounce, locks, cmd, broken, cmds, evts>>

PadsOK ==
  /\ bus \in [Port -> Pad \cup {Nothing}]
  /\ devnum \in Nat
  /\ unseen \subseteq Port

DebounceOK ==
  /\ reported \in [Port -> Sighting \cup {Nothing}]
  /\ candidate \in [Port -> Sighting \cup {Nothing}]
  /\ agreeing \in [Port -> 0..SettlePolls - 1]
  /\ log \in [Port -> [1..SettlePolls -> Sighting \cup {Nothing}]]
  /\ untold \subseteq Port

LocksOK == locked_seen \subseteq Port /\ unsupported \subseteq Port

ChannelsOK ==
  /\ cmd \in Command \cup {Nothing}
  /\ broken \in BOOLEAN
  /\ cmds \in Seq(Command)
  /\ evts \in Seq(Event)

TypeOK == PadsOK /\ DebounceOK /\ LocksOK /\ ChannelsOK

WInit ==
  /\ bus = [p \in Port |-> Nothing]
  /\ devnum = 0
  /\ unseen = {}
  /\ reported = [p \in Port |-> Nothing]
  /\ candidate = [p \in Port |-> Nothing]
  /\ agreeing = [p \in Port |-> 0]
  /\ log = [p \in Port |-> [k \in 1..SettlePolls |-> Nothing]]
  /\ untold = {}
  /\ locked_seen = {} /\ unsupported = {}
  /\ cmd = Nothing /\ broken = FALSE
  /\ cmds = <<>> /\ evts = <<>>

-------------------------------------------------------------------------------
(***************************************************************************)
(* The bus.  Every enumeration gets a new device number, so a replug shows *)
(* even when no poll saw the port empty.                                   *)
(***************************************************************************)
Is(p, k) == bus[p] # Nothing /\ bus[p].kind \in k

Seen(p) == [mode |-> bus[p].mode, num |-> bus[p].num]

\* scan_sysfs_all: the config port on p, those of refused models included.
Scanned(p) == IF Is(p, ConfigPorts) THEN Seen(p) ELSE Nothing

\* What a poll counts as present: a refused model is reported, never listed.
Found(p) == IF Is(p, ConfigPorts \ {"refused"}) THEN Seen(p) ELSE Nothing

ModeOf(s) == IF s = Nothing THEN Nothing ELSE s.mode

\* The pad on p comes back as a pad of kind k in mode m, with the next number.
Enumerate(p, k, m) ==
  /\ devnum < MaxDevnum
  /\ devnum' = devnum + 1
  /\ bus' = [bus EXCEPT ![p] = [kind |-> k, mode |-> m, num |-> devnum + 1]]

\* The pad on p goes.
Leave(p) == bus' = [bus EXCEPT ![p] = Nothing] /\ UNCHANGED devnum

Touching(c, p) == c \in [op: {"write", "unlock", "relock"}, port: {p}]

\* A write or a lock command for p is queued or runs.
Busy(p) == Touching(cmd, p) \/ \E i \in 1..Len(cmds) : Touching(cmds[i], p)

Unplug(p) ==
  /\ bus[p] # Nothing
  /\ Unsettled \/ (p \notin unseen /\ ~Busy(p))
  /\ Leave(p)
  /\ unseen' = unseen \cup {p}

Plug(p, k, m) ==
  /\ k \in Kinds
  /\ k \in {"locked", "unlisted"} => m = UnlockMode
  /\ bus[p] = Nothing \/ Unsettled
  /\ Unsettled \/ (p \notin unseen /\ ~Busy(p))
  /\ Enumerate(p, k, m)
  /\ unseen' = unseen \cup {p}

\* The slide switch moves, or the cable is out and in between two polls.
Slide(p, m) ==
  /\ Is(p, {"config"})
  /\ Unsettled \/ ~Busy(p)
  /\ Enumerate(p, "config", m)
  /\ UNCHANGED unseen

Move(p) ==
  /\ \/ Unplug(p)
     \/ \E k \in Kind, m \in Mode : Plug(p, k, m)
     \/ \E m \in Mode : Slide(p, m)
  /\ broken' = (broken \/ (cmd # Nothing /\ cmd.op # "install" /\ cmd.port = p))
  /\ UNCHANGED <<debounce, locks, cmd, cmds, evts>>

-------------------------------------------------------------------------------
(***************************************************************************)
(* Polling: recv_timeout ran out, so no command waits.                     *)
(***************************************************************************)
Perms(S) == {s \in [1..Cardinality(S) -> S] : \A i, j \in DOMAIN s : s[i] = s[j] => i = j}

\* Mutant: a poll that saw something else does not start the count again.
CountAll(p) == agreeing[p] + 1

\* Debounce::observe: the polls in a row that saw what this one sees on p.
Count(p) ==
  IF Found(p) = candidate[p] /\ agreeing[p] > 0 THEN agreeing[p] + 1 ELSE 1

Settles(p) == Found(p) # reported[p] /\ Count(p) >= SettlePolls

\* A port with nothing on it and nothing reported leaves the map.
observe ==
  /\ reported' = [p \in Port |-> IF Settles(p) THEN Found(p) ELSE reported[p]]
  /\ agreeing' = [p \in Port |->
       IF Found(p) = reported[p] \/ Settles(p) THEN 0 ELSE Count(p)]
  /\ candidate' = [p \in Port |->
       IF Found(p) = Nothing /\ (Settles(p) \/ reported[p] = Nothing) THEN Nothing
       ELSE IF Found(p) = reported[p] THEN candidate[p] ELSE Found(p)]
  /\ log' = [p \in Port |->
       [k \in 1..SettlePolls |-> IF k = SettlePolls THEN Found(p) ELSE log[p][k + 1]]]
  /\ untold' = {p \in untold : ~Settles(p)}

LockedPorts == {p \in Port : Is(p, {"locked"})}

\* Unsupported pads whose port emptied.
Left == {p \in unsupported : bus[p] = Nothing}

\* poll_locks, then report_refused: those still there, not back as locked, and the new.
StillThere == {p \in unsupported : bus[p] # Nothing /\ p \notin LockedPorts}
NewlyRefused == {p \in Port : Is(p, {"refused"}) /\ p \notin StillThere}

LockedNews == IF LockedPorts = locked_seen THEN <<>>
              ELSE <<[type |-> "locked", list |-> LockedPorts]>>

Unplugged == {[type |-> "unplugged", port |-> p] : p \in Left}
RefusedNews == {[type |-> "refused", port |-> p] : p \in NewlyRefused}
Presences == {[type |-> "presence", port |-> p, mode |-> ModeOf(Found(p))] :
                p \in {q \in Port : Settles(q)}}

Room == Len(evts) < MaxQueue

Poll ==
  /\ cmd = Nothing /\ cmds = <<>> /\ Room
  /\ observe
  /\ locked_seen' = LockedPorts
  /\ unsupported' = StillThere \cup NewlyRefused
  /\ \E u \in Perms(Unplugged), r \in Perms(RefusedNews), s \in Perms(Presences) :
       evts' = evts \o u \o LockedNews \o r \o s
  /\ unseen' = {}
  /\ UNCHANGED <<bus, devnum, cmd, broken, cmds>>

-------------------------------------------------------------------------------
(***************************************************************************)
(* Commands.                                                               *)
(***************************************************************************)
Take ==
  /\ cmd = Nothing /\ cmds # <<>> /\ Room
  /\ cmd' = Head(cmds) /\ cmds' = Tail(cmds)
  /\ broken' = FALSE
  /\ UNCHANGED <<pads, debounce, locks, evts>>

Emit(e) == evts' = Append(evts, e)

\* The running command of kind op for p ends.
Ends(op, p) ==
  /\ cmd = [op |-> op, port |-> p]
  /\ cmd' = Nothing
  /\ UNCHANGED <<broken, cmds>>

\* Debounce::forget.
forget(p) ==
  /\ reported' = [reported EXCEPT ![p] = Nothing]
  /\ agreeing' = [agreeing EXCEPT ![p] = 0]
  /\ untold' = untold \ {p}
  /\ UNCHANGED <<candidate, log>>

\* The pad went away in the middle of a read: Error::Disconnected.
Disconnected(p) ==
  /\ broken
  /\ forget(p)
  /\ Emit([type |-> "presence", port |-> p, mode |-> Nothing])

\* Sets reported[p] to what the bus shows after the command.  Whether the command's
\* event then tells the window of it, tells says.
mark_seen(p, tells) ==
  /\ reported' = [reported EXCEPT ![p] = Scanned(p)']
  /\ untold' = IF tells THEN untold \ {p}
               ELSE IF ModeOf(Scanned(p))' = ModeOf(reported[p]) THEN untold
               ELSE untold \cup {p}
  /\ UNCHANGED <<candidate, agreeing, log>>

\* What a session on p can answer: only a supported pad gives its banks; a refused
\* one, or one that names a model nobody knows, is UnsupportedModel; the rest fails.
Answer(p) ==
  CASE Is(p, {"config"}) -> {"ok", "error", "denied"}
    [] Is(p, {"lookalike"}) -> {"foreign", "error", "denied"}
    [] Is(p, {"refused"}) -> {"foreign"}
    [] OTHER -> {"error"}

Number(p) == IF bus[p] = Nothing THEN 0 ELSE bus[p].num

\* ReadAll, its one retry included: the retry may reach a pad that came meanwhile.
ReadEnds(p) ==
  /\ Ends("read", p)
  /\ \/ Disconnected(p)
     \/ \E r \in Answer(p) :
          /\ Emit([type |-> "read", port |-> p, result |-> r, num |-> Number(p)])
          /\ UNCHANGED debounce
  /\ UNCHANGED <<pads, locks>>

\* ReadMacroSteps: no retry, so a pad that changed under it never answers.
StepsEnd(p) ==
  /\ Ends("steps", p)
  /\ \/ Disconnected(p)
     \/ \E ok \in BOOLEAN :
          /\ ok => Is(p, {"config"}) /\ ~broken
          /\ Emit([type |-> "steps", port |-> p, ok |-> ok])
          /\ UNCHANGED debounce
  /\ UNCHANGED <<pads, locks>>

\* begin_write and end_write: the pad is as it was, or was flipped and is back under a
\* new number, or is still in the mode of the flip, or did not come back in time.
Leaves(p) ==
  \/ UNCHANGED <<bus, devnum>>
  \/ /\ Is(p, {"config"}) /\ WriteVia[bus[p].mode] # Nothing
     /\ \/ \E m \in {bus[p].mode, WriteVia[bus[p].mode]} : Enumerate(p, "config", m)
        \/ Leave(p)

\* Whatever mode the write left the pad in counts as reported, and Written tells none.
WriteEnds(p) ==
  /\ Ends("write", p)
  /\ Leaves(p)
  /\ mark_seen(p, FALSE)
  /\ Emit([type |-> "written", port |-> p])
  /\ UNCHANGED <<unseen, locks>>

Unsupportable == {"refused", "unlisted"}

\* lock::unlock, and what unlock() finds before it: the results and the pad after.  It
\* fails before the pad moves, or once it has: it is away, or its port is up and has
\* no node in time, or giving the interface back fails.
Unlocks(p, r) ==
  \/ r \in {"failed", "denied"} /\ (Is(p, {"locked"}) \/ r = "failed") /\ UNCHANGED <<bus, devnum>>
  \/ r \in {"port", "failed", "denied"} /\ Is(p, {"locked"}) /\ Enumerate(p, "config", UnlockMode)
  \/ /\ r \in {"unsupported", "failed"} /\ Is(p, {"locked"})
     /\ \E k \in Kinds \cap Unsupportable : Enumerate(p, k, UnlockMode)
  \/ r = "failed" /\ Is(p, {"locked"}) /\ Leave(p)

Unsupports(p, r) == IF r = "unsupported" THEN unsupported \cup {p} ELSE unsupported

UnlockEnds(p) ==
  /\ Ends("unlock", p)
  /\ \E r \in UnlockResult :
       /\ Unlocks(p, r)
       /\ mark_seen(p, r = "port")
       /\ unsupported' = Unsupports(p, r)
       /\ Emit([type |-> "unlock", port |-> p, result |-> r, mode |-> ModeOf(Scanned(p))'])
  /\ unseen' = IF devnum' = devnum THEN unseen ELSE unseen \cup {p}
  /\ UNCHANGED locked_seen

\* A relock that fails may have made the pad leave; what follows it, the polls see.
RelockEnds(p) ==
  /\ Ends("relock", p)
  /\ \/ /\ Is(p, {"config"}) /\ Enumerate(p, "locked", UnlockMode)
        /\ mark_seen(p, TRUE)
        /\ Emit([type |-> "relock", port |-> p, ok |-> TRUE])
        /\ unseen' = unseen \cup {p}
     \/ /\ \/ UNCHANGED <<bus, devnum>>
           \/ Is(p, {"config"}) /\ Leave(p)
        /\ Emit([type |-> "relock", port |-> p, ok |-> FALSE])
        /\ UNCHANGED <<unseen, debounce>>
  /\ UNCHANGED locks

InstallEnds ==
  /\ cmd # Nothing /\ cmd.op = "install"
  /\ cmd' = Nothing
  /\ \E ok \in BOOLEAN : Emit([type |-> "installed", ok |-> ok])
  /\ UNCHANGED <<pads, debounce, locks, broken, cmds>>

CommandEnds ==
  \/ InstallEnds
  \/ \E p \in Port : \/ ReadEnds(p) \/ StepsEnd(p) \/ WriteEnds(p)
                     \/ UnlockEnds(p) \/ RelockEnds(p)

Work == Poll \/ Take \/ CommandEnds

(***************************************************************************)
(* The window as any client: it takes an event, and sends commands.        *)
(***************************************************************************)
Client ==
  /\ \E n \in 0..MaxSend : \E s \in [1..n -> Command] :
       Len(cmds) + n <= MaxSend /\ cmds' = cmds \o s
  /\ evts' = evts \/ (evts # <<>> /\ evts' = Tail(evts))
  /\ UNCHANGED <<pads, debounce, locks, cmd, broken>>

WNext == (\E p \in Port : Move(p)) \/ Work \/ Client

WSpec == WInit /\ [][WNext]_wvars

-------------------------------------------------------------------------------
(***************************************************************************)
(* Properties of the worker, whatever the window does.                     *)
(***************************************************************************)
\* "Polls in a row that must agree before a presence change is reported": what a poll
\* tells of a port is what each of the last SettlePolls polls saw there, whatever
\* commands ran between them and changed what counts as reported.
TellsOnlyAgreed ==
  [][Poll => \A p \in Port : reported'[p] # reported[p] =>
               \A k \in 1..SettlePolls : log'[p][k] = reported'[p]]_wvars

\* A pad that is left alone is let go of with an event, once: the port leaves
\* `unsupported` only when it emptied, and then Unplugged goes out, or when the pad is
\* back as a locked one, which the locked list then holds.
LetsGoOnlyOfTheGone ==
  [][\A p \in unsupported \ unsupported' :
       \/ p \in locked_seen'
       \/ bus[p] = Nothing /\ \E i \in Len(evts) + 1..Len(evts') :
            evts'[i] = [type |-> "unplugged", port |-> p]]_wvars
=============================================================================
