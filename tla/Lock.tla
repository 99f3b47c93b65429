-------------------------------- MODULE Lock --------------------------------
(***************************************************************************)
(* Unlocking and relocking (transport/lock.rs, usbfs.rs) beside the calls  *)
(* of Session on the same port path.  A locked pad shows no config port:   *)
(* its interface is taken from the kernel driver and claimed, the unlock   *)
(* goes out, and the claim holds until the pad has left, since a driver    *)
(* that gets the interface back before that disturbs the unlock.  Every    *)
(* path gives it back.  That a driver attaches again to a pad that is      *)
(* still there, and that a locked pad is not swapped between two steps of  *)
(* one usbfs call, is taken of the kernel.                                 *)
(***************************************************************************)
EXTENDS Session

CONSTANTS
  LockedUsb,      \* lock.locked.usb
  LockedModel,    \* the model whose description declares the lock
  UnlockPackets,  \* how many packets an unlock is, and a relock
  Unlocks         \* per kind, the USB ids an unlock may bring it up with

ASSUME LockAssumption ==
  /\ LockedUsb \notin DOMAIN Ports /\ LockedModel \in DOMAIN Models
  /\ UnlockPackets \in Nat \ {0}

\* Which pads share an id: a config port that a model is named by is no stranger's, a
\* wrapped one may be a Nintendo pad's, and the ports of a model nobody validated are
\* its own.  The Ultimates all show the locked id.
Shown(kind) == {Kinds[kind].ids[slide] : slide \in DOMAIN Kinds[kind].ids}
Stranger(kind) == ~Kinds[kind].speaks \/ Kinds[kind].model \notin DOMAIN Models
Unvalidated(kind) == ~Stranger(kind) /\ ~Models[Kinds[kind].model].validated

ASSUME KindAssumption ==
  /\ \A kind \in DOMAIN Kinds :
       /\ Kinds[kind].speaks \in BOOLEAN
       /\ Stranger(kind) => LockedUsb \notin Shown(kind)
            /\ \A id \in Shown(kind) \cap DOMAIN Ports :
                 /\ Ports[id].names = Nothing
                 /\ ~Kinds[kind].speaks => Ports[id].framing = "wrapped"
       /\ Unvalidated(kind) =>
            \A id \in (Shown(kind) \cup Unlocks[kind]) \cap DOMAIN Ports : Refused(id)
  /\ Models[LockedModel].validated
  /\ \A id \in Models[LockedModel].ports : Ports[id].names = LockedModel

VARIABLES
  driver,   \* who has the interface of the locked pad: "kernel", "none", "us"
  node,     \* the plug whose usbfs or hidraw node the call has open
  acting    \* the pad took a whole sequence and is about to leave for it
lockVars == <<driver, node, acting>>
vars == <<sessionVars, lockVars>>

IsLocked == pad # Nothing /\ pad.id = LockedUsb
NodeAlive == pad # Nothing /\ pad.plug = node
Rest == UNCHANGED <<session, cache, calls, plugs>>
Goes(pc) == call' = [call EXCEPT !.pc = pc] /\ UNCHANGED job
Sequence(cmd) == [i \in 1..UnlockPackets |-> Simple(cmd)]
FirstPacket == Len(call.todo) = UnlockPackets

\* The worker runs one command at a time, so no session is open here.
CallLock(op) ==
  /\ call.pc = "idle" /\ calls < MaxCalls /\ session = Nothing /\ job = Nothing
  /\ pad # Nothing
  /\ op = "unlock" => IsLocked
  /\ op = "relock" => pad.id \in Models[LockedModel].ports
  /\ calls' = calls + 1
  /\ node' = pad.plug
  /\ call' = [NoCall EXCEPT !.op = op, !.pc = IF op = "unlock" THEN "detach" ELSE "node",
                           !.todo = Sequence(op)]
  /\ UNCHANGED <<pad, session, cache, job, plugs, driver, acting>>

(***************************************************************************)
(* send_unlock.                                                            *)
(***************************************************************************)
\* UsbNode::open, before anything was taken.
NodeDenied ==
  /\ call.pc = "detach" /\ Returns(FALSE)
  /\ Rest /\ UNCHANGED <<pad, lockVars>>

Detach ==
  /\ call.pc = "detach" /\ NodeAlive
  /\ driver' = "none" /\ Goes("claim")
  /\ Rest /\ UNCHANGED <<pad, node, acting>>

Claim ==
  /\ call.pc = "claim" /\ NodeAlive
  /\ driver' = "us" /\ Goes("packets")
  /\ Rest /\ UNCHANGED <<pad, node, acting>>

\* A step of usbfs fails, or the pad is gone before it took a packet.
Gives(ok) == call' = [call EXCEPT !.pc = "release", !.ok = ok] /\ UNCHANGED job
StepFails ==
  /\ call.pc \in {"detach", "claim", "packets"}
  /\ Gives(FALSE) /\ Rest /\ UNCHANGED <<pad, lockVars>>

\* After the last packet.
NextAfterUnlock == [call EXCEPT !.todo = <<>>, !.pc = "await"]

UnlockPacket ==
  /\ call.pc = "packets" /\ NodeAlive
  /\ pad' = [pad EXCEPT !.heard = @ \cup {"unlock"}]
  /\ call' = IF Len(call.todo) > 1 THEN [call EXCEPT !.todo = Tail(@)] ELSE NextAfterUnlock
  /\ acting' = (Len(call.todo) = 1)
  /\ Rest /\ UNCHANGED <<job, driver, node>>

\* Gone after the first packet, it has re-enumerated.
GoneAfterFirst ==
  /\ call.pc = "packets" /\ ~NodeAlive /\ ~FirstPacket
  /\ call' = NextAfterUnlock /\ UNCHANGED job
  /\ Rest /\ UNCHANGED <<pad, lockVars>>

(***************************************************************************)
(* wait_for_port.                                                          *)
(***************************************************************************)
\* Something else shows on the port path: an id no description lists or a model
\* nobody validated, which nothing more is sent to, or a config port that opens.
ComesUp ==
  /\ call.pc = "await" /\ pad # Nothing /\ ~IsLocked
  /\ Gives(TRUE) /\ Rest /\ UNCHANGED <<pad, lockVars>>

\* Nothing does in time, or the node of its config port may not be opened.
AwaitEnds ==
  /\ call.pc = "await"
  /\ Gives(FALSE) /\ Rest /\ UNCHANGED <<pad, lockVars>>

\* The release and the reattach run on every path; both find a pad that left gone.
GivenBack == IF NodeAlive THEN "kernel" ELSE driver

Release ==
  /\ call.pc = "release"
  /\ driver' = GivenBack /\ Returns(call.ok)
  /\ Rest /\ UNCHANGED <<pad, node, acting>>

(***************************************************************************)
(* relock_in.                                                              *)
(***************************************************************************)
\* No config port of the model is there any more, or its node may not be opened.
NodeRefused ==
  /\ call.pc = "node" /\ Returns(FALSE)
  /\ Rest /\ UNCHANGED <<pad, lockVars>>

NodeOpens ==
  /\ call.pc = "node" /\ pad # Nothing /\ pad.id \in Models[LockedModel].ports
  /\ node' = pad.plug /\ Goes("reports")
  /\ Rest /\ UNCHANGED <<pad, driver, acting>>

Report ==
  /\ call.pc = "reports" /\ NodeAlive
  /\ pad' = [pad EXCEPT !.heard = @ \cup {"relock"}]
  /\ call' = [call EXCEPT !.todo = Tail(@), !.pc = IF Len(call.todo) > 1 THEN "reports" ELSE "locked"]
  /\ acting' = (Len(call.todo) = 1)
  /\ Rest /\ UNCHANGED <<job, driver, node>>

ReportGone ==
  /\ call.pc = "reports" /\ ~NodeAlive
  /\ IF FirstPacket THEN Returns(FALSE) ELSE Goes("locked")
  /\ Rest /\ UNCHANGED <<pad, lockVars>>

\* wait_for_usb
LockedShows ==
  /\ call.pc = "locked" /\ IsLocked /\ Returns(TRUE)
  /\ Rest /\ UNCHANGED <<pad, lockVars>>

LockedEnds ==
  /\ call.pc = "locked" /\ Returns(FALSE)
  /\ Rest /\ UNCHANGED <<pad, lockVars>>

(***************************************************************************)
(* The pad leaves for what it was told.  With the driver on it again it    *)
(* may as well stay locked.                                                *)
(***************************************************************************)
PadLeaves ==
  /\ acting /\ pad # Nothing /\ plugs < MaxPlugs
  /\ \E id \in IF IsLocked THEN Unlocks[pad.kind] ELSE {LockedUsb} :
       pad' = Enumerated(pad.kind, pad.slide, id, plugs + 1)
  /\ plugs' = plugs + 1
  /\ driver' = "kernel" /\ acting' = FALSE
  /\ UNCHANGED <<session, cache, job, call, calls, node>>

PadStays ==
  /\ acting /\ driver = "kernel" /\ IsLocked
  /\ acting' = FALSE
  /\ UNCHANGED <<sessionVars, driver, node>>

(***************************************************************************)
(* A pad that enumerates has its kernel driver.                            *)
(***************************************************************************)
SessionStep ==
  /\ SessionNext
  /\ driver' = IF plugs' # plugs THEN "kernel" ELSE driver
  /\ acting' = (acting /\ pad' # Nothing /\ pad'.plug = pad.plug)
  /\ UNCHANGED node

Init == SessionInit /\ driver = "kernel" /\ node = 0 /\ acting = FALSE

Next ==
  \/ SessionStep
  \/ \E op \in {"unlock", "relock"} : CallLock(op)
  \/ NodeDenied \/ Detach \/ Claim \/ StepFails \/ UnlockPacket \/ GoneAfterFirst
  \/ ComesUp \/ AwaitEnds \/ Release
  \/ NodeRefused \/ NodeOpens \/ Report \/ ReportGone \/ LockedShows \/ LockedEnds
  \/ PadLeaves \/ PadStays

Spec == Init /\ [][Next]_vars

(***************************************************************************)
(* Properties.                                                             *)
(***************************************************************************)
\* Whatever comes of a call, what it took is back when it returns: the pad's input
\* (InputIsBack) and, for a locked pad that is still there, its kernel driver
\* (lock.rs, send_unlock).
HandedBack ==
  /\ InputIsBack
  /\ call.pc = "idle" /\ IsLocked => driver = "kernel"

\* A success is the pad's: of a read or a write (AnswersAreItsOwn), and of an unlock
\* or a relock, after which the pad it was sent to has left (lock.rs, wait_for_port).
SuccessIsThePads ==
  /\ AnswersAreItsOwn
  /\ call.pc = "idle" /\ call.ok /\ call.op \in {"unlock", "relock"} => ~NodeAlive

\* Nothing is sent to a pad the app does not know: on an id it shares
\* (StrangersAreLeftAlone) or on one an unlock brought up.  A locked pad, whose model is
\* not known yet, hears nothing but the unlock.
UnknownIsLeftAlone ==
  /\ StrangersAreLeftAlone
  /\ pad # Nothing /\ pad.id = LockedUsb => pad.heard \subseteq {"unlock"}
  /\ pad # Nothing /\ pad.id \notin DOMAIN Ports \cup {LockedUsb} => pad.heard = {}

-------------------------------------------------------------------------------
(***************************************************************************)
(* What the properties rest on.                                            *)
(***************************************************************************)
Cmd == {"pause", "resume", "start", "firmware", "select", "upload", "readmacro", "write",
        "writemacro", "erase", "apply", "query", "flip", "close", "unlock", "relock"}
Chunked == {"upload", "readmacro", "write", "writemacro"}
PacketSet == [cmd: {"select"}, part: AllModes] \cup [cmd: Chunked, part: Parts]
             \cup [cmd: Cmd \ ({"select"} \cup Chunked), part: {Nothing}]
Ofs == {Kinds[kind].model : kind \in DOMAIN Kinds} \cup AllModes \cup {Nothing}
Reply == [cmd: {"select"}, part: AllModes, of: Ofs]
         \cup [cmd: Chunked, part: 0..Chunks, of: Ofs]
         \cup [cmd: (Cmd \cup {"input"}) \ ({"select"} \cup Chunked), part: {Nothing}, of: Ofs]

UsbIds == DOMAIN Ports \cup {LockedUsb}
          \cup UNION {Shown(kind) \cup Unlocks[kind] : kind \in DOMAIN Kinds}
PadSet == [kind: DOMAIN Kinds, slide: UNION {DOMAIN Kinds[kind].ids : kind \in DOMAIN Kinds},
           id: UsbIds, plug: Nat, input: {"runs", "paused", "left"},
           bank: AllModes \cup {Nothing}, heard: SUBSET Cmd, owed: Seq(Reply)]
SessionSet == [plug: Nat, port: DOMAIN Ports, paused: {TRUE}, model: DOMAIN Models \cup {Nothing},
               queue: Seq(Reply), held: BOOLEAN]

LockSteps == {"detach", "claim", "packets", "await", "release", "node", "reports", "locked"}
Steps == {"idle", "open", "settle", "send", "wait", "start", "end", "back"} \cup LockSteps
CallSet == [op: Ops \cup {"unlock", "relock", "none"}, mode: AllModes \cup {Nothing},
            opening: BOOLEAN, ok: BOOLEAN, pc: Steps, todo: Seq(PacketSet),
            to: AllModes \cup {Nothing}, bank: AllModes \cup {Nothing},
            handled: SUBSET Parts,
            read: SUBSET ((AllModes \cup {Nothing}) \X Ofs)]

ASSUME NothingIsNoRecord == Nothing \notin PadSet \cup SessionSet

TypeOK ==
  /\ pad \in PadSet \cup {Nothing}
  /\ pad # Nothing => pad.slide \in DOMAIN Kinds[pad.kind].ids
  /\ session \in SessionSet \cup {Nothing}
  /\ cache \in DOMAIN Models \cup {Nothing}
  /\ job \in AllModes \cup {"in place", Nothing}
  /\ call \in CallSet /\ (call.op \in Ops => call.mode # Nothing)
  /\ calls \in 0..MaxCalls /\ plugs \in 1..MaxPlugs
  /\ driver \in {"kernel", "none", "us"} /\ node \in Nat /\ acting \in BOOLEAN

\* Which steps have a session, and what it stands for.
Placed ==
  /\ call.pc \in {"settle", "send", "wait", "start"} => session # Nothing
  /\ call.pc \in {"open", "back"} \cup LockSteps => session = Nothing
  /\ session # Nothing /\ call.pc \in {"idle", "end"} => session.held
  /\ session # Nothing /\ session.held => job # Nothing
  /\ session # Nothing /\ ~(call.opening /\ call.pc \in {"settle", "send", "wait"}) =>
       session.model # Nothing
  /\ call.pc \notin {"idle"} \cup LockSteps => call.op \in Ops
  /\ call.pc \in {"open", "settle"} \/ (call.pc = "end" /\ session = Nothing) => call.opening
  /\ call.pc = "end" => call.op = "end"
  /\ call.pc = "back" => call.op \in {"begin", "end"}
  /\ call.pc \in {"detach", "claim", "packets", "await", "release"} => call.op = "unlock"
  /\ call.pc \in {"node", "reports", "locked"} => call.op = "relock"
  /\ call.pc \in {"detach", "claim", "packets", "node", "reports"} => call.todo # <<>>

\* What is left to send: no upload goes out before the select of its bank, and each
\* chunk was handled or is still to come.
Planned ==
  call.pc \in {"send", "wait"} =>
    /\ call.todo # <<>>
    /\ IF call.opening THEN call.todo = Opening(session.model)
       ELSE \A i \in DOMAIN call.todo :
              /\ call.todo[i].cmd \notin {"start", "firmware"}
              /\ call.todo[i].cmd = "upload" /\ i > 1 =>
                   call.todo[i - 1].cmd \in {"select", "upload"}
              /\ call.todo[i].cmd \in Lasts => call.op \in {"begin", "end"}
              /\ call.todo[i].cmd = "flip" => call.to \in Models[session.model].flips
    /\ ~call.opening /\ call.op = "write" => \A part \in Parts :
         part \in call.handled \/ \E i \in DOMAIN call.todo : call.todo[i] = Packet("write", part)
    /\ ~call.opening /\ call.op = "macro" => \A part \in Parts :
         part \in call.handled \/ \E i \in DOMAIN call.todo : call.todo[i] = Packet("writemacro", part)

\* A report that the session has or is owed, other than an input one, is the answer to
\* the packet that waits, and the last one to come: of a pad that took it.
Answers(report) ==
  /\ report.cmd = Waited.cmd
  /\ report.cmd \in {"write", "writemacro"} => Waited.part \in call.handled
  /\ report.cmd = "upload" => report.of = call.bank
  /\ report.cmd = "select" /\ Alive => pad.bank = call.bank
  /\ Alive => Kind.speaks
  /\ report.cmd = "start" /\ Alive => report.of = Kind.model

InFlight ==
  session # Nothing /\ call.pc # "settle" =>
    IF call.pc = "wait"
    THEN /\ \A i \in DOMAIN session.queue : session.queue[i].cmd # "input" =>
              i = Len(session.queue) /\ Answers(session.queue[i])
         /\ Alive /\ pad.owed # <<>> =>
              /\ Len(pad.owed) = 1 /\ Answers(pad.owed[1])
              /\ \A i \in DOMAIN session.queue : session.queue[i].cmd = "input"
    ELSE session.queue = <<>> /\ (Alive => pad.owed = <<>>)

\* The bank a chunk is asked of is the one the pad has selected.
OnItsBank ==
  /\ call.pc \in {"send", "wait"} /\ Waited.cmd = "upload" /\ Alive => pad.bank = call.bank
  /\ \A asked \in call.read : asked[1] = asked[2]

\* Input is off only for a session that knows it.
PausedIsHeld ==
  pad # Nothing /\ pad.input = "paused" =>
    /\ Alive /\ Kind.speaks
    /\ call.pc = "wait" /\ First /\ Ports[session.port].framing = "wrapped" =>
         \E i \in DOMAIN session.queue : session.queue[i].cmd # "input"

\* A success is of a call that sent everything.
Whole ==
  call.pc = "idle" /\ call.ok /\ call.op \in {"write", "macro"} => call.handled = Parts

\* A session is on the port it found and with the model that is there.
Known ==
  /\ node <= plugs
  /\ pad # Nothing => pad.plug <= plugs
  /\ session # Nothing =>
       /\ session.plug <= plugs /\ ~Refused(session.port)
       /\ Ports[session.port].names \in {Nothing, session.model}
  /\ Alive =>
       /\ pad.id = session.port
       /\ session.model # Nothing /\ Ports[session.port].names = Nothing =>
            Kind.speaks /\ session.model = Kind.model

\* The interface is out of the kernel's hands, and the pad told to leave, only while an
\* unlock or a relock of the pad that is there goes on.
Locks ==
  /\ driver # "kernel" /\ IsLocked =>
       NodeAlive /\ call.pc \in {"claim", "packets", "await", "release"}
  /\ call.pc \in {"detach", "claim", "packets", "await", "release"} /\ NodeAlive => IsLocked
  /\ call.pc \in {"reports", "locked"} /\ NodeAlive => pad.id \in Models[LockedModel].ports
  /\ call.pc \in {"idle", "release"} /\ call.ok /\ call.op \in {"unlock", "relock"} => ~NodeAlive
  /\ acting => pad # Nothing /\ pad.id \in Models[LockedModel].ports \cup {LockedUsb}

\* Where the strangers and the unvalidated show, and what they heard.
Strange ==
  pad # Nothing =>
    /\ Stranger(pad.kind) => pad.id \in Shown(pad.kind)
    /\ Unvalidated(pad.kind) => pad.id \in Shown(pad.kind) \cup Unlocks[pad.kind] \cup {LockedUsb}
=============================================================================
