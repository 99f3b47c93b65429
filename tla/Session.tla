------------------------------- MODULE Session -------------------------------
(***************************************************************************)
(* The hidraw transport (transport/session.rs, hidraw_device.rs,           *)
(* hidraw_write.rs, protocol/framing.rs): the calls of DeviceIo on one USB *)
(* port path, packet by packet.  A session pauses the pad's input when it  *)
(* opens and resumes it when it is dropped; while a write job runs, every  *)
(* call uses the session the job holds, and an error drops it.             *)
(*                                                                         *)
(* A packet is its command and a part, the offset of a chunk.  The host    *)
(* takes the first report that echoes the command as the answer, as        *)
(* Framing::reply does, and checks the offset only where the code does.    *)
(* What is on the port is external: a pad obeys the packets it understands *)
(* but may answer late, not at all or wrongly, and may leave at any time.  *)
(* A late answer comes at the latest while the next session settles.  The  *)
(* lookup of a port and the open of its node are one step.                 *)
(***************************************************************************)
EXTENDS Naturals, Sequences, FiniteSets, SequencesExt

CONSTANTS
  Nothing,     \* no pad, no session, no job, no mode
  Ports,       \* the USB ids of config ports, each with its ConfigPort
  Models,      \* the models, each with what its description says
  Kinds,       \* the kinds of pads, each with how it behaves
  Ops,         \* which calls of DeviceIo are made
  Chunks,      \* chunks of a bank and of a macro
  MaxCalls,    \* bound: how many calls there are
  MaxPlugs     \* bound: how many times something is plugged in

\* ConfigPort: mode, framing, write_via and the model the USB id alone names.
\* A description: modes in order, config_ports, validated, firmware_request and
\* the modes it flips to.  A kind: the model id it answers with, its USB id per
\* position of its slide switch, and whether it speaks the config protocol.

ReadOps == {"model", "read", "streams", "detect"}
WriteOps == {"select", "apply", "write", "macro", "patch", "query", "erase"}
JobOps == {"begin", "end"}
Parts == 1..Chunks
AllModes == {Ports[id].mode : id \in DOMAIN Ports}

ASSUME SessionAssumption ==
  /\ Nothing \notin DOMAIN Ports \cup DOMAIN Models \cup DOMAIN Kinds
  /\ Nothing \notin AllModes \cup {"in place"}
  /\ Ops \subseteq ReadOps \cup WriteOps \cup JobOps
  /\ {Chunks, MaxCalls, MaxPlugs} \subseteq Nat \ {0}

\* What the loader of the descriptions checks of them.
ASSUME DescriptionAssumption ==
  /\ \A id \in DOMAIN Ports :
       /\ Ports[id].via \in AllModes \cup {Nothing}
       /\ Ports[id].names \in DOMAIN Models \cup {Nothing}
  /\ \A m \in DOMAIN Models :
       /\ Models[m].modes \in Seq(AllModes)
       /\ Models[m].ports \subseteq DOMAIN Ports
       /\ Models[m].flips \subseteq {Ports[id].mode : id \in Models[m].ports}

VARIABLES
  pad,      \* what is on the port path, or Nothing
  session,  \* the open Session, held or of this call, or Nothing
  cache,    \* HidrawDevice.model
  job,      \* the write job from begin_write to end_write: the mode to go back
            \* to, "in place", or Nothing
  call,     \* the call under way, and what came of it
  calls,    \* how many calls there were
  plugs     \* how many times something was plugged in or came back
sessionVars == <<pad, session, cache, job, call, calls, plugs>>

Packet(cmd, part) == [cmd |-> cmd, part |-> part]
Simple(cmd) == Packet(cmd, Nothing)
Select(mode) == Packet("select", mode)
Each(cmd) == [i \in Parts |-> Packet(cmd, i)]

(***************************************************************************)
(* The pad.                                                                *)
(***************************************************************************)
Kind == Kinds[pad.kind]
ModeOf(id) == IF id \in DOMAIN Ports THEN Ports[id].mode ELSE Nothing

\* Enumerated afresh: input runs, the bank of its mode, nothing owed.
Enumerated(kind, slide, id, n) ==
  [kind |-> kind, slide |-> slide, id |-> id, plug |-> n, input |-> "runs",
   bank |-> ModeOf(id), heard |-> {}, owed |-> <<>>]

\* The pad once it heard a packet.
Hears(p, packet) ==
  LET heard == [p EXCEPT !.heard = @ \cup {packet.cmd}] IN
  IF ~Kinds[p.kind].speaks THEN heard
  ELSE CASE packet.cmd \in {"pause", "query"} -> [heard EXCEPT !.input = "paused"]
         [] packet.cmd = "resume" -> [heard EXCEPT !.input = "runs"]
         [] packet.cmd = "select" -> [heard EXCEPT !.bank = packet.part]
         [] OTHER -> heard

\* What it answers: an upload chunk comes from the bank selected.
Answer(packet) ==
  [cmd |-> packet.cmd, part |-> packet.part,
   of |-> CASE packet.cmd = "start" -> Kind.model
            [] packet.cmd = "upload" -> pad.bank
            [] OTHER -> Nothing]

\* Byte 4 of a reply, the echo of the command: both reads are 0x02.
Echo(cmd) == IF cmd = "readmacro" THEN "upload" ELSE cmd
Offsets == {"upload", "write", "readmacro"}

(***************************************************************************)
(* Session.                                                                *)
(***************************************************************************)
Alive == session # Nothing /\ pad # Nothing /\ session.plug = pad.plug

\* Mutant: the resume only at the end of a call that went well.
ResumedOnSuccess(paused) ==
  IF paused /\ Alive /\ call.todo = <<>> THEN Hears(pad, Simple("resume")) ELSE pad

\* Drop: resumes what it paused, if the pad is still there.
Resumed(paused) == IF paused /\ Alive THEN Hears(pad, Simple("resume")) ELSE pad

\* end_write ends the job whatever comes of it.
Returns(ok) ==
  /\ call' = [call EXCEPT !.pc = "idle", !.ok = ok]
  /\ job' = IF call.op = "end" THEN Nothing ELSE job

Closes(paused, ok) ==
  session' = Nothing /\ pad' = Resumed(paused) /\ Returns(ok)

\* read_session: a failed open forgets the model.
Forgets == cache' = IF call.op \in ReadOps /\ call.opening THEN Nothing ELSE cache

\* refuse_unvalidated
Refused(id) == LET m == Ports[id].names IN m # Nothing /\ ~Models[m].validated

\* A call starts: on the held session at once, or it opens one.  model() answers
\* from what the last read session saw.
Call(op, mode) ==
  /\ call.pc = "idle" /\ calls < MaxCalls
  /\ op = "begin" => job = Nothing
  /\ op = "end" => job # Nothing
  /\ op \in {"model", "detect"} => session = Nothing
  /\ op = "model" => cache = Nothing
  /\ op = "detect" => job = Nothing
  /\ op # "select" => mode = CHOOSE m \in AllModes : TRUE
  /\ calls' = calls + 1
  /\ call' = [op |-> op, mode |-> mode, opening |-> session = Nothing, ok |-> FALSE,
              pc |-> IF op = "end" THEN "end" ELSE IF session = Nothing THEN "open" ELSE "start",
              todo |-> <<>>, to |-> Nothing, bank |-> Nothing, handled |-> {}, read |-> {}]
  /\ UNCHANGED <<pad, session, cache, job, plugs>>

Fails == Returns(FALSE) /\ Forgets /\ UNCHANGED <<pad, session, calls, plugs>>

\* Target::find: the config port there is on the USB port path.
Found == IF pad # Nothing /\ pad.id \in DOMAIN Ports THEN pad.id ELSE Nothing

NoDevice == call.pc = "open" /\ Found = Nothing /\ Fails

RefusesUnvalidated ==
  call.pc = "open" /\ Found # Nothing /\ Refused(Found) /\ Fails

\* The node is not there yet or may not be opened.
OpenDenied ==
  call.pc = "open" /\ Found # Nothing /\ ~Refused(Found) /\ Fails

\* Session::open up to the pause, whose answer is not awaited: the pad may miss it.
Open ==
  /\ call.pc = "open" /\ Found # Nothing /\ ~Refused(Found)
  /\ session' = [plug |-> pad.plug, port |-> Found, paused |-> TRUE,
                 model |-> Ports[Found].names, queue |-> <<>>, held |-> FALSE]
  /\ pad' \in {Hears(pad, Simple("pause")), [pad EXCEPT !.heard = @ \cup {"pause"}]}
  /\ call' = [call EXCEPT !.pc = "settle"]
  /\ UNCHANGED <<cache, job, calls, plugs>>

\* The first packets after the pause.
Opening(model) ==
  IF model = Nothing THEN <<Simple("start")>>
  ELSE IF Models[model].asks THEN <<Simple("firmware")>> ELSE <<>>

\* The reports the drain of `pause` leaves.
Drained == <<>>

\* PAUSE_SETTLE and the drain.
Settle ==
  /\ call.pc = "settle" /\ Alive
  /\ session' = [session EXCEPT !.queue = Drained]
  /\ pad' = [pad EXCEPT !.owed = <<>>]
  /\ call' = [call EXCEPT !.pc = IF Opening(session.model) = <<>> THEN "start" ELSE "send",
                          !.todo = Opening(session.model)]
  /\ UNCHANGED <<cache, job, calls, plugs>>

\* The first packet after the pause that waits for a reply.
First == call.opening /\ call.todo = Opening(Ports[session.port].names)

\* Mutant: resumed on every error path.
PausedAlways == session.paused

\* first_reply: a wrapped id that stays silent may be a Nintendo pad, so not even
\* the resume goes out.
PausedAfterSilence ==
  session.paused /\ ~(First /\ Ports[session.port].framing = "wrapped")

\* Mutant: a held session outlives an error.
ErrsHeld(paused) ==
  IF ~session.held THEN Closes(paused, FALSE) /\ Forgets /\ UNCHANGED <<calls, plugs>>
  ELSE Returns(FALSE) /\ Forgets /\ UNCHANGED <<pad, session, calls, plugs>>

\* An error drops the session, held or not; a rollback's call opens a fresh one.
Errs(paused) == Closes(paused, FALSE) /\ Forgets /\ UNCHANGED <<calls, plugs>>

SettleGone == call.pc = "settle" /\ ~Alive /\ Errs(session.paused)

(***************************************************************************)
(* What each call sends.                                                   *)
(***************************************************************************)
CurrentMode == Ports[session.port].mode
Via == Ports[session.port].via
Modes == Models[session.model].modes

\* read_blob, read_all_banks, write_macro_stream and write_patch.
OneBank(mode) == <<Select(mode)>> \o Each("upload")
AllBanks ==
  FlattenSeq([i \in DOMAIN Modes |-> OneBank(Modes[i])]) \o <<Select(CurrentMode)>>
MacroPage == <<Simple("erase")>> \o Each("writemacro")
Twice(packet) == <<packet, packet>>

Packets ==
  CASE call.op = "model" -> <<>>
    [] call.op = "read" -> AllBanks
    [] call.op = "detect" -> OneBank(CurrentMode)
    [] call.op = "streams" -> Each("readmacro")
    [] call.op = "select" -> <<Select(call.mode)>>
    [] call.op = "write" -> Each("write")
    [] call.op = "macro" -> MacroPage
    [] call.op = "patch" -> Twice(Packet("write", 1))
    [] OTHER -> <<Simple(call.op)>>

Starting == call.pc = "start" /\ UNCHANGED <<calls, plugs>>
Sending(packets) == call' = [call EXCEPT !.pc = "send", !.todo = packets, !.opening = FALSE]
Caches == cache' = IF call.opening /\ call.op \in ReadOps THEN session.model ELSE cache

\* hidraw_write::open: no write session in a mode that takes no writes.
RefusesInPlace ==
  /\ Starting /\ call.opening /\ Via # Nothing
  /\ call.op \in WriteOps \/ (call.op = "begin" /\ call.to # Nothing)
  /\ Closes(session.paused, FALSE) /\ UNCHANGED cache

Starts ==
  /\ Starting /\ call.op \in ReadOps \cup WriteOps /\ Packets # <<>>
  /\ call.op \in WriteOps /\ call.opening => Via = Nothing
  /\ Sending(Packets) /\ Caches /\ UNCHANGED <<pad, session, job>>

ModelIsKnown ==
  /\ Starting /\ call.op = "model"
  /\ Caches /\ Closes(session.paused, TRUE)

\* begin_write: the session is held, on the pad as it is or flipped.
Holds ==
  /\ Starting /\ call.op = "begin" /\ Via = Nothing
  /\ job' = IF call.to = Nothing THEN "in place" ELSE call.mode
  /\ session' = [session EXCEPT !.held = TRUE]
  /\ call' = [call EXCEPT !.pc = "idle", !.ok = TRUE]
  /\ UNCHANGED <<pad, cache>>

Flips ==
  /\ Starting /\ call.op = "begin" /\ Via # Nothing /\ call.to = Nothing
  /\ Via \in Models[session.model].flips
  /\ call' = [call EXCEPT !.pc = "send", !.todo = <<Simple("flip")>>, !.opening = FALSE,
                          !.to = Via, !.mode = CurrentMode]
  /\ UNCHANGED <<pad, session, cache, job>>

\* end_write(None) drops the held session.
EndsInPlace ==
  /\ call.pc = "end" /\ job = "in place"
  /\ Closes(session # Nothing /\ session.paused, TRUE)
  /\ UNCHANGED <<cache, calls, plugs>>

\* end_write(Some): through the held session, or a fresh one.
EndsFlipped ==
  /\ call.pc = "end" /\ job # "in place"
  /\ call' = [call EXCEPT !.pc = IF session = Nothing THEN "open" ELSE "start", !.to = job]
  /\ UNCHANGED <<pad, session, cache, job, calls, plugs>>

Returning ==
  /\ Starting /\ call.op = "end"
  /\ Models[session.model].flips # {}
  /\ Sending(<<Simple("close")>>) /\ UNCHANGED <<pad, session, cache, job>>

\* A model with no command for it: the session is dropped.
CannotFlip ==
  /\ Starting
  /\ \/ call.op = "begin" /\ Via # Nothing /\ call.to = Nothing
        /\ Via \notin Models[session.model].flips
     \/ call.op = "end" /\ Models[session.model].flips = {}
  /\ Closes(session.paused, FALSE) /\ UNCHANGED cache

(***************************************************************************)
(* One exchange.                                                           *)
(***************************************************************************)
Waited == Head(call.todo)
Lasts == {"flip", "close"}

\* The pad takes the packet.  Its answer is in the queue now, owed, or lost with
\* the packet; a wrapped pad that misses the first one is left paused on purpose.
Missed(p, packet) ==
  IF First /\ Ports[session.port].framing = "wrapped" /\ p.input = "paused"
  THEN [p EXCEPT !.input = "left", !.heard = @ \cup {packet.cmd}]
  ELSE [p EXCEPT !.heard = @ \cup {packet.cmd}]

Handles(packet) ==
  call.handled \cup (IF packet.cmd \in {"write", "writemacro"} THEN {packet.part} ELSE {})

Asked(packet) == IF packet.cmd = "select" THEN packet.part ELSE call.bank

Send ==
  /\ call.pc = "send" /\ Alive /\ Waited.cmd \notin Lasts
  /\ \/ /\ Kind.speaks
        /\ \E garbled \in IF Waited.cmd \in Offsets THEN BOOLEAN ELSE {FALSE} :
             session' = [session EXCEPT !.queue =
               Append(@, IF garbled THEN [Answer(Waited) EXCEPT !.part = 0] ELSE Answer(Waited))]
        /\ pad' = Hears(pad, Waited)
        /\ call' = [call EXCEPT !.pc = "wait", !.handled = Handles(Waited),
                                !.bank = Asked(Waited)]
     \/ /\ Kind.speaks /\ pad.owed = <<>>
        /\ pad' = [Missed(Hears(pad, Waited), Waited) EXCEPT !.owed = <<Answer(Waited)>>]
        /\ call' = [call EXCEPT !.pc = "wait", !.handled = Handles(Waited),
                                !.bank = Asked(Waited)]
        /\ UNCHANGED session
     \/ /\ pad' = Missed(pad, Waited)
        /\ call' = [call EXCEPT !.pc = "wait", !.bank = Asked(Waited)]
        /\ UNCHANGED session
  /\ UNCHANGED <<cache, job, calls, plugs>>

SendGone ==
  /\ call.pc = "send" /\ ~Alive /\ Waited.cmd \notin Lasts
  /\ Errs(PausedAfterSilence)

\* send_last: the session ends without the resume, and a reply, a silence and a
\* disconnect are all the same.  A pad may ignore the command.
IdOf(mode) == CHOOSE id \in Models[session.model].ports : Ports[id].mode = mode

SendLast ==
  /\ call.pc = "send" /\ Waited.cmd \in Lasts
  /\ session' = Nothing
  /\ call' = [call EXCEPT !.pc = "back", !.todo = <<>>]
  /\ \/ /\ Alive /\ Kind.speaks /\ plugs < MaxPlugs
        /\ pad' = Enumerated(pad.kind, pad.slide,
                     IF Waited.cmd = "flip" THEN IdOf(call.to) ELSE Kind.ids[pad.slide],
                     plugs + 1)
        /\ plugs' = plugs + 1
     \/ /\ Alive
        /\ pad' = [pad EXCEPT !.input = IF @ = "paused" THEN "left" ELSE @,
                              !.heard = @ \cup {Waited.cmd}]
        /\ UNCHANGED plugs
     \/ ~Alive /\ UNCHANGED <<pad, plugs>>
  /\ UNCHANGED <<cache, job, calls>>

\* wait_for_mode
WaitSees ==
  /\ call.pc = "back" /\ Found # Nothing /\ Ports[Found].mode = call.to
  /\ IF call.op = "begin"
     THEN call' = [call EXCEPT !.pc = "open", !.opening = TRUE] /\ UNCHANGED job
     ELSE Returns(TRUE)
  /\ UNCHANGED <<pad, session, cache, calls, plugs>>

WaitEnds ==
  call.pc = "back" /\ Returns(FALSE) /\ UNCHANGED <<pad, session, cache, calls, plugs>>

\* Framing::reply skips every other report.
Skip ==
  /\ call.pc = "wait" /\ session.queue # <<>>
  /\ Echo(Head(session.queue).cmd) # Echo(Waited.cmd)
  /\ session' = [session EXCEPT !.queue = Tail(@)]
  /\ UNCHANGED <<pad, cache, job, call, calls, plugs>>

Taken ==
  call.pc = "wait" /\ session.queue # <<>>
    /\ Echo(Head(session.queue).cmd) = Echo(Waited.cmd)

\* What a decoder checks of a chunk: its offset, and by its size whether it is one of
\* a bank or of a macro.
SameChunk(reply, packet) == reply.cmd = packet.cmd /\ reply.part = packet.part

\* What the decoder of the command checks, and the model id against the port.
Valid(reply, packet) ==
  /\ packet.cmd \in Offsets => SameChunk(reply, packet)
  /\ packet.cmd = "start" =>
       reply.of \in DOMAIN Models /\ session.port \in Models[reply.of].ports

Rejects ==
  Taken /\ ~Valid(Head(session.queue), Waited) /\ Errs(session.paused)

\* The packets left once this one is answered: the firmware request of a model that
\* START_CONFIG named.
Left(reply) ==
  IF Waited.cmd = "start" /\ Models[reply.of].asks THEN <<Simple("firmware")>> ELSE Tail(call.todo)

Accepts ==
  LET reply == Head(session.queue)
      read == call.read \cup
        (IF Waited.cmd = "upload" THEN {<<call.bank, reply.of>>} ELSE {})
      more == Left(reply) # <<>>
  IN
  /\ Taken /\ Valid(reply, Waited)
  /\ more \/ call.opening \/ session.held
  /\ session' = [session EXCEPT !.queue = Tail(@),
                   !.model = IF Waited.cmd = "start" THEN reply.of ELSE @]
  /\ call' = [call EXCEPT !.todo = Left(reply), !.read = read,
                          !.pc = IF more THEN "send" ELSE IF call.opening THEN "start" ELSE "idle",
                          !.ok = ~more /\ ~call.opening]
  /\ UNCHANGED <<pad, cache, job, calls, plugs>>

\* The last answer of a call on a session of its own, which is dropped.
AcceptsLast ==
  LET reply == Head(session.queue) IN
  /\ Taken /\ Valid(reply, Waited)
  /\ Left(reply) = <<>> /\ ~call.opening /\ ~session.held
  /\ session' = Nothing /\ pad' = Resumed(session.paused)
  /\ call' = [call EXCEPT !.pc = "idle", !.ok = TRUE, !.todo = <<>>,
       !.read = @ \cup (IF Waited.cmd = "upload" THEN {<<call.bank, reply.of>>} ELSE {})]
  /\ UNCHANGED <<cache, job, calls, plugs>>

\* The reply budget runs out, or the pad is gone.
Expire == call.pc = "wait" /\ session.queue = <<>> /\ Errs(PausedAfterSilence)

(***************************************************************************)
(* The cable.                                                              *)
(***************************************************************************)
LateArrives ==
  /\ pad # Nothing /\ pad.owed # <<>>
  /\ pad' = [pad EXCEPT !.owed = <<>>]
  /\ session' = IF Alive THEN [session EXCEPT !.queue = @ \o pad.owed] ELSE session
  /\ UNCHANGED <<cache, job, call, calls, plugs>>

\* A pad whose input was not stopped sends its reports between the answers.
InputReport ==
  /\ call.pc = "wait" /\ Alive /\ pad.input = "runs" /\ session.queue = <<>>
  /\ session' = [session EXCEPT !.queue = <<[cmd |-> "input", part |-> Nothing, of |-> Nothing]>>]
  /\ UNCHANGED <<pad, cache, job, call, calls, plugs>>

Unplug ==
  /\ pad # Nothing /\ plugs < MaxPlugs
  /\ pad' = Nothing
  /\ UNCHANGED <<session, cache, job, call, calls, plugs>>

Plug(kind, slide) ==
  /\ pad = Nothing /\ plugs < MaxPlugs
  /\ pad' = Enumerated(kind, slide, Kinds[kind].ids[slide], plugs + 1)
  /\ plugs' = plugs + 1
  /\ UNCHANGED <<session, cache, job, call, calls>>

NoCall == [op |-> "none", mode |-> Nothing, opening |-> FALSE, ok |-> FALSE, pc |-> "idle",
           todo |-> <<>>, to |-> Nothing, bank |-> Nothing, handled |-> {}, read |-> {}]

SessionInit ==
  /\ \E kind \in DOMAIN Kinds : \E slide \in DOMAIN Kinds[kind].ids :
       pad = Enumerated(kind, slide, Kinds[kind].ids[slide], 1)
  /\ plugs = 1 /\ calls = 0 /\ call = NoCall
  /\ session = Nothing /\ cache = Nothing /\ job = Nothing

Exchange ==
  Send \/ SendGone \/ SendLast \/ Skip \/ Rejects \/ Accepts \/ AcceptsLast \/ Expire

SessionNext ==
  \/ \E op \in Ops, mode \in AllModes : Call(op, mode)
  \/ NoDevice \/ RefusesUnvalidated \/ OpenDenied \/ Open \/ Settle \/ SettleGone
  \/ RefusesInPlace \/ Starts \/ ModelIsKnown \/ Holds \/ Flips \/ EndsInPlace
  \/ EndsFlipped \/ Returning \/ CannotFlip \/ WaitSees \/ WaitEnds
  \/ Exchange
  \/ LateArrives \/ InputReport \/ Unplug
  \/ \E kind \in DOMAIN Kinds : \E slide \in DOMAIN Kinds[kind].ids : Plug(kind, slide)

SessionSpec == SessionInit /\ [][SessionNext]_sessionVars

(***************************************************************************)
(* Properties.                                                             *)
(***************************************************************************)
\* No pad is left with its input off: once no call runs and no job holds a session,
\* the pad's input runs, unless it missed the first packet on a wrapped id or ignored
\* a flip, and a job that is over holds no session (session.rs, Drop; end_write).
InputIsBack ==
  call.pc = "idle" =>
    /\ session = Nothing => pad = Nothing \/ pad.input # "paused"
    /\ job = Nothing => session = Nothing

\* A call's success is the pad's: a write of a bank or a macro that succeeds has every
\* chunk on the pad, and a read that succeeds took each chunk from the bank it asked
\* for, although an answer is told by its command alone and may come late
\* (framing.rs, reply; session.rs, pause).
AnswersAreItsOwn ==
  call.pc = "idle" /\ call.ok =>
    /\ call.op \in {"write", "macro"} => call.handled = Parts
    /\ \A asked \in call.read : asked[1] = asked[2]

\* A pad that is none of ours is left alone: one that stays silent on a wrapped id
\* hears no more than the pause and START_CONFIG, one that answers with another model
\* the resume besides, and one nobody validated nothing at all on its config port
\* (session.rs, open).
StrangersAreLeftAlone ==
  pad # Nothing =>
    /\ ~Kind.speaks => pad.heard \subseteq {"pause", "start"}
    /\ Kind.speaks /\ Kind.model \notin DOMAIN Models =>
         pad.heard \subseteq {"pause", "start", "resume"}
    /\ Kind.speaks /\ Kind.model \in DOMAIN Models /\ ~Models[Kind.model].validated
         /\ pad.id \in DOMAIN Ports => pad.heard = {}
=============================================================================
