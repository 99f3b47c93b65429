------------------------------ MODULE DeskProofs ------------------------------
(***************************************************************************)
(* What the worker promises to any window, for every number of ports, of   *)
(* polls that must agree, and of pads that come and go; then what the      *)
(* worker and its window promise together, for every number of ports, of   *)
(* pads that come and go, and of things the user asks for.                 *)
(***************************************************************************)
EXTENDS Desk, Keepalive, FiniteSetTheorems, SequenceTheorems, TLAPS

USE WorkerAssumption

-------------------------------------------------------------------------------
(***************************************************************************)
(* The orders in which the events of a poll go out.                        *)
(***************************************************************************)
\* An order of a finite set is a sequence in which each of its elements occurs.
LEMMA PermsHoldAll ==
  ASSUME NEW S, IsFiniteSet(S), NEW s \in Perms(S)
  PROVE  s \in Seq(S) /\ \A x \in S : \E i \in 1..Len(s) : s[i] = x
<1> DEFINE n == Cardinality(S)
<1>1. n \in Nat
  BY FS_CardinalityType
<1>2. s \in [1..n -> S] /\ \A i, j \in 1..n : s[i] = s[j] => i = j
  BY DEF Perms
<1>3. s \in Seq(S) /\ Len(s) = n
  BY <1>1, <1>2
<1>4. Cardinality(1..n) = n
  BY <1>1, FS_Interval
<1>5. s \in Injection(1..n, S)
  BY <1>2 DEF Injection, IsInjective
<1>6. s \in Surjection(1..n, S)
  BY <1>4, <1>5, FS_Injection
<1> QED
  BY <1>3, <1>6 DEF Surjection

\* The events that a poll sends on one port each are finitely many.
LEMMA PollEventsFinite ==
  ASSUME LocksOK
  PROVE  IsFiniteSet(Unplugged) /\ IsFiniteSet(RefusedNews) /\ IsFiniteSet(Presences)
<1>1. IsFiniteSet(Unplugged)
  <2> DEFINE f == [p \in Left |-> [type |-> "unplugged", port |-> p]]
  <2>1. IsFiniteSet(Left)
    BY FS_Subset DEF Left, LocksOK
  <2>2. f \in Surjection(Left, Unplugged)
    BY DEF Surjection, Unplugged
  <2> QED
    BY <2>1, <2>2, FS_Surjection
<1>2. IsFiniteSet(RefusedNews)
  <2> DEFINE f == [p \in NewlyRefused |-> [type |-> "refused", port |-> p]]
  <2>1. IsFiniteSet(NewlyRefused)
    BY FS_Subset DEF NewlyRefused
  <2>2. f \in Surjection(NewlyRefused, RefusedNews)
    BY DEF Surjection, RefusedNews
  <2> QED
    BY <2>1, <2>2, FS_Surjection
<1>3. IsFiniteSet(Presences)
  <2> DEFINE P == {q \in Port : Settles(q)}
             f == [p \in P |-> [type |-> "presence", port |-> p, mode |-> ModeOf(Found(p))]]
  <2>1. IsFiniteSet(P)
    BY FS_Subset
  <2>2. f \in Surjection(P, Presences)
    BY DEF Surjection, Presences
  <2> QED
    BY <2>1, <2>2, FS_Surjection
<1> QED
  BY <1>1, <1>2, <1>3

\* What a scan finds on a port is nothing or a sighting.
LEMMA SightingsType ==
  ASSUME PadsOK, NEW p \in Port
  PROVE  /\ Found(p) \in Sighting \cup {Nothing}
         /\ Scanned(p) \in Sighting \cup {Nothing}
         /\ ModeOf(Found(p)) \in Mode \cup {Nothing}
         /\ ModeOf(Scanned(p)) \in Mode \cup {Nothing}
<1>1. bus[p] # Nothing => Seen(p) \in Sighting
  BY DEF PadsOK, Pad, Seen, Sighting
<1>2. Found(p) \in Sighting \cup {Nothing} /\ Scanned(p) \in Sighting \cup {Nothing}
  BY <1>1 DEF Found, Scanned, Is
<1>3. \A x \in Sighting \cup {Nothing} : ModeOf(x) \in Mode \cup {Nothing}
  BY DEF ModeOf, Sighting
<1> QED
  BY <1>2, <1>3

\* Each event that a poll sends is one.
LEMMA PollEventsType ==
  ASSUME PadsOK, LocksOK
  PROVE  /\ Unplugged \subseteq Event /\ RefusedNews \subseteq Event
         /\ Presences \subseteq Event /\ LockedNews \in Seq(Event)
<1>1. Unplugged \subseteq Event
  BY DEF Unplugged, Event, Left, LocksOK
<1>2. RefusedNews \subseteq Event
  BY DEF RefusedNews, Event, NewlyRefused
<1>3. Presences \subseteq Event
  BY SightingsType DEF Presences, Event
<1>4. [type |-> "locked", list |-> LockedPorts] \in Event
  BY DEF Event, LockedPorts
<1>5. LockedNews \in Seq(Event)
  BY <1>4 DEF LockedNews
<1> QED
  BY <1>1, <1>2, <1>3, <1>5

-------------------------------------------------------------------------------
(***************************************************************************)
(* Types.                                                                  *)
(***************************************************************************)
LEMMA UnchangedTyped ==
  /\ PadsOK /\ UNCHANGED pads => PadsOK'
  /\ DebounceOK /\ UNCHANGED debounce => DebounceOK'
  /\ LocksOK /\ UNCHANGED locks => LocksOK'
<1>1. PadsOK /\ UNCHANGED pads => PadsOK'
  BY DEF PadsOK, pads
<1>2. DebounceOK /\ UNCHANGED debounce => DebounceOK'
  BY DEF DebounceOK, debounce
<1>3. LocksOK /\ UNCHANGED locks => LocksOK'
  BY DEF LocksOK, locks
<1> QED
  BY <1>1, <1>2, <1>3

\* An enumeration puts a pad on the port.
LEMMA EnumerateTyped ==
  ASSUME PadsOK, NEW p \in Port, NEW k \in Kind, NEW m \in Mode, Enumerate(p, k, m)
  PROVE  bus' \in [Port -> Pad \cup {Nothing}] /\ devnum' \in Nat
<1>1. devnum' \in Nat /\ devnum + 1 \in Nat
  BY DEF PadsOK, Enumerate
<1>2. [kind |-> k, mode |-> m, num |-> devnum + 1] \in Pad
  BY <1>1 DEF Pad
<1> QED
  BY <1>1, <1>2 DEF PadsOK, Enumerate

\* And one that leaves empties it.
LEMMA LeaveTyped ==
  ASSUME PadsOK, NEW p \in Port, Leave(p)
  PROVE  bus' \in [Port -> Pad \cup {Nothing}] /\ devnum' \in Nat
BY DEF PadsOK, Leave

LEMMA MoveTyped ==
  ASSUME TypeOK, NEW p \in Port, Move(p)
  PROVE  TypeOK'
<1>1. PadsOK'
  <2>1. CASE Unplug(p)
    BY <2>1, LeaveTyped DEF TypeOK, PadsOK, Unplug
  <2>2. CASE \E k \in Kind, m \in Mode : Plug(p, k, m)
    <3>1. PICK k \in Kind, m \in Mode : Plug(p, k, m)
      BY <2>2
    <3>2. Enumerate(p, k, m) /\ unseen' = unseen \cup {p}
      BY <3>1 DEF Plug
    <3> QED
      BY <3>2, EnumerateTyped DEF TypeOK, PadsOK
  <2>3. CASE \E m \in Mode : Slide(p, m)
    <3>1. PICK m \in Mode : Enumerate(p, "config", m) /\ unseen' = unseen
      BY <2>3 DEF Slide
    <3>2. "config" \in Kind
      BY DEF Kind
    <3> QED
      BY <3>1, <3>2, EnumerateTyped DEF TypeOK, PadsOK
  <2> QED
    BY <2>1, <2>2, <2>3 DEF Move
<1>2. DebounceOK' /\ LocksOK'
  BY UnchangedTyped DEF TypeOK, Move
<1>3. broken' \in BOOLEAN
  BY DEF TypeOK, ChannelsOK, Move
<1>4. ChannelsOK'
  BY <1>3 DEF TypeOK, ChannelsOK, Move
<1> QED
  BY <1>1, <1>2, <1>4 DEF TypeOK

\* The count of a port stays below SettlePolls: the poll that reaches it tells.
LEMMA ObserveTyped ==
  ASSUME PadsOK, DebounceOK, observe
  PROVE  DebounceOK'
<1>1. \A p \in Port : Found(p) \in Sighting \cup {Nothing}
  BY SightingsType
<1>2. reported' \in [Port -> Sighting \cup {Nothing}]
  BY <1>1 DEF DebounceOK, observe
<1>3. candidate' \in [Port -> Sighting \cup {Nothing}]
  BY <1>1 DEF DebounceOK, observe
<1>4. \A p \in Port : Count(p) \in Nat
  BY DEF Count, DebounceOK
<1>5. \A p \in Port : Found(p) # reported[p] /\ ~Settles(p) => Count(p) \in 0..SettlePolls - 1
  BY <1>4 DEF Settles
<1>6. agreeing' \in [Port -> 0..SettlePolls - 1]
  BY <1>5 DEF observe
<1>7. \A p \in Port : [k \in 1..SettlePolls |-> IF k = SettlePolls THEN Found(p) ELSE log[p][k + 1]]
                        \in [1..SettlePolls -> Sighting \cup {Nothing}]
  BY <1>1 DEF DebounceOK
<1>8. log' \in [Port -> [1..SettlePolls -> Sighting \cup {Nothing}]]
  BY <1>7 DEF observe
<1>9. untold' \subseteq Port
  BY DEF DebounceOK, observe
<1> QED
  BY <1>2, <1>3, <1>6, <1>8, <1>9 DEF DebounceOK

LEMMA PollTyped ==
  ASSUME TypeOK, Poll
  PROVE  TypeOK'
<1> USE DEF TypeOK
<1>1. PadsOK'
  BY DEF PadsOK, Poll
<1>2. DebounceOK'
  BY ObserveTyped DEF Poll
<1>3. LocksOK'
  BY DEF LocksOK, Poll, LockedPorts, StillThere, NewlyRefused
<1>4. evts' \in Seq(Event)
  <2>1. PICK u \in Perms(Unplugged), r \in Perms(RefusedNews), s \in Perms(Presences) :
          evts' = evts \o u \o LockedNews \o r \o s
    BY DEF Poll
  <2>2. u \in Seq(Unplugged) /\ r \in Seq(RefusedNews) /\ s \in Seq(Presences)
    BY PermsHoldAll, PollEventsFinite
  <2>3. u \in Seq(Event) /\ r \in Seq(Event) /\ s \in Seq(Event) /\ LockedNews \in Seq(Event)
    BY <2>2, PollEventsType
  <2> QED
    BY <2>1, <2>3 DEF ChannelsOK
<1>5. ChannelsOK'
  BY <1>4 DEF ChannelsOK, Poll
<1> QED
  BY <1>1, <1>2, <1>3, <1>5

LEMMA TakeTyped ==
  ASSUME TypeOK, Take
  PROVE  TypeOK'
<1>1. PadsOK' /\ DebounceOK' /\ LocksOK'
  BY UnchangedTyped DEF TypeOK, Take
<1>2. Head(cmds) \in Command /\ Tail(cmds) \in Seq(Command)
  BY HeadTailProperties DEF TypeOK, ChannelsOK, Take
<1>3. ChannelsOK'
  BY <1>2 DEF TypeOK, ChannelsOK, Take
<1> QED
  BY <1>1, <1>3 DEF TypeOK

\* A command that ends tells one event.
LEMMA EmitTyped ==
  ASSUME ChannelsOK, NEW e \in Event, Emit(e), cmd' = Nothing, UNCHANGED <<broken, cmds>>
  PROVE  ChannelsOK'
BY DEF ChannelsOK, Emit

LEMMA ForgetTyped ==
  ASSUME DebounceOK, NEW p \in Port, forget(p)
  PROVE  DebounceOK'
<1>1. 0 \in 0..SettlePolls - 1
  OBVIOUS
<1> QED
  BY <1>1 DEF DebounceOK, forget

LEMMA MarkSeenTyped ==
  ASSUME DebounceOK, PadsOK', NEW p \in Port, NEW t \in BOOLEAN, mark_seen(p, t)
  PROVE  DebounceOK' /\ ModeOf(Scanned(p))' \in Mode \cup {Nothing}
<1>1. bus'[p] # Nothing => Seen(p)' \in Sighting
  BY DEF PadsOK, Pad, Seen, Sighting
<1>2. Scanned(p)' \in Sighting \cup {Nothing}
  BY <1>1 DEF Scanned, Is
<1>3. \A x \in Sighting \cup {Nothing} : ModeOf(x) \in Mode \cup {Nothing}
  BY DEF ModeOf, Sighting
<1>4. ModeOf(Scanned(p))' = ModeOf(Scanned(p)')
  BY DEF ModeOf
<1> QED
  BY <1>2, <1>3, <1>4 DEF DebounceOK, mark_seen

LEMMA ReadEndsTyped ==
  ASSUME TypeOK, NEW p \in Port, ReadEnds(p)
  PROVE  TypeOK'
<1>1. PadsOK' /\ LocksOK'
  BY UnchangedTyped DEF TypeOK, ReadEnds
<1>2. cmd' = Nothing /\ UNCHANGED <<broken, cmds>>
  BY DEF ReadEnds, Ends
<1>3. DebounceOK' /\ ChannelsOK'
  <2>1. CASE Disconnected(p)
    <3>1. [type |-> "presence", port |-> p, mode |-> Nothing] \in Event
      BY DEF Event
    <3> QED
      BY <1>2, <2>1, <3>1, EmitTyped, ForgetTyped DEF TypeOK, Disconnected
  <2>2. CASE ~Disconnected(p)
    <3>1. PICK r \in Answer(p) :
            /\ Emit([type |-> "read", port |-> p, result |-> r, num |-> Number(p)])
            /\ UNCHANGED debounce
      BY <2>2 DEF ReadEnds
    <3>2. r \in ReadResult
      BY DEF Answer, ReadResult
    <3>3. Number(p) \in Nat
      BY DEF Number, TypeOK, PadsOK, Pad
    <3>4. [type |-> "read", port |-> p, result |-> r, num |-> Number(p)] \in Event
      BY <3>2, <3>3 DEF Event
    <3> QED
      BY <1>2, <3>1, <3>4, EmitTyped, UnchangedTyped DEF TypeOK
  <2> QED
    BY <2>1, <2>2
<1> QED
  BY <1>1, <1>3 DEF TypeOK

LEMMA StepsEndTyped ==
  ASSUME TypeOK, NEW p \in Port, StepsEnd(p)
  PROVE  TypeOK'
<1>1. PadsOK' /\ LocksOK'
  BY UnchangedTyped DEF TypeOK, StepsEnd
<1>2. cmd' = Nothing /\ UNCHANGED <<broken, cmds>>
  BY DEF StepsEnd, Ends
<1>3. DebounceOK' /\ ChannelsOK'
  <2>1. CASE Disconnected(p)
    <3>1. [type |-> "presence", port |-> p, mode |-> Nothing] \in Event
      BY DEF Event
    <3> QED
      BY <1>2, <2>1, <3>1, EmitTyped, ForgetTyped DEF TypeOK, Disconnected
  <2>2. CASE ~Disconnected(p)
    <3>1. PICK ok \in BOOLEAN :
            Emit([type |-> "steps", port |-> p, ok |-> ok]) /\ UNCHANGED debounce
      BY <2>2 DEF StepsEnd
    <3>2. [type |-> "steps", port |-> p, ok |-> ok] \in Event
      BY DEF Event
    <3> QED
      BY <1>2, <3>1, <3>2, EmitTyped, UnchangedTyped DEF TypeOK
  <2> QED
    BY <2>1, <2>2
<1> QED
  BY <1>1, <1>3 DEF TypeOK

LEMMA WriteEndsTyped ==
  ASSUME TypeOK, NEW p \in Port, WriteEnds(p)
  PROVE  TypeOK'
<1>1. bus' \in [Port -> Pad \cup {Nothing}] /\ devnum' \in Nat
  <2>1. CASE UNCHANGED <<bus, devnum>>
    BY <2>1 DEF TypeOK, PadsOK
  <2>2. CASE Leave(p)
    BY <2>2, LeaveTyped DEF TypeOK
  <2>3. CASE /\ Is(p, {"config"}) /\ WriteVia[bus[p].mode] # Nothing
             /\ \E m \in {bus[p].mode, WriteVia[bus[p].mode]} : Enumerate(p, "config", m)
    <3>1. PICK m \in {bus[p].mode, WriteVia[bus[p].mode]} : Enumerate(p, "config", m)
      BY <2>3
    <3>2. bus[p].mode \in Mode
      BY <2>3 DEF TypeOK, PadsOK, Is, Pad
    <3>3. m \in Mode
      BY <2>3, <3>2, WriteAssumption
    <3>4. "config" \in Kind
      BY DEF Kind
    <3> QED
      BY <3>1, <3>3, <3>4, EnumerateTyped DEF TypeOK
  <2> QED
    BY <2>1, <2>2, <2>3 DEF WriteEnds, Leaves
<1>2. PadsOK'
  BY <1>1 DEF TypeOK, PadsOK, WriteEnds
<1>3. DebounceOK'
  BY <1>2, MarkSeenTyped DEF TypeOK, WriteEnds
<1>4. LocksOK'
  BY UnchangedTyped DEF TypeOK, WriteEnds
<1>5. [type |-> "written", port |-> p] \in Event
  BY DEF Event
<1>6. ChannelsOK'
  BY <1>5, EmitTyped DEF TypeOK, WriteEnds, Ends
<1> QED
  BY <1>2, <1>3, <1>4, <1>6 DEF TypeOK

\* What an unlock does to the bus.
LEMMA UnlocksCases ==
  ASSUME NEW p \in Port, NEW r \in UnlockResult, Unlocks(p, r)
  PROVE  \/ UNCHANGED <<bus, devnum>> /\ r \in {"failed", "denied"}
         \/ \E k \in Kind : Enumerate(p, k, UnlockMode)
         \/ Leave(p)
<1>1. "config" \in Kind /\ Kinds \cap Unsupportable \subseteq Kind
  BY DEF Kind, Unsupportable
<1> QED
  BY <1>1 DEF Unlocks

LEMMA UnlockEndsTyped ==
  ASSUME TypeOK, NEW p \in Port, UnlockEnds(p)
  PROVE  TypeOK'
<1>1. PICK r \in UnlockResult :
        /\ Unlocks(p, r) /\ mark_seen(p, r = "port") /\ unsupported' = Unsupports(p, r)
        /\ Emit([type |-> "unlock", port |-> p, result |-> r, mode |-> ModeOf(Scanned(p))'])
  BY DEF UnlockEnds
<1>2. bus' \in [Port -> Pad \cup {Nothing}] /\ devnum' \in Nat
  <2>1. CASE UNCHANGED <<bus, devnum>>
    BY <2>1 DEF TypeOK, PadsOK
  <2>2. CASE \E k \in Kind : Enumerate(p, k, UnlockMode)
    BY <2>2, EnumerateTyped DEF TypeOK
  <2>3. CASE Leave(p)
    BY <2>3, LeaveTyped DEF TypeOK
  <2> QED
    BY <1>1, <2>1, <2>2, <2>3, UnlocksCases
<1>3. PadsOK'
  BY <1>2 DEF TypeOK, PadsOK, UnlockEnds
<1>4. DebounceOK' /\ ModeOf(Scanned(p))' \in Mode \cup {Nothing}
  BY <1>1, <1>3, MarkSeenTyped DEF TypeOK
<1>5. LocksOK'
  BY <1>1 DEF TypeOK, LocksOK, UnlockEnds, Unsupports
<1>6. [type |-> "unlock", port |-> p, result |-> r, mode |-> ModeOf(Scanned(p))'] \in Event
  BY <1>4 DEF Event
<1>7. ChannelsOK'
  BY <1>1, <1>6, EmitTyped DEF TypeOK, UnlockEnds, Ends
<1> QED
  BY <1>3, <1>4, <1>5, <1>7 DEF TypeOK

LEMMA RelockEndsTyped ==
  ASSUME TypeOK, NEW p \in Port, RelockEnds(p)
  PROVE  TypeOK'
<1>1. PICK ok \in BOOLEAN : Emit([type |-> "relock", port |-> p, ok |-> ok])
  BY DEF RelockEnds
<1>2. PadsOK' /\ DebounceOK'
  <2>1. CASE Enumerate(p, "locked", UnlockMode) /\ mark_seen(p, TRUE) /\ unseen' = unseen \cup {p}
    <3>1. "locked" \in Kind
      BY DEF Kind
    <3>2. PadsOK'
      BY <2>1, <3>1, EnumerateTyped DEF TypeOK, PadsOK
    <3> QED
      BY <2>1, <3>2, MarkSeenTyped DEF TypeOK
  <2>2. CASE (UNCHANGED <<bus, devnum>> \/ Leave(p)) /\ UNCHANGED <<unseen, debounce>>
    <3>1. bus' \in [Port -> Pad \cup {Nothing}] /\ devnum' \in Nat
      BY <2>2, LeaveTyped DEF TypeOK, PadsOK
    <3> QED
      BY <2>2, <3>1, UnchangedTyped DEF TypeOK, PadsOK
  <2> QED
    BY <2>1, <2>2 DEF RelockEnds
<1>3. LocksOK'
  BY UnchangedTyped DEF TypeOK, RelockEnds
<1>4. [type |-> "relock", port |-> p, ok |-> ok] \in Event
  BY DEF Event
<1>5. ChannelsOK'
  BY <1>1, <1>4, EmitTyped DEF TypeOK, RelockEnds, Ends
<1> QED
  BY <1>2, <1>3, <1>5 DEF TypeOK

LEMMA InstallEndsTyped ==
  ASSUME TypeOK, InstallEnds
  PROVE  TypeOK'
<1>1. PadsOK' /\ DebounceOK' /\ LocksOK'
  BY UnchangedTyped DEF TypeOK, InstallEnds
<1>2. PICK ok \in BOOLEAN : Emit([type |-> "installed", ok |-> ok])
  BY DEF InstallEnds
<1>3. [type |-> "installed", ok |-> ok] \in Event
  BY DEF Event
<1>4. ChannelsOK'
  BY <1>2, <1>3, EmitTyped DEF TypeOK, InstallEnds
<1> QED
  BY <1>1, <1>4 DEF TypeOK

LEMMA ClientTyped ==
  ASSUME TypeOK, Client
  PROVE  TypeOK'
<1>1. PadsOK' /\ DebounceOK' /\ LocksOK'
  BY UnchangedTyped DEF TypeOK, Client
<1>2. cmds' \in Seq(Command)
  <2>1. PICK n \in 0..MaxSend : \E s \in [1..n -> Command] : cmds' = cmds \o s
    BY DEF Client
  <2>2. PICK s \in [1..n -> Command] : cmds' = cmds \o s
    BY <2>1
  <2>3. s \in Seq(Command)
    BY <2>2
  <2> QED
    BY <2>2, <2>3 DEF TypeOK, ChannelsOK
<1>3. evts' \in Seq(Event)
  <2>1. evts \in Seq(Event) /\ (evts' = evts \/ (evts # <<>> /\ evts' = Tail(evts)))
    BY DEF TypeOK, ChannelsOK, Client
  <2> QED
    BY <2>1, HeadTailProperties
<1> QED
  BY <1>1, <1>2, <1>3 DEF TypeOK, ChannelsOK, Client

LEMMA WorkTyped ==
  ASSUME TypeOK, Work
  PROVE  TypeOK'
BY PollTyped, TakeTyped, ReadEndsTyped, StepsEndTyped, WriteEndsTyped, UnlockEndsTyped,
   RelockEndsTyped, InstallEndsTyped DEF Work, CommandEnds

LEMMA InitTyped == WInit => TypeOK
<1> SUFFICES ASSUME WInit PROVE TypeOK
  OBVIOUS
<1>1. PadsOK /\ LocksOK
  BY DEF WInit, PadsOK, LocksOK
<1>2. DebounceOK
  BY DEF WInit, DebounceOK
<1>3. cmds \in Seq(Command) /\ evts \in Seq(Event)
  BY EmptySeq DEF WInit
<1>4. ChannelsOK
  BY <1>3 DEF WInit, ChannelsOK
<1> QED
  BY <1>1, <1>2, <1>4 DEF TypeOK

LEMMA StepTyped == TypeOK /\ [WNext]_wvars => TypeOK'
<1> SUFFICES ASSUME TypeOK, [WNext]_wvars PROVE TypeOK'
  OBVIOUS
<1>1. CASE UNCHANGED wvars
  <2>1. PadsOK' /\ DebounceOK' /\ LocksOK'
    BY <1>1, UnchangedTyped DEF TypeOK, wvars
  <2>2. ChannelsOK'
    BY <1>1 DEF TypeOK, ChannelsOK, wvars
  <2> QED
    BY <2>1, <2>2 DEF TypeOK
<1> QED
  BY <1>1, MoveTyped, WorkTyped, ClientTyped DEF WNext

\* Every count, sighting, command and event stays within its type, whatever the window
\* sends and however fast pads come and go.
THEOREM TypeCorrect == WSpec => []TypeOK
BY InitTyped, StepTyped, PTL DEF WSpec

-------------------------------------------------------------------------------
(***************************************************************************)
(* The debounce.  agreeing counts the last polls that saw the candidate:   *)
(* that ties the three maps together, and every command that touches one   *)
(* of them has to keep it.                                                 *)
(***************************************************************************)
Agreed ==
  \A p \in Port : \A k \in SettlePolls - agreeing[p] + 1..SettlePolls : log[p][k] = candidate[p]

\* A poll adds to the count only what the candidate was, or starts it again.
LEMMA ObserveAgrees ==
  ASSUME TypeOK, Agreed, observe
  PROVE  Agreed'
<1> SUFFICES ASSUME NEW p \in Port, NEW k \in SettlePolls - agreeing'[p] + 1..SettlePolls
             PROVE  log'[p][k] = candidate'[p]
  BY DEF Agreed
<1>1. agreeing[p] \in 0..SettlePolls - 1 /\ Count(p) \in 1..SettlePolls
  BY DEF TypeOK, DebounceOK, Count
<1>2. agreeing'[p] = IF Found(p) = reported[p] \/ Settles(p) THEN 0 ELSE Count(p)
  BY DEF observe
<1>3. Found(p) # reported[p] /\ ~Settles(p) /\ agreeing'[p] = Count(p)
  BY <1>1, <1>2
<1>4. candidate'[p] = Found(p)
  BY <1>3 DEF observe
<1>5. k \in 1..SettlePolls
  BY <1>1, <1>3
<1>6. log'[p][k] = IF k = SettlePolls THEN Found(p) ELSE log[p][k + 1]
  BY <1>5 DEF observe
<1>7. CASE k = SettlePolls
  BY <1>4, <1>6, <1>7
<1>8. CASE k # SettlePolls
  <2>1. Found(p) = candidate[p] /\ Count(p) = agreeing[p] + 1
    BY <1>1, <1>3, <1>5, <1>8 DEF Count
  <2>2. k + 1 \in SettlePolls - agreeing[p] + 1..SettlePolls
    BY <1>1, <1>3, <1>5, <1>8, <2>1
  <2> QED
    BY <1>4, <1>6, <1>8, <2>1, <2>2 DEF Agreed
<1> QED
  BY <1>7, <1>8

\* forget starts the count of its port again, and mark_seen leaves it: what the bus shows
\* after a command is what counts as reported, not what the polls saw.
LEMMA ForgetAgrees ==
  ASSUME TypeOK, Agreed, NEW q \in Port, forget(q)
  PROVE  Agreed'
<1> SUFFICES ASSUME NEW p \in Port, NEW k \in SettlePolls - agreeing'[p] + 1..SettlePolls
             PROVE  log'[p][k] = candidate'[p]
  BY DEF Agreed
<1>1. agreeing'[p] \in {agreeing[p], 0} /\ UNCHANGED <<candidate, log>>
  BY DEF TypeOK, DebounceOK, forget
<1>2. agreeing'[p] = agreeing[p]
  BY <1>1
<1> QED
  BY <1>1, <1>2 DEF Agreed

LEMMA StepAgrees == TypeOK /\ Agreed /\ [WNext]_wvars => Agreed'
<1> SUFFICES ASSUME TypeOK, Agreed, [WNext]_wvars PROVE Agreed'
  OBVIOUS
<1>1. UNCHANGED <<candidate, agreeing, log>> => Agreed'
  BY DEF Agreed
<1>2. UNCHANGED debounce => Agreed'
  BY <1>1 DEF debounce
<1>3. CASE UNCHANGED wvars
  BY <1>2, <1>3 DEF wvars
<1>4. ASSUME NEW p \in Port, Move(p) PROVE Agreed'
  BY <1>2, <1>4 DEF Move
<1>5. CASE Poll
  BY <1>5, ObserveAgrees DEF Poll
<1>6. CASE Take \/ Client \/ InstallEnds
  BY <1>2, <1>6 DEF Take, Client, InstallEnds
<1>7. ASSUME NEW p \in Port, ReadEnds(p) \/ StepsEnd(p) PROVE Agreed'
  BY <1>2, <1>7, ForgetAgrees DEF ReadEnds, StepsEnd, Disconnected
<1>8. ASSUME NEW p \in Port, WriteEnds(p) \/ UnlockEnds(p) \/ RelockEnds(p) PROVE Agreed'
  BY <1>1, <1>2, <1>8 DEF WriteEnds, UnlockEnds, RelockEnds, mark_seen
<1> QED
  BY <1>3, <1>4, <1>5, <1>6, <1>7, <1>8 DEF WNext, Work, CommandEnds

\* A poll that tells of a port has seen the same there for SettlePolls polls.
LEMMA StepTellsOnlyAgreed ==
  ASSUME TypeOK, Agreed, Poll, NEW p \in Port, reported'[p] # reported[p],
         NEW k \in 1..SettlePolls
  PROVE  log'[p][k] = reported'[p]
<1>1. agreeing[p] \in 0..SettlePolls - 1 /\ Count(p) \in 1..SettlePolls
  BY DEF TypeOK, DebounceOK, Count
<1>2. Settles(p) /\ reported'[p] = Found(p)
  BY DEF Poll, observe
<1>3. Count(p) = SettlePolls
  BY <1>1, <1>2 DEF Settles
<1>4. log'[p][k] = IF k = SettlePolls THEN Found(p) ELSE log[p][k + 1]
  BY DEF Poll, observe
<1>5. CASE k = SettlePolls
  BY <1>2, <1>4, <1>5
<1>6. CASE k # SettlePolls
  <2>1. Found(p) = candidate[p] /\ SettlePolls = agreeing[p] + 1
    BY <1>1, <1>3, <1>6 DEF Count
  <2>2. k + 1 \in SettlePolls - agreeing[p] + 1..SettlePolls
    BY <1>1, <1>6, <2>1
  <2> QED
    BY <1>2, <1>4, <1>6, <2>1, <2>2 DEF Agreed
<1> QED
  BY <1>5, <1>6

\* For every number of polls that must agree: what a poll tells of a port is what each of
\* the last SettlePolls polls saw there, whatever commands ran between them.
THEOREM ToldIsAgreed == WSpec => TellsOnlyAgreed
<1>1. WInit => Agreed
  BY DEF WInit, Agreed
<1>2. WSpec => []Agreed
  BY <1>1, TypeCorrect, StepAgrees, PTL DEF WSpec
<1>3. TypeOK /\ Agreed /\ [WNext]_wvars =>
        [Poll => \A p \in Port : reported'[p] # reported[p] =>
                  \A k \in 1..SettlePolls : log'[p][k] = reported'[p]]_wvars
  BY StepTellsOnlyAgreed
<1> QED
  BY <1>2, <1>3, TypeCorrect, PTL DEF WSpec, TellsOnlyAgreed

-------------------------------------------------------------------------------
(***************************************************************************)
(* The pads that are left alone.                                           *)
(***************************************************************************)
\* What is in the channel keeps its place when events are sent behind it.
LEMMA SentStays ==
  ASSUME NEW a \in Seq(Event), NEW b \in Seq(Event), NEW i \in 1..Len(a)
  PROVE  a \o b \in Seq(Event) /\ i \in 1..Len(a \o b) /\ (a \o b)[i] = a[i]
OBVIOUS

\* A poll lets go of a port that emptied with an event, and of the others only when the
\* pad is back as a locked one.
LEMMA PollLetsGo ==
  ASSUME TypeOK, Poll, NEW p \in unsupported \ unsupported'
  PROVE  \/ p \in locked_seen'
         \/ bus[p] = Nothing /\ \E i \in Len(evts) + 1..Len(evts') :
              evts'[i] = [type |-> "unplugged", port |-> p]
<1>1. p \in Port /\ p \notin StillThere
  BY DEF TypeOK, LocksOK, Poll
<1>2. CASE p \in LockedPorts
  BY <1>2 DEF Poll
<1>3. CASE p \notin LockedPorts
  <2>1. p \in Left /\ bus[p] = Nothing
    BY <1>1, <1>3 DEF StillThere, Left
  <2> DEFINE e == [type |-> "unplugged", port |-> p]
  <2>2. e \in Unplugged
    BY <2>1 DEF Unplugged
  <2>3. PICK u \in Perms(Unplugged), r \in Perms(RefusedNews), s \in Perms(Presences) :
          evts' = evts \o u \o LockedNews \o r \o s
    BY DEF Poll
  <2>4. u \in Seq(Unplugged) /\ r \in Seq(RefusedNews) /\ s \in Seq(Presences)
    BY PermsHoldAll, PollEventsFinite DEF TypeOK
  <2>5. u \in Seq(Event) /\ r \in Seq(Event) /\ s \in Seq(Event) /\ LockedNews \in Seq(Event)
    BY <2>4, PollEventsType DEF TypeOK
  <2>6. PICK i \in 1..Len(u) : u[i] = e
    BY <2>2, PermsHoldAll, PollEventsFinite DEF TypeOK
  <2>7. evts \in Seq(Event)
    BY DEF TypeOK, ChannelsOK
  <2> DEFINE j == Len(evts) + i
             x == evts \o u
             y == x \o LockedNews
             z == y \o r
  <2>8. x \in Seq(Event) /\ j \in 1..Len(x) /\ x[j] = e /\ j \in Len(evts) + 1..Len(x)
    BY <2>5, <2>6, <2>7
  <2> HIDE DEF e, j, x
  <2>9. y \in Seq(Event) /\ j \in 1..Len(y) /\ y[j] = e
    BY <2>5, <2>8, SentStays
  <2> HIDE DEF y
  <2>10. z \in Seq(Event) /\ j \in 1..Len(z) /\ z[j] = e
    BY <2>5, <2>9, SentStays
  <2> HIDE DEF z
  <2>11. evts' = z \o s
    BY <2>3 DEF x, y, z
  <2>12. j \in 1..Len(evts') /\ evts'[j] = e
    BY <2>5, <2>10, <2>11, SentStays
  <2>13. j \in Len(evts) + 1..Len(evts')
    BY <2>6, <2>7, <2>12 DEF j
  <2> QED
    BY <2>1, <2>12, <2>13 DEF e
<1> QED
  BY <1>2, <1>3

\* Nothing else lets go of one.
LEMMA OthersLetNoneGo ==
  ASSUME TypeOK, [WNext]_wvars, ~Poll
  PROVE  unsupported \subseteq unsupported'
<1>1. UNCHANGED locks => unsupported' = unsupported
  BY DEF locks
<1>2. CASE UNCHANGED wvars
  BY <1>1, <1>2 DEF wvars
<1>3. ASSUME NEW p \in Port, Move(p) PROVE unsupported' = unsupported
  BY <1>1, <1>3 DEF Move
<1>4. CASE Take \/ Client \/ InstallEnds
  BY <1>1, <1>4 DEF Take, Client, InstallEnds
<1>5. ASSUME NEW p \in Port, ReadEnds(p) \/ StepsEnd(p) \/ WriteEnds(p) \/ RelockEnds(p)
      PROVE  unsupported' = unsupported
  BY <1>1, <1>5 DEF ReadEnds, StepsEnd, WriteEnds, RelockEnds
<1>6. ASSUME NEW p \in Port, UnlockEnds(p) PROVE unsupported \subseteq unsupported'
  BY <1>6 DEF UnlockEnds, Unsupports
<1> QED
  BY <1>2, <1>3, <1>4, <1>5, <1>6 DEF WNext, Work, CommandEnds

\* For every number of ports: a pad that is left alone is let go of only when its port
\* emptied, with an event, or when it is listed as a locked one.
THEOREM OnlyTheGoneAreLetGo == WSpec => LetsGoOnlyOfTheGone
<1>1. TypeOK /\ [WNext]_wvars =>
        [\A p \in unsupported \ unsupported' :
           \/ p \in locked_seen'
           \/ bus[p] = Nothing /\ \E i \in Len(evts) + 1..Len(evts') :
                evts'[i] = [type |-> "unplugged", port |-> p]]_wvars
  BY PollLetsGo, OthersLetNoneGo
<1> QED
  BY <1>1, TypeCorrect, PTL DEF WSpec, LetsGoOnlyOfTheGone

-------------------------------------------------------------------------------
(***************************************************************************)
(* The keepalive only watches: whatever the worker does with it, it does   *)
(* without it too, so what is proved of the worker stands.                 *)
(***************************************************************************)
\* A step of the worker with its keepalive is one of the worker, or touches none of it.
LEMMA StepsAreTheWorkers ==
  ASSUME [KNext]_kvars
  PROVE  [WNext]_wvars
<1>1. CASE \E opens \in SUBSET Port : KPoll(opens) \/ HoldAgain(opens)
  <2>1. PICK opens \in SUBSET Port : KPoll(opens) \/ HoldAgain(opens)
    BY <1>1
  <2>2. CASE KPoll(opens)
    BY <2>2 DEF KPoll, WNext, Work
  <2>3. CASE HoldAgain(opens)
    BY <2>3 DEF HoldAgain
  <2>4. QED
    BY <2>1, <2>2, <2>3
<1>2. CASE KMove
  BY <1>2 DEF KMove, WNext
<1>3. CASE KWork
  BY <1>3 DEF KWork, WNext, Work
<1>4. CASE KClient
  BY <1>4 DEF KClient, WNext
<1>5. CASE UNCHANGED kvars
  BY <1>5 DEF kvars
<1>6. QED
  BY <1>1, <1>2, <1>3, <1>4, <1>5 DEF KNext

\* Keepalive in run: "Holds the `xpad` event node of a controller open while 8B runs",
\* and nothing else: the polls, the debounce and the commands are the worker's as ever.
THEOREM KeepaliveIsAWorker == KSpec => WSpec
<1>1. KInit => WInit
  BY DEF KInit
<1>2. [KNext]_kvars => [WNext]_wvars
  BY StepsAreTheWorkers
<1>3. QED
  BY <1>1, <1>2, PTL DEF KSpec, WSpec

USE DeskAssumption

-------------------------------------------------------------------------------
(***************************************************************************)
(* What the window takes and sends.                                        *)
(***************************************************************************)
LEMMA CommandsType ==
  ASSUME NEW p \in Port, NEW o \in PortOps
  PROVE  [op |-> o, port |-> p] \in Command
BY DEF Command

LEMMA TakesTyped ==
  ASSUME ChannelsOK, evts # <<>>, evts' = Tail(evts)
  PROVE  E \in Event /\ evts' \in Seq(Event)
BY HeadTailProperties DEF ChannelsOK, E

\* An event names a port, and carries what its type says.
LEMMA EventFields ==
  ASSUME NEW e \in Event
  PROVE  /\ e.type \notin {"locked", "installed"} => e.port \in Port
         /\ e.type = "presence" => e.mode \in Mode \cup {Nothing}
         /\ e.type = "read" => e.num \in Nat
         /\ e.type = "unlock" => e.result \in UnlockResult /\ e.mode \in Mode \cup {Nothing}
         /\ e.type = "locked" => e.list \subseteq Port
<1>1. CASE e \in [type: {"presence"}, port: Port, mode: Mode \cup {Nothing}]
  BY <1>1
<1>2. CASE e \in [type: {"read"}, port: Port, result: ReadResult, num: Nat]
  BY <1>2
<1>3. CASE e \in [type: {"steps", "relock"}, port: Port, ok: BOOLEAN]
  BY <1>3
<1>4. CASE e \in [type: {"written", "refused", "unplugged"}, port: Port]
  BY <1>4
<1>5. CASE e \in [type: {"locked"}, list: SUBSET Port]
  BY <1>5
<1>6. CASE e \in [type: {"unlock"}, port: Port, result: UnlockResult, mode: Mode \cup {Nothing}]
  BY <1>6
<1>7. CASE e \in [type: {"installed"}, ok: BOOLEAN]
  BY <1>7
<1> QED
  BY <1>1, <1>2, <1>3, <1>4, <1>5, <1>6, <1>7 DEF Event

\* One command for each port of a set, in any order.
LEMMA OnePerPort ==
  ASSUME NEW Q \in SUBSET Port, NEW o \in PortOps, NEW S, NEW s \in Perms(S),
         \A x \in S : \E p \in Q : x = [op |-> o, port |-> p],
         \A p \in Q : [op |-> o, port |-> p] \in S
  PROVE  s \in Seq(Command) /\ \A p \in Q : \E i \in 1..Len(s) : s[i] = [op |-> o, port |-> p]
<1> DEFINE f == [p \in Q |-> [op |-> o, port |-> p]]
<1>1. IsFiniteSet(Q)
  BY FS_Subset
<1>2. f \in Surjection(Q, S)
  BY DEF Surjection
<1>3. IsFiniteSet(S)
  BY <1>1, <1>2, FS_Surjection
<1>4. S \subseteq Command
  BY CommandsType
<1>5. s \in Seq(S) /\ \A x \in S : \E i \in 1..Len(s) : s[i] = x
  BY <1>3, PermsHoldAll
<1>6. s \in Seq(Command)
  BY <1>4, <1>5
<1> QED
  BY <1>5, <1>6

\* A window step sends a sequence of commands and touches neither pads nor worker.
Sends == \E s \in Seq(Command) : Send(s)

LEMMA SendsOne ==
  ASSUME NEW c \in Command, Send(<<c>>)
  PROVE  Sends
<1>1. <<c>> \in Seq(Command)
  OBVIOUS
<1> QED
  BY <1>1 DEF Sends

LEMMA SendsNone ==
  ASSUME Send(<<>>)
  PROVE  Sends
BY EmptySeq DEF Sends

LEMMA WindowStepTyped ==
  ASSUME TypeOK, Sends, evts' \in Seq(Event), UNCHANGED <<pads, debounce, locks, cmd, broken>>
  PROVE  TypeOK'
<1>1. PadsOK' /\ DebounceOK' /\ LocksOK'
  BY UnchangedTyped DEF TypeOK
<1>2. cmds' \in Seq(Command)
  BY DEF TypeOK, ChannelsOK, Sends, Send
<1> QED
  BY <1>1, <1>2 DEF TypeOK, ChannelsOK

-------------------------------------------------------------------------------
(***************************************************************************)
(* Types.                                                                  *)
(***************************************************************************)
Controllers == [Port -> Controller \cup {Nothing}]

ShownOK ==
  /\ ctl \in Controllers
  /\ locked \in [Port -> LockStatus]
  /\ relock_sent \in Port \cup {Nothing}
  /\ access \in BOOLEAN

NotesOK == denied \subseteq Port /\ assumed \subseteq Port

\* What a change to one controller leaves.
LEMMA ControllerChanges ==
  ASSUME NEW c \in Controller, NEW m \in Mode \cup {Nothing}, NEW n \in Nat,
         NEW r \in BOOLEAN, NEW e \in BOOLEAN
  PROVE  /\ [c EXCEPT !.reading = r] \in Controller
         /\ [c EXCEPT !.reading = r, !.read_error = e] \in Controller
         /\ [c EXCEPT !.mode = m, !.reading = r] \in Controller
         /\ [c EXCEPT !.mode = m, !.reading = r, !.read_error = e] \in Controller
         /\ [c EXCEPT !.num = n, !.reading = r, !.read_error = e] \in Controller
BY DEF Controller

LEMMA PresenceTyped ==
  ASSUME ctl \in Controllers, NEW p \in Port, NEW m \in Mode \cup {Nothing}, presence(p, m)
  PROVE  ctl' \in Controllers /\ access' \in BOOLEAN /\ Sends
<1>1. access' \in BOOLEAN
  BY DEF presence
<1>2. CASE m # Nothing
  <2>1. Appears(p, m) \in Controller
    <3>1. CASE ctl[p] = Nothing
      BY <1>2, <3>1 DEF Appears, Controller
    <3>2. CASE ctl[p] # Nothing
      BY <3>2, ControllerChanges DEF Appears, Controllers
    <3> QED
      BY <3>1, <3>2
  <2>2. ctl' \in Controllers
    BY <1>2, <2>1 DEF presence, Controllers
  <2>3. ReadOf(p) \in Command
    BY CommandsType DEF ReadOf, PortOps
  <2> QED
    BY <1>1, <1>2, <2>2, <2>3, SendsOne DEF presence
<1>3. CASE m = Nothing
  <2>1. Sends
    BY <1>3, SendsNone DEF presence
  <2>2. CASE ctl[p] = Nothing
    BY <1>1, <1>3, <2>1, <2>2 DEF presence
  <2>3. CASE ctl[p] # Nothing
    <3>1. PICK c \in Gone([ctl[p] EXCEPT !.mode = Nothing, !.reading = FALSE, !.read_error = FALSE]) :
            ctl' = [ctl EXCEPT ![p] = c]
      BY <1>3, <2>3 DEF presence
    <3>2. ctl[p] \in Controller
      BY <2>3 DEF Controllers
    <3>3. c \in Controller \cup {Nothing}
      BY <3>1, <3>2, ControllerChanges DEF Gone
    <3> QED
      BY <1>1, <2>1, <3>1, <3>3 DEF Controllers
  <2> QED
    BY <2>2, <2>3
<1> QED
  BY <1>2, <1>3

LEMMA ReadsTyped ==
  ASSUME ctl \in Controllers, NEW p \in Port, Reads(p)
  PROVE  ctl' \in Controllers /\ Sends
<1>1. ReadOf(p) \in Command
  BY CommandsType DEF ReadOf, PortOps
<1>2. ctl' \in Controllers
  <2>1. CASE ctl[p] = Nothing
    BY <2>1 DEF Reads
  <2>2. CASE ctl[p] # Nothing
    <3>1. [ctl[p] EXCEPT !.reading = TRUE] \in Controller
      BY <2>2, ControllerChanges DEF Controllers
    <3> QED
      BY <2>2, <3>1 DEF Reads, Controllers
  <2> QED
    BY <2>1, <2>2
<1> QED
  BY <1>1, <1>2, SendsOne DEF Reads

LEMMA PresentReadingTyped ==
  ASSUME ctl \in Controllers
  PROVE  PresentReading \in Controllers
BY ControllerChanges DEF PresentReading, Present, Controllers

LEMMA ReadFailedTyped ==
  ASSUME ctl \in Controllers, NEW p \in Port, read_failed(p)
  PROVE  ctl' \in Controllers
<1>1. CASE ctl[p] = Nothing
  BY <1>1 DEF read_failed
<1>2. CASE ctl[p] # Nothing
  <2>1. [ctl[p] EXCEPT !.reading = FALSE, !.read_error = TRUE] \in Controller
    BY <1>2, ControllerChanges DEF Controllers
  <2> QED
    BY <1>2, <2>1 DEF read_failed, Controllers
<1> QED
  BY <1>1, <1>2

\* The denied read and the denied unlock.
LEMMA ReadDeniedTyped ==
  ASSUME ctl \in Controllers, NEW p \in Port,
         ctl' = IF ctl[p] = Nothing THEN ctl ELSE [ctl EXCEPT ![p].reading = FALSE]
  PROVE  ctl' \in Controllers
<1>1. CASE ctl[p] = Nothing
  BY <1>1
<1>2. CASE ctl[p] # Nothing
  <2>1. [ctl[p] EXCEPT !.reading = FALSE] \in Controller
    BY <1>2, ControllerChanges DEF Controllers
  <2> QED
    BY <1>2, <2>1 DEF Controllers
<1> QED
  BY <1>1, <1>2

\* The event that the window takes.
LEMMA TakenEvent ==
  ASSUME TypeOK, NEW t, Takes(t)
  PROVE  E \in Event /\ E.type = t /\ evts' \in Seq(Event)
BY TakesTyped DEF TypeOK, Takes, E

LEMMA ReadsHandledTyped ==
  ASSUME TypeOK, ShownOK,
         HandlePresence \/ HandleReadOk \/ HandleReadDenied \/ HandleReadForeign
           \/ HandleReadError \/ HandleSteps \/ HandleWritten
  PROVE  ShownOK' /\ Sends /\ evts' \in Seq(Event)
<1> USE DEF ShownOK
<1>1. CASE HandlePresence
  <2>1. evts' \in Seq(Event) /\ E.port \in Port /\ E.mode \in Mode \cup {Nothing}
    BY <1>1, TakenEvent, EventFields DEF HandlePresence
  <2> QED
    BY <1>1, <2>1, PresenceTyped DEF HandlePresence
<1>2. CASE HandleReadOk
  <2>1. evts' \in Seq(Event) /\ E.port \in Port /\ E.num \in Nat
    BY <1>2, TakenEvent, EventFields DEF HandleReadOk
  <2>2. [op |-> "steps", port |-> E.port] \in Command
    BY <2>1, CommandsType DEF PortOps
  <2>3. Sends
    BY <1>2, <2>2, SendsNone, SendsOne DEF HandleReadOk
  <2>4. CASE ctl[E.port] = Nothing
    BY <1>2, <2>1, <2>3, <2>4 DEF HandleReadOk
  <2>5. CASE ctl[E.port] # Nothing
    <3>1. [ctl[E.port] EXCEPT !.num = E.num, !.reading = FALSE, !.read_error = FALSE] \in Controller
      BY <2>1, <2>5, ControllerChanges DEF Controllers
    <3>2. ctl' \in Controllers
      BY <1>2, <2>1, <2>5, <3>1 DEF HandleReadOk, Controllers
    <3> QED
      BY <1>2, <2>1, <2>3, <2>5, <3>2 DEF HandleReadOk
  <2> QED
    BY <2>4, <2>5
<1>3. CASE HandleReadDenied
  <2>1. evts' \in Seq(Event) /\ E.port \in Port
    BY <1>3, TakenEvent, EventFields DEF HandleReadDenied
  <2>2. ctl' \in Controllers
    BY <1>3, <2>1, ReadDeniedTyped DEF HandleReadDenied
  <2> QED
    BY <1>3, <2>1, <2>2, SendsNone DEF HandleReadDenied
<1>4. CASE HandleReadForeign
  <2>1. evts' \in Seq(Event) /\ E.port \in Port
    BY <1>4, TakenEvent, EventFields DEF HandleReadForeign
  <2>2. ctl' \in Controllers
    <3>1. CASE ctl[E.port] = Nothing
      BY <1>4, <3>1 DEF HandleReadForeign
    <3>2. CASE ctl[E.port] # Nothing
      <4>1. PICK c \in Gone([ctl[E.port] EXCEPT !.mode = Nothing, !.reading = FALSE]) :
              ctl' = [ctl EXCEPT ![E.port] = c]
        BY <1>4, <3>2 DEF HandleReadForeign
      <4>2. ctl[E.port] \in Controller
        BY <2>1, <3>2 DEF Controllers
      <4>3. [ctl[E.port] EXCEPT !.mode = Nothing, !.reading = FALSE] \in Controller
        BY <4>2, ControllerChanges
      <4>4. c \in Controller \cup {Nothing}
        BY <4>1, <4>3 DEF Gone
      <4> QED
        BY <2>1, <4>1, <4>4 DEF Controllers
    <3> QED
      BY <3>1, <3>2
  <2> QED
    BY <1>4, <2>1, <2>2, SendsNone DEF HandleReadForeign
<1>5. CASE HandleReadError
  <2>1. evts' \in Seq(Event) /\ E.port \in Port
    BY <1>5, TakenEvent, EventFields DEF HandleReadError
  <2> QED
    BY <1>5, <2>1, ReadFailedTyped, SendsNone DEF HandleReadError
<1>6. CASE HandleSteps
  <2>1. evts' \in Seq(Event) /\ E.port \in Port
    BY <1>6, TakenEvent, EventFields DEF HandleSteps
  <2>2. ctl' \in Controllers
    BY <1>6, <2>1, ReadFailedTyped DEF HandleSteps
  <2> QED
    BY <1>6, <2>1, <2>2, SendsNone DEF HandleSteps
<1>7. CASE HandleWritten
  <2>1. evts' \in Seq(Event) /\ E.port \in Port
    BY <1>7, TakenEvent, EventFields DEF HandleWritten
  <2>2. CASE Reads(E.port) /\ UNCHANGED relock_sent
    BY <1>7, <2>1, <2>2, ReadsTyped DEF HandleWritten
  <2>3. CASE /\ Named(E.port)
             /\ Send(<<ReadOf(E.port), [op |-> "relock", port |-> E.port]>>)
             /\ ctl' = [ctl EXCEPT ![E.port].reading = TRUE]
             /\ relock_sent' = E.port
    <3>1. <<ReadOf(E.port), [op |-> "relock", port |-> E.port]>> \in Seq(Command)
      <4>1. ReadOf(E.port) \in Command /\ [op |-> "relock", port |-> E.port] \in Command
        BY <2>1, CommandsType DEF ReadOf, PortOps
      <4> HIDE DEF ReadOf
      <4> QED
        BY <4>1
    <3>2. [ctl[E.port] EXCEPT !.reading = TRUE] \in Controller
      BY <2>1, <2>3, ControllerChanges DEF Controllers, Named, Present
    <3>3. ctl' \in Controllers
      BY <2>1, <2>3, <3>2 DEF Controllers
    <3>4. Sends
      BY <2>3, <3>1 DEF Sends
    <3> QED
      BY <1>7, <2>1, <2>3, <3>3, <3>4 DEF HandleWritten
  <2> QED
    BY <1>7, <2>2, <2>3 DEF HandleWritten
<1> QED
  BY <1>1, <1>2, <1>3, <1>4, <1>5, <1>6, <1>7

LEMMA RelistedType ==
  ASSUME ShownOK, NEW l, NEW p \in Port
  PROVE  Relisted(l, p) \in LockStatus
BY DEF ShownOK, Relisted, LockStatus, Openable, LeftAlone

LEMMA LocksHandledTyped ==
  ASSUME TypeOK, ShownOK,
         HandleLocked \/ HandleRefused \/ HandleUnplugged \/ HandleUnlocked
           \/ HandleNotUnlocked \/ HandleRelocked \/ HandleNotRelocked \/ HandleInstalled
  PROVE  ShownOK' /\ Sends /\ evts' \in Seq(Event)
<1> USE DEF ShownOK
<1>0. {"absent", "locked", "onport"} \subseteq LockStatus /\ UnlockResult \ {"port"} \subseteq LockStatus
  BY DEF LockStatus, Openable, LeftAlone, UnlockResult
<1>1. CASE HandleLocked
  <2>1. evts' \in Seq(Event)
    BY <1>1, TakenEvent DEF HandleLocked
  <2>2. locked' \in [Port -> LockStatus]
    BY <1>1, RelistedType DEF HandleLocked
  <2> QED
    BY <1>1, <2>1, <2>2, SendsNone DEF HandleLocked
<1>2. CASE HandleRefused
  <2>1. evts' \in Seq(Event) /\ E.port \in Port
    BY <1>2, TakenEvent, EventFields DEF HandleRefused
  <2> QED
    BY <1>0, <1>2, <2>1, SendsNone DEF HandleRefused
<1>3. CASE HandleUnplugged
  <2>1. evts' \in Seq(Event) /\ E.port \in Port
    BY <1>3, TakenEvent, EventFields DEF HandleUnplugged
  <2> QED
    BY <1>0, <1>3, <2>1, SendsNone DEF HandleUnplugged
<1>4. CASE HandleUnlocked
  <2>1. evts' \in Seq(Event) /\ E.port \in Port /\ E.mode \in Mode \cup {Nothing}
    BY <1>4, TakenEvent, EventFields DEF HandleUnlocked
  <2>2. ctl' \in Controllers /\ access' \in BOOLEAN /\ Sends
    BY <1>4, <2>1, PresenceTyped DEF HandleUnlocked
  <2> QED
    BY <1>0, <1>4, <2>1, <2>2 DEF HandleUnlocked
<1>5. CASE HandleNotUnlocked
  <2>1. evts' \in Seq(Event) /\ E.port \in Port /\ E.result \in UnlockResult \ {"port"}
    BY <1>5, TakenEvent, EventFields DEF HandleNotUnlocked
  <2>2. locked' \in [Port -> LockStatus]
    BY <1>0, <1>5, <2>1 DEF HandleNotUnlocked, set_lock_status
  <2>3. ctl' \in Controllers /\ access' \in BOOLEAN
    BY <1>5, <2>1, ReadDeniedTyped DEF HandleNotUnlocked
  <2> QED
    BY <1>5, <2>1, <2>2, <2>3, SendsNone DEF HandleNotUnlocked
<1>6. CASE HandleRelocked
  <2>1. evts' \in Seq(Event) /\ E.port \in Port
    BY <1>6, TakenEvent, EventFields DEF HandleRelocked
  <2>2. ctl' \in Controllers
    BY <1>6, <2>1 DEF HandleRelocked, Controllers
  <2>3. locked' \in [Port -> LockStatus]
    BY <1>0, <1>6, <2>1 DEF HandleRelocked
  <2> QED
    BY <1>6, <2>1, <2>2, <2>3, SendsNone DEF HandleRelocked
<1>7. CASE HandleNotRelocked
  <2>1. evts' \in Seq(Event)
    BY <1>7, TakenEvent DEF HandleNotRelocked
  <2> QED
    BY <1>7, <2>1, SendsNone DEF HandleNotRelocked
<1>8. CASE HandleInstalled
  <2>1. evts' \in Seq(Event)
    BY <1>8, TakenEvent DEF HandleInstalled
  <2> DEFINE reads == {ReadOf(p) : p \in Present}
  <2>2. /\ \A x \in reads : \E p \in Present : x = [op |-> "read", port |-> p]
        /\ \A p \in Present : [op |-> "read", port |-> p] \in reads
        /\ Present \in SUBSET Port /\ "read" \in PortOps
    BY DEF Present, PortOps, ReadOf
  <2>3. ASSUME NEW s \in Perms(reads) PROVE s \in Seq(Command)
    <3> HIDE DEF reads
    <3> QED
      BY <2>2, <2>3, OnePerPort
  <2>4. Sends
    BY <1>8, <2>3, SendsNone DEF HandleInstalled, Sends
  <2>5. ctl' \in Controllers
    BY <1>8, PresentReadingTyped DEF HandleInstalled
  <2> QED
    BY <1>8, <2>1, <2>4, <2>5 DEF HandleInstalled
<1> QED
  BY <1>1, <1>2, <1>3, <1>4, <1>5, <1>6, <1>7, <1>8

\* "Check again" sends an unlock for each denied pad and a read for each that is there.
LEMMA CheckAgainSends ==
  ASSUME ClickCheckAgain
  PROVE  \E u \in Seq(Command), r \in Seq(Command) :
           /\ Send(u \o r)
           /\ \A p \in Port : locked[p] = "denied" =>
                \E i \in 1..Len(u) : u[i] = [op |-> "unlock", port |-> p]
<1> DEFINE barred == {p \in Port : locked[p] = "denied"}
           unlocks == {[op |-> "unlock", port |-> p] : p \in barred}
           reads == {ReadOf(p) : p \in Present}
<1>1. PICK u \in Perms(unlocks), r \in Perms(reads) : Send(u \o r)
  BY DEF ClickCheckAgain
<1>2. /\ \A x \in unlocks : \E p \in barred : x = [op |-> "unlock", port |-> p]
      /\ \A p \in barred : [op |-> "unlock", port |-> p] \in unlocks
      /\ barred \in SUBSET Port /\ "unlock" \in PortOps
  BY DEF PortOps
<1>3. /\ \A x \in reads : \E p \in Present : x = [op |-> "read", port |-> p]
      /\ \A p \in Present : [op |-> "read", port |-> p] \in reads
      /\ Present \in SUBSET Port /\ "read" \in PortOps
  BY DEF Present, PortOps, ReadOf
<1>4. \A p \in Port : locked[p] = "denied" => p \in barred
  OBVIOUS
<1> HIDE DEF barred, unlocks, reads
<1>5. u \in Seq(Command) /\ \A p \in barred : \E i \in 1..Len(u) : u[i] = [op |-> "unlock", port |-> p]
  BY <1>1, <1>2, OnePerPort
<1>6. r \in Seq(Command)
  BY <1>1, <1>3, OnePerPort
<1> QED
  BY <1>1, <1>4, <1>5, <1>6

LEMMA UserTyped ==
  ASSUME TypeOK, ShownOK, User
  PROVE  ShownOK' /\ Sends /\ evts' = evts
<1> USE DEF ShownOK, Click
<1>1. CASE ClickCheckAgain
  <2>1. PICK u \in Seq(Command), r \in Seq(Command) : Send(u \o r)
    BY <1>1, CheckAgainSends
  <2>2. Sends
    <3>1. u \o r \in Seq(Command)
      BY ConcatProperties
    <3> QED
      BY <2>1, <3>1 DEF Sends
  <2>3. ctl' \in Controllers
    BY <1>1, PresentReadingTyped DEF ClickCheckAgain
  <2>4. locked' \in [Port -> LockStatus]
    BY <1>1 DEF ClickCheckAgain, LockStatus
  <2> QED
    BY <1>1, <2>2, <2>3, <2>4 DEF ClickCheckAgain
<1>2. CASE ClickInstall
  <2>1. [op |-> "install"] \in Command
    BY DEF Command
  <2> QED
    BY <1>2, <2>1, SendsOne DEF ClickInstall
<1>3. ASSUME NEW p \in Port, ClickWrite(p) PROVE ShownOK' /\ Sends /\ evts' = evts
  <2>1. [op |-> "write", port |-> p] \in Command
    BY CommandsType DEF PortOps
  <2> QED
    BY <1>3, <2>1, SendsOne DEF ClickWrite
<1>4. ASSUME NEW p \in Port, ClickUnlock(p) PROVE ShownOK' /\ Sends /\ evts' = evts
  <2>1. [op |-> "unlock", port |-> p] \in Command
    BY CommandsType DEF PortOps
  <2>2. locked' \in [Port -> LockStatus]
    BY <1>4 DEF ClickUnlock, LockStatus
  <2> QED
    BY <1>4, <2>1, <2>2, SendsOne DEF ClickUnlock
<1>5. ASSUME NEW p \in Port, ClickRelock(p) PROVE ShownOK' /\ Sends /\ evts' = evts
  <2>1. [op |-> "relock", port |-> p] \in Command
    BY CommandsType DEF PortOps
  <2> QED
    BY <1>5, <2>1, SendsOne DEF ClickRelock
<1>6. ASSUME NEW p \in Port, ClickTryAgain(p) PROVE ShownOK' /\ Sends /\ evts' = evts
  BY <1>6, ReadsTyped DEF ClickTryAgain
<1> QED
  BY <1>1, <1>2, <1>3, <1>4, <1>5, <1>6 DEF User

\* The steps of the window leave the pads and the worker's own state.
LEMMA HandleTyped ==
  ASSUME TypeOK, ShownOK, Handle
  PROVE  ShownOK' /\ Sends /\ evts' \in Seq(Event)
BY ReadsHandledTyped, LocksHandledTyped DEF Handle

\* What is noted of an event is its port.
LEMMA NotedTyped ==
  ASSUME TypeOK, NotesOK, Handle
  PROVE  NotesOK'
<1>1. evts # <<>>
  BY DEF Handle, HandlePresence, HandleReadOk, HandleReadDenied, HandleReadForeign,
     HandleReadError, HandleSteps, HandleWritten, HandleLocked, HandleRefused,
     HandleUnplugged, HandleUnlocked, HandleNotUnlocked, HandleRelocked,
     HandleNotRelocked, HandleInstalled, Takes
<1>2. E \in Event
  BY <1>1, HeadTailProperties DEF TypeOK, ChannelsOK, E
<1>3. Refuses \/ E.type = "relock" => E.port \in Port
  BY <1>2, EventFields DEF Refuses
<1> QED
  BY <1>3 DEF NotesOK, Handle, Noted

LEMMA DeskStepTyped == DeskTypeOK /\ [Next]_vars => DeskTypeOK'
<1> SUFFICES ASSUME DeskTypeOK, [Next]_vars PROVE DeskTypeOK'
  OBVIOUS
<1>1. TypeOK /\ ShownOK /\ NotesOK /\ clicks \in 0..MaxClicks
  BY DEF DeskTypeOK, WindowOK, ShownOK, NotesOK, Controllers
<1>2. TypeOK' /\ ShownOK' /\ NotesOK' /\ clicks' \in 0..MaxClicks
  <2>1. UNCHANGED window => ShownOK' /\ NotesOK' /\ clicks' \in 0..MaxClicks
    BY <1>1 DEF window, ShownOK, NotesOK
  <2>2. CASE UNCHANGED vars
    <3>1. UNCHANGED wvars /\ UNCHANGED window
      BY <2>2 DEF vars
    <3> QED
      BY <1>1, <2>1, <3>1, StepTyped
  <2>3. CASE Bus
    BY <1>1, <2>1, <2>3, MoveTyped DEF Bus
  <2>4. CASE Worker
    BY <1>1, <2>1, <2>4, WorkTyped DEF Worker
  <2>5. CASE Handle
    <3>1. ShownOK' /\ Sends /\ evts' \in Seq(Event)
      BY <1>1, <2>5, HandleTyped
    <3>2. TypeOK'
      BY <1>1, <2>5, <3>1, WindowStepTyped DEF Handle
    <3>3. NotesOK'
      BY <1>1, <2>5, NotedTyped
    <3> QED
      BY <1>1, <2>5, <3>1, <3>2, <3>3 DEF Handle
  <2>6. CASE User
    <3>1. ShownOK' /\ Sends /\ evts' = evts
      BY <1>1, <2>6, UserTyped
    <3>2. Click
      BY <2>6 DEF User, ClickCheckAgain, ClickInstall, ClickWrite, ClickUnlock, ClickRelock,
                  ClickTryAgain
    <3>3. TypeOK'
      BY <1>1, <3>1, <3>2, WindowStepTyped DEF Click, TypeOK, ChannelsOK
    <3> QED
      BY <1>1, <3>1, <3>2, <3>3 DEF Click, NotesOK
  <2> QED
    BY <2>2, <2>3, <2>4, <2>5, <2>6 DEF Next
<1> QED
  BY <1>2 DEF DeskTypeOK, WindowOK, ShownOK, NotesOK, Controllers

LEMMA DeskInitTyped == Init => DeskTypeOK
<1> SUFFICES ASSUME Init PROVE DeskTypeOK
  OBVIOUS
<1>1. TypeOK
  BY InitTyped DEF Init
<1>2. ctl \in [Port -> Controller \cup {Nothing}] /\ locked \in [Port -> LockStatus]
  BY DEF Init, LockStatus
<1>3. clicks \in 0..MaxClicks
  BY DEF Init
<1>4. relock_sent \in Port \cup {Nothing}
  BY DEF Init
<1>5. access \in BOOLEAN
  BY DEF Init
<1>6. WindowOK
  BY <1>2, <1>3, <1>4, <1>5 DEF Init, WindowOK
<1> QED
  BY <1>1, <1>6 DEF DeskTypeOK

\* Worker and window keep their types whatever the pads and the user do.
THEOREM DeskTypeCorrect == Spec => []DeskTypeOK
BY DeskInitTyped, DeskStepTyped, PTL DEF Spec

-------------------------------------------------------------------------------
(***************************************************************************)
(* Every pad that unlocks is answered.  The answer moves from the channel  *)
(* to the running command to the other channel, and ends in a handler that *)
(* takes the pad out of "unlocking".                                       *)
(***************************************************************************)
UnlockOf(p) == [op |-> "unlock", port |-> p]
Queued(p) == \E i \in 1..Len(cmds) : cmds[i] = UnlockOf(p)
AnswerSent(p) == \E i \in 1..Len(evts) : evts[i].type = "unlock" /\ evts[i].port = p
OnTheWay(p) == cmd = UnlockOf(p) \/ Queued(p) \/ AnswerSent(p)

\* What is queued stays queued when more commands are sent, and so for events.
LEMMA QueuedStays ==
  ASSUME ChannelsOK, NEW p \in Port, Queued(p), NEW s \in Seq(Command), cmds' = cmds \o s
  PROVE  Queued(p)'
BY DEF Queued, ChannelsOK, UnlockOf

LEMMA AnswerStays ==
  ASSUME ChannelsOK, NEW p \in Port, AnswerSent(p), NEW s \in Seq(Event), evts' = evts \o s
  PROVE  AnswerSent(p)'
BY DEF AnswerSent, ChannelsOK

\* The worker takes the unlock or leaves it queued, and ends it with its answer.
LEMMA EmitKeeps ==
  ASSUME ChannelsOK, NEW p \in Port, AnswerSent(p), NEW e \in Event, Emit(e)
  PROVE  AnswerSent(p)'
<1>1. <<e>> \in Seq(Event) /\ evts' = evts \o <<e>>
  BY DEF Emit, ChannelsOK
<1> QED
  BY <1>1, AnswerStays

LEMMA TakeKeeps ==
  ASSUME TypeOK, NEW p \in Port, OnTheWay(p), Take
  PROVE  OnTheWay(p)'
<1> USE DEF TypeOK, ChannelsOK
<1>1. cmd # UnlockOf(p)
  <2>1. UnlockOf(p) \in Command
    BY CommandsType DEF UnlockOf, PortOps
  <2> QED
    BY <2>1 DEF Take
<1>2. CASE AnswerSent(p)
  BY <1>2 DEF Take, OnTheWay, AnswerSent
<1>3. CASE Queued(p)
  <2>1. PICK i \in 1..Len(cmds) : cmds[i] = UnlockOf(p)
    BY <1>3 DEF Queued
  <2>2. CASE i = 1
    <3>1. cmd' = UnlockOf(p)
      BY <2>1, <2>2 DEF Take
    <3> QED
      BY <3>1 DEF OnTheWay, UnlockOf
  <2>3. CASE i # 1
    <3>1. cmds' = Tail(cmds) /\ cmds # <<>> /\ cmds \in Seq(Command)
      BY DEF Take
    <3>2. i - 1 \in 1..Len(cmds') /\ cmds'[i - 1] = cmds[i]
      BY <2>1, <2>3, <3>1, HeadTailProperties
    <3> QED
      BY <2>1, <3>2 DEF OnTheWay, Queued, UnlockOf
  <2> QED
    BY <2>2, <2>3
<1> QED
  BY <1>1, <1>2, <1>3 DEF OnTheWay

LEMMA PollKeeps ==
  ASSUME TypeOK, NEW p \in Port, OnTheWay(p), Poll
  PROVE  OnTheWay(p)'
<1>1. UnlockOf(p) \in Command
  BY CommandsType DEF UnlockOf, PortOps
<1>2. AnswerSent(p)
  BY <1>1 DEF OnTheWay, Queued, Poll
<1>3. PICK u \in Perms(Unplugged), r \in Perms(RefusedNews), s \in Perms(Presences) :
        evts' = evts \o u \o LockedNews \o r \o s
  BY DEF Poll
<1>4. u \in Seq(Unplugged) /\ r \in Seq(RefusedNews) /\ s \in Seq(Presences)
  BY PermsHoldAll, PollEventsFinite DEF TypeOK
<1>5. u \in Seq(Event) /\ r \in Seq(Event) /\ s \in Seq(Event) /\ LockedNews \in Seq(Event)
  BY <1>4, PollEventsType DEF TypeOK
<1>6. evts \in Seq(Event)
  BY DEF TypeOK, ChannelsOK
<1>7. PICK i \in 1..Len(evts) : evts[i].type = "unlock" /\ evts[i].port = p
  BY <1>2 DEF AnswerSent
<1> DEFINE x == evts \o u
           y == x \o LockedNews
           z == y \o r
<1>8. x \in Seq(Event) /\ i \in 1..Len(x) /\ x[i] = evts[i]
  BY <1>5, <1>6, SentStays
<1> HIDE DEF x
<1>9. y \in Seq(Event) /\ i \in 1..Len(y) /\ y[i] = evts[i]
  BY <1>5, <1>8, SentStays
<1> HIDE DEF y
<1>10. z \in Seq(Event) /\ i \in 1..Len(z) /\ z[i] = evts[i]
  BY <1>5, <1>9, SentStays
<1> HIDE DEF z
<1>11. evts' = z \o s
  BY <1>3 DEF x, y, z
<1>12. i \in 1..Len(evts') /\ evts'[i] = evts[i]
  BY <1>5, <1>10, <1>11, SentStays
<1> QED
  BY <1>7, <1>12 DEF OnTheWay, AnswerSent

\* A command that ends sends one event, and an unlock its answer.
LEMMA CommandEndKeeps ==
  ASSUME TypeOK, TypeOK', NEW p \in Port, OnTheWay(p), CommandEnds
  PROVE  OnTheWay(p)'
<1>1. \E e \in Event : Emit(e) /\ (cmd = UnlockOf(p) => e.type = "unlock" /\ e.port = p)
  <2>1. CASE InstallEnds
    <3>1. PICK ok \in BOOLEAN : Emit([type |-> "installed", ok |-> ok])
      BY <2>1 DEF InstallEnds
    <3>2. [type |-> "installed", ok |-> ok] \in Event
      BY DEF Event
    <3>3. cmd # UnlockOf(p)
      BY <2>1 DEF InstallEnds, UnlockOf
    <3> QED
      BY <3>1, <3>2, <3>3
  <2>2. ASSUME NEW q \in Port, UnlockEnds(q)
        PROVE  \E e \in Event : Emit(e) /\ (cmd = UnlockOf(p) => e.type = "unlock" /\ e.port = p)
    <3>1. PICK r \in UnlockResult :
            /\ mark_seen(q, r = "port")
            /\ Emit([type |-> "unlock", port |-> q, result |-> r, mode |-> ModeOf(Scanned(q))'])
      BY <2>2 DEF UnlockEnds
    <3> DEFINE e == [type |-> "unlock", port |-> q, result |-> r, mode |-> ModeOf(Scanned(q))']
    <3>2. ModeOf(Scanned(q))' \in Mode \cup {Nothing}
      <4>1. PadsOK' /\ DebounceOK
        BY DEF TypeOK
      <4> DEFINE t == r = "port"
      <4>2. t \in BOOLEAN /\ mark_seen(q, t)
        BY <3>1
      <4> HIDE DEF t
      <4> QED
        BY <4>1, <4>2, MarkSeenTyped
    <3>3. e \in Event
      BY <3>2 DEF Event
    <3>4. cmd = UnlockOf(p) => q = p
      BY <2>2 DEF UnlockEnds, Ends, UnlockOf
    <3> QED
      BY <3>1, <3>3, <3>4
  <2>3. ASSUME NEW q \in Port, ReadEnds(q) \/ StepsEnd(q) \/ WriteEnds(q) \/ RelockEnds(q)
        PROVE  \E e \in Event : Emit(e) /\ (cmd = UnlockOf(p) => e.type = "unlock" /\ e.port = p)
    <3>1. cmd # UnlockOf(p)
      <4>1. \E o \in {"read", "steps", "write", "relock"} : Ends(o, q)
        BY <2>3 DEF ReadEnds, StepsEnd, WriteEnds, RelockEnds
      <4> QED
        BY <4>1 DEF Ends, UnlockOf
    <3>2. \E e : Emit(e)
      BY <2>3 DEF ReadEnds, StepsEnd, WriteEnds, RelockEnds, Disconnected
    <3>3. PICK e : Emit(e)
      BY <3>2
    <3>4. e \in Event
      <4>1. evts' = Append(evts, e) /\ evts \in Seq(Event) /\ evts' \in Seq(Event)
        BY <3>3 DEF Emit, TypeOK, ChannelsOK
      <4>2. Len(evts') = Len(evts) + 1 /\ evts'[Len(evts) + 1] = e
        BY <4>1
      <4> QED
        BY <4>1, <4>2, ElementOfSeq
    <3> QED
      BY <3>1, <3>3, <3>4
  <2> QED
    BY <2>1, <2>2, <2>3 DEF CommandEnds
<1>2. PICK e \in Event : Emit(e) /\ (cmd = UnlockOf(p) => e.type = "unlock" /\ e.port = p)
  BY <1>1
<1>3. cmds' = cmds
  BY DEF CommandEnds, InstallEnds, ReadEnds, StepsEnd, WriteEnds, UnlockEnds, RelockEnds, Ends
<1>4. CASE cmd = UnlockOf(p)
  <2>1. evts' = Append(evts, e) /\ evts \in Seq(Event)
    BY <1>2 DEF Emit, TypeOK, ChannelsOK
  <2>2. Len(evts) + 1 \in 1..Len(evts') /\ evts'[Len(evts) + 1] = e
    BY <2>1
  <2> QED
    BY <1>2, <1>4, <2>2 DEF OnTheWay, AnswerSent
<1>5. CASE Queued(p)
  BY <1>3, <1>5 DEF OnTheWay, Queued, UnlockOf
<1>6. CASE AnswerSent(p)
  BY <1>2, <1>6, EmitKeeps DEF OnTheWay, TypeOK
<1> QED
  BY <1>4, <1>5, <1>6 DEF OnTheWay

\* What the window waits for: an unlocking pad has its answer on the way.
Awaited == \A p \in Port : locked[p] = "unlocking" => OnTheWay(p)

\* A handler starts no unlock, and takes a pad out of "unlocking" with its answer.
LEMMA HandlersAnswer ==
  ASSUME TypeOK, ShownOK, Handle, NEW p \in Port, locked'[p] = "unlocking"
  PROVE  /\ locked[p] = "unlocking"
         /\ evts # <<>> /\ evts' = Tail(evts)
         /\ ~(E.type = "unlock" /\ E.port = p)
<1> USE DEF ShownOK
<1>1. CASE \/ HandlePresence \/ HandleReadOk \/ HandleReadDenied \/ HandleReadForeign
           \/ HandleReadError \/ HandleSteps \/ HandleWritten \/ HandleNotRelocked
           \/ HandleInstalled
  BY <1>1 DEF HandlePresence, HandleReadOk, HandleReadDenied, HandleReadForeign,
     HandleReadError, HandleSteps, HandleWritten, HandleNotRelocked, HandleInstalled, Takes, E
<1>2. CASE HandleLocked
  <2>1. locked'[p] = Relisted(E.list, p)
    BY <1>2 DEF HandleLocked
  <2>2. locked[p] = "unlocking"
    BY <2>1 DEF Relisted, LeftAlone
  <2> QED
    BY <1>2, <2>2 DEF HandleLocked, Takes, E
<1>3. CASE HandleRefused \/ HandleUnplugged \/ HandleRelocked
  BY <1>3 DEF HandleRefused, HandleUnplugged, HandleRelocked, Takes, E
<1>4. CASE HandleUnlocked
  <2>1. locked' = [locked EXCEPT ![E.port] = "absent"]
    BY <1>4 DEF HandleUnlocked
  <2>2. E.port # p /\ locked[p] = "unlocking"
    BY <2>1
  <2> QED
    BY <1>4, <2>2 DEF HandleUnlocked, Takes
<1>5. CASE HandleNotUnlocked
  <2>1. E \in Event /\ E.type = "unlock"
    BY <1>5, TakenEvent DEF HandleNotUnlocked
  <2>2. E.result \in UnlockResult
    BY <2>1, EventFields
  <2>3. E.result # "unlocking"
    BY <2>2 DEF UnlockResult
  <2>4. E.port # p /\ locked[p] = "unlocking"
    <3>1. CASE locked[E.port] = "absent"
      BY <1>5, <3>1 DEF HandleNotUnlocked, set_lock_status
    <3>2. CASE locked[E.port] # "absent"
      <4>1. locked' = [locked EXCEPT ![E.port] = E.result]
        BY <1>5, <3>2 DEF HandleNotUnlocked, set_lock_status
      <4> HIDE DEF E
      <4> QED
        BY <2>3, <4>1
    <3> QED
      BY <3>1, <3>2
  <2> QED
    BY <1>5, <2>4 DEF HandleNotUnlocked, Takes
<1> QED
  BY <1>1, <1>2, <1>3, <1>4, <1>5 DEF Handle

LEMMA HandleKeeps ==
  ASSUME TypeOK, ShownOK, Awaited, Handle, NEW p \in Port, locked'[p] = "unlocking"
  PROVE  OnTheWay(p)'
<1>1. /\ locked[p] = "unlocking"
      /\ evts # <<>> /\ evts' = Tail(evts)
      /\ ~(E.type = "unlock" /\ E.port = p)
  BY HandlersAnswer
<1>2. OnTheWay(p)
  BY <1>1 DEF Awaited
<1>3. CASE cmd = UnlockOf(p)
  BY <1>3 DEF Handle, OnTheWay, UnlockOf
<1>4. CASE Queued(p)
  <2>1. PICK s \in Seq(Command) : cmds' = cmds \o s
    BY HandleTyped DEF Sends, Send
  <2> QED
    BY <1>4, <2>1, QueuedStays DEF TypeOK, OnTheWay
<1>5. CASE AnswerSent(p)
  <2>1. PICK i \in 1..Len(evts) : evts[i].type = "unlock" /\ evts[i].port = p
    BY <1>5 DEF AnswerSent
  <2>2. i # 1
    BY <1>1, <2>1 DEF E
  <2>3. evts \in Seq(Event)
    BY DEF TypeOK, ChannelsOK
  <2>4. i - 1 \in 1..Len(evts') /\ evts'[i - 1] = evts[i]
    BY <1>1, <2>1, <2>2, <2>3, HeadTailProperties
  <2> QED
    BY <2>1, <2>4 DEF OnTheWay, AnswerSent
<1> QED
  BY <1>2, <1>3, <1>4, <1>5 DEF OnTheWay

\* A click that shows a pad as unlocking sends its unlock.
LEMMA UserKeeps ==
  ASSUME TypeOK, ShownOK, Awaited, User, NEW p \in Port, locked'[p] = "unlocking"
  PROVE  OnTheWay(p)'
<1>1. cmd' = cmd /\ evts' = evts
  BY DEF User, Click, ClickCheckAgain, ClickInstall, ClickWrite, ClickUnlock, ClickRelock,
     ClickTryAgain
<1>2. PICK s \in Seq(Command) : cmds' = cmds \o s
  BY UserTyped DEF Sends, Send
<1>3. CASE locked[p] = "unlocking"
  <2>1. OnTheWay(p)
    BY <1>3 DEF Awaited
  <2>2. CASE cmd = UnlockOf(p)
    BY <1>1, <2>2 DEF OnTheWay, UnlockOf
  <2>3. CASE Queued(p)
    BY <1>2, <2>3, QueuedStays DEF TypeOK, OnTheWay
  <2>4. CASE AnswerSent(p)
    BY <1>1, <2>4 DEF OnTheWay, AnswerSent
  <2> QED
    BY <2>1, <2>2, <2>3, <2>4 DEF OnTheWay
<1>4. CASE locked[p] # "unlocking"
  <2>1. \/ ClickCheckAgain /\ locked[p] = "denied"
        \/ ClickUnlock(p)
    BY <1>4 DEF User, ClickCheckAgain, ClickInstall, ClickWrite, ClickUnlock, ClickRelock,
       ClickTryAgain, ShownOK
  <2>2. CASE ClickUnlock(p)
    <3>1. cmds' = cmds \o <<UnlockOf(p)>> /\ cmds \in Seq(Command)
      BY <2>2 DEF ClickUnlock, Send, UnlockOf, TypeOK, ChannelsOK
    <3>2. Len(cmds) + 1 \in 1..Len(cmds') /\ cmds'[Len(cmds) + 1] = UnlockOf(p)
      BY <3>1
    <3> QED
      BY <3>2 DEF OnTheWay, Queued, UnlockOf
  <2>3. CASE ClickCheckAgain /\ locked[p] = "denied"
    <3>1. PICK u \in Seq(Command), r \in Seq(Command) :
             /\ Send(u \o r)
             /\ \A q \in Port : locked[q] = "denied" =>
                  \E i \in 1..Len(u) : u[i] = [op |-> "unlock", port |-> q]
      BY <2>3, CheckAgainSends
    <3>2. PICK i \in 1..Len(u) : u[i] = UnlockOf(p)
      BY <2>3, <3>1 DEF UnlockOf
    <3> DEFINE v == u \o r
    <3>3. v \in Seq(Command) /\ i \in 1..Len(v) /\ v[i] = UnlockOf(p)
      BY <3>2
    <3>4. cmds' = cmds \o v /\ cmds \in Seq(Command)
      BY <3>1 DEF Send, TypeOK, ChannelsOK
    <3> HIDE DEF v
    <3>5. Len(cmds) + i \in 1..Len(cmds') /\ cmds'[Len(cmds) + i] = UnlockOf(p)
      BY <3>3, <3>4
    <3> QED
      BY <3>5 DEF OnTheWay, Queued, UnlockOf
  <2> QED
    BY <2>1, <2>2, <2>3
<1> QED
  BY <1>3, <1>4

LEMMA StepAwaits == DeskTypeOK /\ Awaited /\ [Next]_vars => Awaited'
<1> SUFFICES ASSUME DeskTypeOK, Awaited, [Next]_vars, NEW p \in Port, locked'[p] = "unlocking"
             PROVE  OnTheWay(p)'
  BY DEF Awaited
<1>1. TypeOK /\ ShownOK
  BY DEF DeskTypeOK, WindowOK, ShownOK, Controllers
<1>2. CASE User
  BY <1>1, <1>2, UserKeeps
<1>3. CASE Handle
  BY <1>1, <1>3, HandleKeeps
<1>4. CASE UNCHANGED window /\ [Work \/ \E q \in Port : Move(q)]_wvars
  <2>1. OnTheWay(p)
    BY <1>4 DEF window, Awaited
  <2>2. CASE UNCHANGED <<cmd, cmds, evts>>
    BY <2>1, <2>2 DEF OnTheWay, Queued, AnswerSent, UnlockOf
  <2>3. CASE Poll
    BY <1>1, <2>1, <2>3, PollKeeps
  <2>4. CASE Take
    BY <1>1, <2>1, <2>4, TakeKeeps
  <2>5. CASE CommandEnds
    <3>1. TypeOK'
      BY <1>1, <2>5, WorkTyped DEF Work
    <3> QED
      BY <1>1, <2>1, <2>5, <3>1, CommandEndKeeps
  <2>6. ASSUME NEW q \in Port, Move(q) PROVE UNCHANGED <<cmd, cmds, evts>>
    BY <2>6 DEF Move
  <2> QED
    BY <1>4, <2>2, <2>3, <2>4, <2>5, <2>6 DEF Work, wvars
<1> QED
  BY <1>2, <1>3, <1>4 DEF Next, Bus, Worker, vars

LEMMA AwaitedIsAnswered == TypeOK /\ Awaited => UnlockingIsAnswered
<1> SUFFICES ASSUME TypeOK, Awaited PROVE UnlockingIsAnswered
  OBVIOUS
<1>1. DOMAIN cmds = 1..Len(cmds) /\ DOMAIN evts = 1..Len(evts)
  BY DEF TypeOK, ChannelsOK
<1> QED
  BY <1>1 DEF Awaited, OnTheWay, Queued, AnswerSent, UnlockOf, UnlockingIsAnswered

\* For every number of ports and clicks: a panel that says that its pad unlocks, and takes
\* no click meanwhile, has its answer on the way.
THEOREM UnlockAnswered == Spec => []UnlockingIsAnswered
<1>1. Init => Awaited
  BY DEF Init, Awaited
<1>2. DeskTypeOK => TypeOK
  BY DEF DeskTypeOK
<1> QED
  BY <1>1, <1>2, DeskTypeCorrect, StepAwaits, AwaitedIsAnswered, PTL DEF Spec

-------------------------------------------------------------------------------
(***************************************************************************)
(* What the window shows as present the worker counts as reported.  Some   *)
(* events tell that a pad is on a port in a mode, or that none is.  The    *)
(* last of them in the channel, or the window itself when none is, fits    *)
(* what the worker counts as reported, on each port that no command left   *)
(* in another mode without a word.                                         *)
(***************************************************************************)
\* The event tells of the presence on p, and in which mode; Nothing is gone.
Tells(e, p) ==
  \/ e.type = "presence" /\ e.port = p
  \/ e.type = "read" /\ e.port = p /\ e.result = "foreign"
  \/ e.type = "unlock" /\ e.port = p /\ e.result = "port"
  \/ e.type = "relock" /\ e.port = p /\ e.ok

ModeTold(e) == IF e.type \in {"presence", "unlock"} THEN e.mode ELSE Nothing

ModeShown(c) == IF c = Nothing THEN Nothing ELSE c.mode

\* m is no more than what r says.
Fits(m, r) == m = Nothing \/ m = ModeOf(r)

\* The channel es ends, for p, in what fits r; c is what the window shows so far.
LastFits(es, r, p) ==
  \A i \in 1..Len(es) :
    Tells(es[i], p) /\ (\A j \in 1..Len(es) : j > i => ~Tells(es[j], p)) => Fits(ModeTold(es[i]), r)

InLine(es, c, r, p) ==
  /\ LastFits(es, r, p)
  /\ (\A i \in 1..Len(es) : ~Tells(es[i], p)) => Fits(ModeShown(c), r)

\* Events that do not tell of p, while what is reported says no less.
LEMMA SilentKeeps ==
  ASSUME NEW es \in Seq(Event), NEW s \in Seq(Event), NEW c, NEW r, NEW q, NEW p,
         InLine(es, c, r, p), Fits(ModeOf(r), q), \A i \in 1..Len(s) : ~Tells(s[i], p)
  PROVE  es \o s \in Seq(Event) /\ InLine(es \o s, c, q, p)
<1> DEFINE n == Len(es)
           t == es \o s
<1>1. /\ t \in Seq(Event) /\ Len(t) = n + Len(s) /\ n \in Nat /\ Len(s) \in Nat
      /\ \A i \in 1..n : t[i] = es[i]
      /\ \A i \in n + 1..Len(t) : t[i] = s[i - n] /\ i - n \in 1..Len(s)
  OBVIOUS
<1> HIDE DEF n, t
<1>2. \A m : Fits(m, r) => Fits(m, q)
  BY DEF Fits
<1>3. \A i \in 1..Len(t) : Tells(t[i], p) => i \in 1..n /\ t[i] = es[i]
  <2> SUFFICES ASSUME NEW i \in 1..Len(t), Tells(t[i], p) PROVE i \in 1..n
    BY <1>1
  <2>1. i \in n + 1..Len(t) => ~Tells(t[i], p)
    BY <1>1
  <2> QED
    BY <1>1, <2>1
<1>4. LastFits(t, q, p)
  <2> SUFFICES ASSUME NEW i \in 1..Len(t), Tells(t[i], p),
                      \A j \in 1..Len(t) : j > i => ~Tells(t[j], p)
               PROVE  Fits(ModeTold(t[i]), q)
    BY DEF LastFits
  <2>1. i \in 1..n /\ t[i] = es[i]
    BY <1>3
  <2>2. \A j \in 1..n : j > i => ~Tells(es[j], p)
    BY <1>1
  <2>3. Fits(ModeTold(es[i]), r)
    BY <2>1, <2>2 DEF InLine, LastFits, n
  <2> QED
    BY <1>2, <2>1, <2>3
<1>5. (\A i \in 1..Len(t) : ~Tells(t[i], p)) => Fits(ModeShown(c), q)
  <2> SUFFICES ASSUME \A i \in 1..Len(t) : ~Tells(t[i], p) PROVE Fits(ModeShown(c), q)
    OBVIOUS
  <2>1. \A i \in 1..n : ~Tells(es[i], p)
    BY <1>1
  <2> QED
    BY <1>2, <2>1 DEF InLine, n
<1> QED
  BY <1>1, <1>4, <1>5 DEF InLine, t

\* Events that tell of p what fits.
LEMMA TellingKeeps ==
  ASSUME NEW es \in Seq(Event), NEW s \in Seq(Event), NEW c, NEW q, NEW p,
         \E i \in 1..Len(s) : Tells(s[i], p),
         \A i \in 1..Len(s) : Tells(s[i], p) => Fits(ModeTold(s[i]), q)
  PROVE  es \o s \in Seq(Event) /\ InLine(es \o s, c, q, p)
<1> DEFINE n == Len(es)
           t == es \o s
<1>1. /\ t \in Seq(Event) /\ Len(t) = n + Len(s) /\ n \in Nat /\ Len(s) \in Nat
      /\ \A i \in n + 1..Len(t) : t[i] = s[i - n] /\ i - n \in 1..Len(s)
      /\ \A i \in 1..Len(s) : t[n + i] = s[i] /\ n + i \in n + 1..Len(t)
  OBVIOUS
<1> HIDE DEF n, t
<1>2. PICK k \in 1..Len(s) : Tells(s[k], p)
  OBVIOUS
<1>3. n + k \in 1..Len(t) /\ Tells(t[n + k], p)
  BY <1>1, <1>2
<1>4. LastFits(t, q, p)
  <2> SUFFICES ASSUME NEW i \in 1..Len(t), Tells(t[i], p),
                      \A j \in 1..Len(t) : j > i => ~Tells(t[j], p)
               PROVE  Fits(ModeTold(t[i]), q)
    BY DEF LastFits
  <2>1. ~(n + k > i)
    BY <1>3
  <2>2. i \in n + 1..Len(t)
    BY <1>1, <2>1
  <2> QED
    BY <1>1, <2>2
<1> QED
  BY <1>1, <1>3, <1>4 DEF InLine, t

\* The window takes the first event, and shows what that tells, or what it did.
LEMMA TakingKeeps ==
  ASSUME NEW es \in Seq(Event), es # <<>>, NEW c, NEW d, NEW r, NEW p, InLine(es, c, r, p),
         Tells(Head(es), p) => ModeShown(d) \in {Nothing, ModeTold(Head(es))},
         ~Tells(Head(es), p) => ModeShown(d) \in {Nothing, ModeShown(c)}
  PROVE  InLine(Tail(es), d, r, p)
<1> DEFINE t == Tail(es)
<1>1. /\ t \in Seq(Event) /\ Len(es) = Len(t) + 1 /\ Len(t) \in Nat
      /\ \A i \in 1..Len(t) : t[i] = es[i + 1] /\ i + 1 \in 1..Len(es)
      /\ \A i \in 1..Len(es) : i # 1 => i - 1 \in 1..Len(t) /\ es[i] = t[i - 1]
      /\ Head(es) = es[1] /\ 1 \in 1..Len(es)
  BY HeadTailProperties
<1> HIDE DEF t
<1>2. LastFits(t, r, p)
  <2> SUFFICES ASSUME NEW i \in 1..Len(t), Tells(t[i], p),
                      \A j \in 1..Len(t) : j > i => ~Tells(t[j], p)
               PROVE  Fits(ModeTold(t[i]), r)
    BY DEF LastFits
  <2>1. ASSUME NEW j \in 1..Len(es), j > i + 1 PROVE ~Tells(es[j], p)
    <3>1. j - 1 \in 1..Len(t) /\ es[j] = t[j - 1] /\ j - 1 > i
      BY <1>1, <2>1
    <3> QED
      BY <3>1
  <2> QED
    BY <1>1, <2>1 DEF InLine, LastFits
<1>3. (\A i \in 1..Len(t) : ~Tells(t[i], p)) => Fits(ModeShown(d), r)
  <2> SUFFICES ASSUME \A i \in 1..Len(t) : ~Tells(t[i], p) PROVE Fits(ModeShown(d), r)
    OBVIOUS
  <2>1. \A i \in 1..Len(es) : i # 1 => ~Tells(es[i], p)
    BY <1>1
  <2>2. CASE Tells(Head(es), p)
    <3>1. Fits(ModeTold(Head(es)), r)
      BY <1>1, <2>1, <2>2 DEF InLine, LastFits
    <3> QED
      BY <2>2, <3>1 DEF Fits
  <2>3. CASE ~Tells(Head(es), p)
    <3>1. \A i \in 1..Len(es) : ~Tells(es[i], p)
      BY <1>1, <2>1, <2>3
    <3>2. Fits(ModeShown(c), r)
      BY <3>1 DEF InLine
    <3> QED
      BY <2>3, <3>2 DEF Fits
  <2> QED
    BY <2>2, <2>3
<1> QED
  BY <1>2, <1>3 DEF InLine, t

News == \A p \in Port \ untold : InLine(evts, ctl[p], reported[p], p)

\* One event that the worker sends.
LEMMA EmittedFits ==
  ASSUME ChannelsOK, NEW p \in Port, NEW e \in Event, Emit(e), ctl' = ctl,
         Tells(e, p) => Fits(ModeTold(e), reported'[p]),
         ~Tells(e, p) => InLine(evts, ctl[p], reported[p], p) /\ Fits(ModeOf(reported[p]), reported'[p])
  PROVE  InLine(evts', ctl'[p], reported'[p], p)
<1> DEFINE s == <<e>>
<1>1. s \in Seq(Event) /\ Len(s) = 1 /\ s[1] = e /\ evts' = evts \o s /\ evts \in Seq(Event)
  BY DEF Emit, ChannelsOK
<1> HIDE DEF s
<1>2. CASE Tells(e, p)
  <2>1. (\E i \in 1..Len(s) : Tells(s[i], p)) /\ \A i \in 1..Len(s) : s[i] = e
    BY <1>1, <1>2
  <2>2. InLine(evts \o s, ctl[p], reported'[p], p)
    BY <1>1, <1>2, <2>1, TellingKeeps
  <2> QED
    BY <1>1, <2>2
<1>3. CASE ~Tells(e, p)
  <2>1. \A i \in 1..Len(s) : ~Tells(s[i], p)
    BY <1>1, <1>3
  <2>2. InLine(evts \o s, ctl[p], reported'[p], p)
    BY <1>1, <1>3, <2>1, SilentKeeps
  <2> QED
    BY <1>1, <2>2
<1> QED
  BY <1>2, <1>3

LEMMA FitsItself == \A m, r : Fits(Nothing, r) /\ Fits(ModeOf(r), r)
BY DEF Fits

\* Only port q is told of, and only there what is reported changes.
LEMMA EmittedNews ==
  ASSUME TypeOK, News, ctl' = ctl, NEW q \in Port, NEW e \in Event, Emit(e),
         \A p \in Port : Tells(e, p) => p = q,
         \A p \in Port : p # q => reported'[p] = reported[p] /\ (p \in untold' <=> p \in untold),
         Tells(e, q) => Fits(ModeTold(e), reported'[q]),
         ~Tells(e, q) /\ q \notin untold' => q \notin untold /\ Fits(ModeOf(reported[q]), reported'[q])
  PROVE  News'
<1> SUFFICES ASSUME NEW p \in Port, p \notin untold'
             PROVE  InLine(evts', ctl'[p], reported'[p], p)
  BY DEF News
<1>1. ChannelsOK /\ (p \notin untold => InLine(evts, ctl[p], reported[p], p))
  BY DEF News, TypeOK
<1>2. Tells(e, p) => Fits(ModeTold(e), reported'[p])
  OBVIOUS
<1>3. ~Tells(e, p) => p \notin untold /\ Fits(ModeOf(reported[p]), reported'[p])
  <2>1. CASE p = q
    BY <2>1
  <2>2. CASE p # q
    BY <2>2, FitsItself
  <2> QED
    BY <2>1, <2>2
<1> QED
  BY <1>1, <1>2, <1>3, EmittedFits

\* What is reported stays.
LEMMA StillNews ==
  ASSUME TypeOK, News, ctl' = ctl, UNCHANGED debounce, NEW q \in Port, NEW e \in Event, Emit(e),
         \A p \in Port : Tells(e, p) => p = q,
         Tells(e, q) => ModeTold(e) = Nothing
  PROVE  News'
<1>1. reported' = reported /\ untold' = untold
  BY DEF debounce
<1> QED
  BY <1>1, FitsItself, EmittedNews

\* The pad went away under a read: nothing is reported, and the window told.
LEMMA DisconnectedNews ==
  ASSUME TypeOK, News, ctl' = ctl, NEW q \in Port, Disconnected(q)
  PROVE  News'
<1> DEFINE e == [type |-> "presence", port |-> q, mode |-> Nothing]
<1>1. reported' = [reported EXCEPT ![q] = Nothing] /\ untold' = untold \ {q} /\ Emit(e)
  BY DEF Disconnected, forget
<1>2. reported \in [Port -> Sighting \cup {Nothing}]
  BY DEF TypeOK, DebounceOK
<1>3. \A p \in Port : p # q => reported'[p] = reported[p] /\ (p \in untold' <=> p \in untold)
  BY <1>1, <1>2
<1>4. /\ e \in Event /\ Tells(e, q) /\ ModeTold(e) = Nothing
      /\ \A p \in Port : Tells(e, p) => p = q
  BY DEF Event, Tells, ModeTold
<1> HIDE DEF e
<1> QED
  BY <1>1, <1>3, <1>4, FitsItself, EmittedNews

LEMMA ReadNews ==
  ASSUME TypeOK, News, ctl' = ctl, NEW q \in Port, ReadEnds(q) \/ StepsEnd(q)
  PROVE  News'
<1>1. CASE Disconnected(q)
  BY <1>1, DisconnectedNews
<1>2. CASE \E r \in Answer(q) :
              /\ Emit([type |-> "read", port |-> q, result |-> r, num |-> Number(q)])
              /\ UNCHANGED debounce
  <2>1. PICK r \in Answer(q) :
          Emit([type |-> "read", port |-> q, result |-> r, num |-> Number(q)]) /\ UNCHANGED debounce
    BY <1>2
  <2> DEFINE e == [type |-> "read", port |-> q, result |-> r, num |-> Number(q)]
  <2>2. e \in Event
    <3>1. r \in ReadResult
      BY DEF Answer, ReadResult
    <3>2. Number(q) \in Nat
      BY DEF Number, TypeOK, PadsOK, Pad
    <3> QED
      BY <3>1, <3>2 DEF Event
  <2>3. ModeTold(e) = Nothing /\ \A p \in Port : Tells(e, p) => p = q
    BY DEF ModeTold, Tells
  <2>4. Emit(e) /\ UNCHANGED debounce
    BY <2>1
  <2> HIDE DEF e
  <2> QED
    BY <2>2, <2>3, <2>4, StillNews
<1>3. CASE \E ok \in BOOLEAN :
              Emit([type |-> "steps", port |-> q, ok |-> ok]) /\ UNCHANGED debounce
  <2>1. PICK ok \in BOOLEAN :
          Emit([type |-> "steps", port |-> q, ok |-> ok]) /\ UNCHANGED debounce
    BY <1>3
  <2> DEFINE e == [type |-> "steps", port |-> q, ok |-> ok]
  <2>2. e \in Event /\ \A p \in Port : ~Tells(e, p)
    BY DEF Event, Tells
  <2>3. Emit(e) /\ UNCHANGED debounce
    BY <2>1
  <2> HIDE DEF e
  <2> QED
    BY <2>2, <2>3, StillNews
<1> QED
  BY <1>1, <1>2, <1>3 DEF ReadEnds, StepsEnd

\* The pad on q counts as reported as it is now; if no event tells of it, q is one of the
\* untold, or the pad is in the mode it was reported in.
LEMMA SeenChanges ==
  ASSUME TypeOK, NEW q \in Port, NEW t \in BOOLEAN, mark_seen(q, t)
  PROVE  /\ reported'[q] = Scanned(q)'
         /\ \A p \in Port : p # q => reported'[p] = reported[p] /\ (p \in untold' <=> p \in untold)
         /\ ~t /\ q \notin untold' => q \notin untold /\ Fits(ModeOf(reported[q]), reported'[q])
<1>1. reported' = [reported EXCEPT ![q] = Scanned(q)'] /\ reported \in [Port -> Sighting \cup {Nothing}]
  BY DEF mark_seen, TypeOK, DebounceOK
<1>2. PICK x : x = Scanned(q)'
  OBVIOUS
<1> HIDE DEF Scanned
<1>3. reported'[q] = x /\ \A p \in Port : p # q => reported'[p] = reported[p]
  BY <1>1, <1>2
<1>4. ModeOf(Scanned(q))' = ModeOf(x)
  BY <1>2 DEF ModeOf
<1>5. untold' = IF t THEN untold \ {q}
                ELSE IF ModeOf(x) = ModeOf(reported[q]) THEN untold ELSE untold \cup {q}
  BY <1>4 DEF mark_seen
<1>6. ~t /\ q \notin untold' => q \notin untold /\ ModeOf(reported[q]) = ModeOf(x)
  BY <1>5
<1> QED
  BY <1>2, <1>3, <1>5, <1>6 DEF Fits

LEMMA WriteNews ==
  ASSUME TypeOK, News, ctl' = ctl, NEW q \in Port, WriteEnds(q)
  PROVE  News'
<1> DEFINE e == [type |-> "written", port |-> q]
<1>1. mark_seen(q, FALSE) /\ Emit(e)
  BY DEF WriteEnds
<1>2. e \in Event /\ \A p \in Port : ~Tells(e, p)
  BY DEF Event, Tells
<1> HIDE DEF e
<1>3. /\ \A p \in Port : p # q => reported'[p] = reported[p] /\ (p \in untold' <=> p \in untold)
      /\ q \notin untold' => q \notin untold /\ Fits(ModeOf(reported[q]), reported'[q])
  BY <1>1, SeenChanges
<1> QED
  BY <1>1, <1>2, <1>3, EmittedNews

LEMMA UnlockNews ==
  ASSUME TypeOK, TypeOK', News, ctl' = ctl, NEW q \in Port, UnlockEnds(q)
  PROVE  News'
<1>1. PICK r \in UnlockResult :
        /\ mark_seen(q, r = "port")
        /\ Emit([type |-> "unlock", port |-> q, result |-> r, mode |-> ModeOf(Scanned(q))'])
  BY DEF UnlockEnds
<1> DEFINE t == r = "port"
<1>2. t \in BOOLEAN /\ mark_seen(q, t) /\ (r = "port" <=> t)
  BY <1>1
<1> HIDE DEF t
<1>3. PICK m : m = ModeOf(Scanned(q)')
  OBVIOUS
<1> DEFINE e == [type |-> "unlock", port |-> q, result |-> r, mode |-> m]
<1>4. m \in Mode \cup {Nothing} /\ Emit(e)
  <2>1. ModeOf(Scanned(q))' = m
    BY <1>3 DEF ModeOf
  <2>2. PadsOK' /\ DebounceOK
    BY DEF TypeOK
  <2>3. ModeOf(Scanned(q))' \in Mode \cup {Nothing}
    BY <1>2, <2>2, MarkSeenTyped
  <2> QED
    BY <1>1, <2>1, <2>3
<1>5. /\ e \in Event /\ ModeTold(e) = m
      /\ \A p \in Port : Tells(e, p) => p = q
      /\ Tells(e, q) <=> t
  BY <1>2, <1>4 DEF Event, Tells, ModeTold
<1> HIDE DEF e
<1>6. /\ reported'[q] = Scanned(q)'
      /\ \A p \in Port : p # q => reported'[p] = reported[p] /\ (p \in untold' <=> p \in untold)
      /\ ~t /\ q \notin untold' => q \notin untold /\ Fits(ModeOf(reported[q]), reported'[q])
  BY <1>2, SeenChanges
<1>7. Fits(m, reported'[q])
  BY <1>3, <1>6 DEF Fits
<1> QED
  BY <1>4, <1>5, <1>6, <1>7, EmittedNews

LEMMA RelockNews ==
  ASSUME TypeOK, News, ctl' = ctl, NEW q \in Port, RelockEnds(q)
  PROVE  News'
<1>1. PICK ok \in BOOLEAN :
        /\ Emit([type |-> "relock", port |-> q, ok |-> ok])
        /\ IF ok THEN mark_seen(q, TRUE) ELSE UNCHANGED debounce
  BY DEF RelockEnds
<1> DEFINE e == [type |-> "relock", port |-> q, ok |-> ok]
<1>2. /\ e \in Event /\ Emit(e) /\ ModeTold(e) = Nothing
      /\ \A p \in Port : Tells(e, p) => p = q
      /\ ok => Tells(e, q)
  BY <1>1 DEF Event, Tells, ModeTold
<1> HIDE DEF e
<1>3. CASE ok
  <2>1. \A p \in Port : p # q => reported'[p] = reported[p] /\ (p \in untold' <=> p \in untold)
    BY <1>1, <1>3, SeenChanges
  <2> QED
    BY <1>2, <1>3, <2>1, FitsItself, EmittedNews
<1>4. CASE ~ok
  BY <1>1, <1>2, <1>4, StillNews
<1> QED
  BY <1>3, <1>4

LEMMA InstallNews ==
  ASSUME TypeOK, News, ctl' = ctl, InstallEnds
  PROVE  News'
<1>1. PICK ok \in BOOLEAN : Emit([type |-> "installed", ok |-> ok])
  BY DEF InstallEnds
<1> DEFINE e == [type |-> "installed", ok |-> ok]
<1>2. e \in Event /\ Emit(e) /\ \A p \in Port : ~Tells(e, p)
  BY <1>1 DEF Event, Tells
<1> HIDE DEF e
<1>3. reported' = reported /\ untold' = untold
  BY DEF InstallEnds, debounce
<1> SUFFICES ASSUME NEW p \in Port, p \notin untold
             PROVE  InLine(evts', ctl'[p], reported'[p], p)
  BY <1>3 DEF News
<1>4. InLine(evts, ctl[p], reported[p], p) /\ ChannelsOK
  BY DEF News, TypeOK
<1>5. Fits(ModeOf(reported[p]), reported'[p])
  BY <1>3, FitsItself
<1> QED
  BY <1>2, <1>4, <1>5, EmittedFits

LEMMA CommandNews ==
  ASSUME TypeOK, TypeOK', News, ctl' = ctl, CommandEnds
  PROVE  News'
BY ReadNews, WriteNews, UnlockNews, RelockNews, InstallNews DEF CommandEnds

\* A poll tells of each port whose reported pad it changes, last of all.
LEMMA PollNews ==
  ASSUME TypeOK, News, ctl' = ctl, Poll
  PROVE  News'
<1> SUFFICES ASSUME NEW p \in Port, p \notin untold'
             PROVE  InLine(evts', ctl'[p], reported'[p], p)
  BY DEF News
<1>1. PICK u \in Perms(Unplugged), r \in Perms(RefusedNews), s \in Perms(Presences) :
        evts' = evts \o u \o LockedNews \o r \o s
  BY DEF Poll
<1>2. /\ u \in Seq(Unplugged) /\ r \in Seq(RefusedNews) /\ s \in Seq(Presences)
      /\ \A x \in Presences : \E i \in 1..Len(s) : s[i] = x
  <2>1. IsFiniteSet(Unplugged) /\ IsFiniteSet(RefusedNews) /\ IsFiniteSet(Presences)
    BY PollEventsFinite DEF TypeOK
  <2>2. u \in Seq(Unplugged) /\ r \in Seq(RefusedNews)
    BY <1>1, <2>1, PermsHoldAll
  <2>3. s \in Seq(Presences) /\ \A x \in Presences : \E i \in 1..Len(s) : s[i] = x
    BY <1>1, <2>1, PermsHoldAll
  <2> QED
    BY <2>2, <2>3
<1>3. u \in Seq(Event) /\ r \in Seq(Event) /\ s \in Seq(Event) /\ LockedNews \in Seq(Event)
  BY <1>2, PollEventsType DEF TypeOK
<1>4. evts \in Seq(Event)
  BY DEF TypeOK, ChannelsOK
<1>5. Fits(ModeOf(reported[p]), reported[p])
  BY FitsItself
<1>6. \A i \in 1..Len(u) : ~Tells(u[i], p)
  BY <1>2 DEF Unplugged, Tells
<1>7. \A i \in 1..Len(r) : ~Tells(r[i], p)
  BY <1>2 DEF RefusedNews, Tells
<1>8. \A i \in 1..Len(LockedNews) : ~Tells(LockedNews[i], p)
  BY DEF LockedNews, Tells
<1> DEFINE x == evts \o u
           y == x \o LockedNews
           z == y \o r
<1>9. x \in Seq(Event) /\ y \in Seq(Event) /\ z \in Seq(Event)
  BY <1>3, <1>4
<1>10. InLine(evts, ctl[p], reported[p], p) => InLine(z, ctl[p], reported[p], p)
  <2> SUFFICES ASSUME InLine(evts, ctl[p], reported[p], p)
               PROVE  InLine(z, ctl[p], reported[p], p)
    OBVIOUS
  <2>1. InLine(x, ctl[p], reported[p], p)
    BY <1>3, <1>4, <1>5, <1>6, SilentKeeps
  <2> HIDE DEF x
  <2>2. InLine(y, ctl[p], reported[p], p)
    BY <1>3, <1>5, <1>8, <1>9, <2>1, SilentKeeps
  <2> HIDE DEF y
  <2> QED
    BY <1>3, <1>5, <1>7, <1>9, <2>2, SilentKeeps
<1>11. evts' = z \o s
  BY <1>1
<1> HIDE DEF x, y, z
<1>12. /\ reported'[p] = IF Settles(p) THEN Found(p) ELSE reported[p]
       /\ ~Settles(p) => p \notin untold
  BY DEF Poll, observe
<1>13. ASSUME NEW i \in 1..Len(s), Tells(s[i], p)
       PROVE  Settles(p) /\ ModeTold(s[i]) = ModeOf(Found(p))
  <2>1. PICK q \in Port : Settles(q) /\ s[i] = [type |-> "presence", port |-> q, mode |-> ModeOf(Found(q))]
    BY <1>2 DEF Presences
  <2>2. q = p
    BY <1>13, <2>1 DEF Tells
  <2> QED
    BY <2>1, <2>2 DEF ModeTold
<1>14. CASE Settles(p)
  <2>1. [type |-> "presence", port |-> p, mode |-> ModeOf(Found(p))] \in Presences
    BY <1>14 DEF Presences
  <2>2. \E i \in 1..Len(s) : Tells(s[i], p)
    <3>1. PICK e : e = [type |-> "presence", port |-> p, mode |-> ModeOf(Found(p))]
      OBVIOUS
    <3>2. Tells(e, p)
      BY <3>1 DEF Tells
    <3>3. \E i \in 1..Len(s) : s[i] = e
      BY <1>2, <2>1, <3>1
    <3> QED
      BY <3>2, <3>3
  <2>3. \A i \in 1..Len(s) : Tells(s[i], p) => Fits(ModeTold(s[i]), reported'[p])
    BY <1>12, <1>13, <1>14 DEF Fits
  <2>4. InLine(z \o s, ctl[p], reported'[p], p)
    BY <1>3, <1>9, <2>2, <2>3, TellingKeeps
  <2> QED
    BY <1>11, <2>4
<1>15. CASE ~Settles(p)
  <2>1. \A i \in 1..Len(s) : ~Tells(s[i], p)
    BY <1>13, <1>15
  <2>2. InLine(evts, ctl[p], reported[p], p)
    BY <1>12, <1>15 DEF News
  <2>3. InLine(z \o s, ctl[p], reported[p], p)
    BY <1>3, <1>5, <1>9, <1>10, <2>1, <2>2, SilentKeeps
  <2> QED
    BY <1>11, <1>12, <1>15, <2>3
<1> QED
  BY <1>14, <1>15

-------------------------------------------------------------------------------
\* A handler shows on p the mode its event tells, or the mode it showed; or none.
Shows(p) ==
  /\ Tells(E, p) => ModeShown(ctl'[p]) \in {Nothing, ModeTold(E)}
  /\ ~Tells(E, p) => ModeShown(ctl'[p]) \in {Nothing, ModeShown(ctl[p])}

LEMMA SameShows ==
  ASSUME NEW p \in Port, ctl'[p] = ctl[p], ~Tells(E, p)
  PROVE  Shows(p)
BY DEF Shows

LEMMA PresenceShows ==
  ASSUME ctl \in Controllers, NEW q \in Port, NEW m \in Mode \cup {Nothing}, presence(q, m)
  PROVE  /\ ModeShown(ctl'[q]) \in {Nothing, m}
         /\ \A p \in Port : p # q => ctl'[p] = ctl[p]
<1>1. CASE m # Nothing
  <2>1. ctl' = [ctl EXCEPT ![q] = Appears(q, m)]
    BY <1>1 DEF presence
  <2>2. Appears(q, m).mode = m
    BY DEF Appears, Controllers, Controller
  <2> QED
    BY <2>1, <2>2 DEF ModeShown, Controllers
<1>2. CASE m = Nothing /\ ctl[q] = Nothing
  BY <1>2 DEF presence, ModeShown
<1>3. CASE m = Nothing /\ ctl[q] # Nothing
  <2>1. PICK c \in Gone([ctl[q] EXCEPT !.mode = Nothing, !.reading = FALSE, !.read_error = FALSE]) :
          ctl' = [ctl EXCEPT ![q] = c]
    BY <1>3 DEF presence
  <2>2. ModeShown(c) = Nothing
    BY <1>3, <2>1 DEF Gone, ModeShown, Controllers, Controller
  <2> QED
    BY <2>1, <2>2 DEF Controllers
<1> QED
  BY <1>1, <1>2, <1>3

\* Only the mode counts.
LEMMA ReadingShows ==
  ASSUME ctl \in Controllers, NEW q \in Port, NEW c, ctl' = [ctl EXCEPT ![q] = c],
         ctl[q] # Nothing => c.mode \in {Nothing, ctl[q].mode}, ctl[q] = Nothing => c = Nothing
  PROVE  \A p \in Port : ModeShown(ctl'[p]) \in {Nothing, ModeShown(ctl[p])}
BY DEF Controllers, ModeShown

LEMMA PresentReadingShows ==
  ASSUME ctl \in Controllers, ctl' = PresentReading
  PROVE  \A p \in Port : ModeShown(ctl'[p]) \in {Nothing, ModeShown(ctl[p])}
<1> SUFFICES ASSUME NEW p \in Port PROVE ModeShown(ctl'[p]) \in {Nothing, ModeShown(ctl[p])}
  OBVIOUS
<1>1. CASE p \in Present
  <2>1. ctl'[p] = [ctl[p] EXCEPT !.reading = TRUE] /\ ctl[p] # Nothing /\ ctl[p] \in Controller
    BY <1>1 DEF PresentReading, Present, Controllers
  <2>2. ctl'[p].mode = ctl[p].mode
    BY <2>1 DEF Controller
  <2> QED
    BY <2>1, <2>2 DEF ModeShown
<1>2. CASE p \notin Present
  BY <1>2 DEF PresentReading
<1> QED
  BY <1>1, <1>2

LEMMA ReadsShows ==
  ASSUME ctl \in Controllers, NEW q \in Port, Reads(q)
  PROVE  \A p \in Port : ModeShown(ctl'[p]) \in {Nothing, ModeShown(ctl[p])}
<1>1. CASE ctl[q] = Nothing
  BY <1>1 DEF Reads
<1>2. CASE ctl[q] # Nothing
  <2>1. PICK c : c = [ctl[q] EXCEPT !.reading = TRUE]
    OBVIOUS
  <2>2. ctl' = [ctl EXCEPT ![q] = c] /\ c.mode = ctl[q].mode
    BY <1>2, <2>1 DEF Reads, Controllers, Controller
  <2> QED
    BY <1>2, <2>2, ReadingShows
<1> QED
  BY <1>1, <1>2

LEMMA ReadFailedShows ==
  ASSUME ctl \in Controllers, NEW q \in Port, read_failed(q)
  PROVE  \A p \in Port : ModeShown(ctl'[p]) \in {Nothing, ModeShown(ctl[p])}
<1>1. CASE ctl[q] = Nothing
  BY <1>1 DEF read_failed
<1>2. CASE ctl[q] # Nothing
  <2>1. PICK c : c = [ctl[q] EXCEPT !.reading = FALSE, !.read_error = TRUE]
    OBVIOUS
  <2>2. ctl' = [ctl EXCEPT ![q] = c] /\ c.mode = ctl[q].mode
    BY <1>2, <2>1 DEF read_failed, Controllers, Controller
  <2> QED
    BY <1>2, <2>2, ReadingShows
<1> QED
  BY <1>1, <1>2

LEMMA ReadDeniedShows ==
  ASSUME ctl \in Controllers, NEW q \in Port,
         ctl' = IF ctl[q] = Nothing THEN ctl ELSE [ctl EXCEPT ![q].reading = FALSE]
  PROVE  \A p \in Port : ModeShown(ctl'[p]) \in {Nothing, ModeShown(ctl[p])}
<1>1. CASE ctl[q] = Nothing
  BY <1>1
<1>2. CASE ctl[q] # Nothing
  <2>1. PICK c : c = [ctl[q] EXCEPT !.reading = FALSE]
    OBVIOUS
  <2>2. ctl' = [ctl EXCEPT ![q] = c] /\ c.mode = ctl[q].mode
    BY <1>2, <2>1 DEF Controllers, Controller
  <2> QED
    BY <1>2, <2>2, ReadingShows
<1> QED
  BY <1>1, <1>2

LEMMA HandleShows ==
  ASSUME TypeOK, ShownOK, Handle, NEW p \in Port
  PROVE  Shows(p)
<1>0. ctl \in Controllers
  BY DEF ShownOK
<1>1. CASE HandlePresence
  <2>1. /\ E.type = "presence" /\ E.port \in Port /\ E.mode \in Mode \cup {Nothing}
        /\ presence(E.port, E.mode)
    BY <1>1, TakenEvent, EventFields DEF HandlePresence
  <2>2. /\ ModeShown(ctl'[E.port]) \in {Nothing, E.mode}
        /\ \A q \in Port : q # E.port => ctl'[q] = ctl[q]
    BY <1>0, <2>1, PresenceShows
  <2> HIDE DEF E
  <2> QED
    BY <2>1, <2>2 DEF Shows, Tells, ModeTold
<1>2. CASE HandleReadOk
  <2>1. E.type = "read" /\ E.result = "ok" /\ E.port \in Port
    BY <1>2, TakenEvent, EventFields DEF HandleReadOk
  <2>2. ~Tells(E, p)
    BY <2>1 DEF Tells
  <2>3. ModeShown(ctl'[p]) \in {Nothing, ModeShown(ctl[p])}
    <3>1. CASE ctl[E.port] = Nothing
      BY <1>2, <3>1 DEF HandleReadOk
    <3>2. CASE ctl[E.port] # Nothing
      <4>1. PICK c : c = [ctl[E.port] EXCEPT !.num = E.num, !.reading = FALSE, !.read_error = FALSE]
        OBVIOUS
      <4>2. c.mode = ctl[E.port].mode
        BY <1>0, <2>1, <3>2, <4>1 DEF Controllers, Controller
      <4>3. ctl' = [ctl EXCEPT ![E.port] = c]
        BY <1>0, <1>2, <2>1, <3>2, <4>1 DEF HandleReadOk, Controllers
      <4> HIDE DEF E
      <4> QED
        BY <1>0, <2>1, <3>2, <4>2, <4>3, ReadingShows
    <3> QED
      BY <3>1, <3>2
  <2> QED
    BY <2>2, <2>3 DEF Shows
<1>3. CASE HandleReadDenied
  <2>1. E.type = "read" /\ E.result = "denied" /\ E.port \in Port
    BY <1>3, TakenEvent, EventFields DEF HandleReadDenied
  <2>2. ~Tells(E, p)
    BY <2>1 DEF Tells
  <2>3. ModeShown(ctl'[p]) \in {Nothing, ModeShown(ctl[p])}
    BY <1>0, <1>3, <2>1, ReadDeniedShows DEF HandleReadDenied
  <2> QED
    BY <2>2, <2>3 DEF Shows
<1>4. CASE HandleReadForeign
  <2>1. E.type = "read" /\ E.result = "foreign" /\ E.port \in Port
    BY <1>4, TakenEvent, EventFields DEF HandleReadForeign
  <2>2. Tells(E, E.port) /\ ModeTold(E) = Nothing
    BY <2>1 DEF Tells, ModeTold
  <2>3. ModeShown(ctl'[E.port]) = Nothing /\ \A q \in Port : q # E.port => ctl'[q] = ctl[q]
    <3>1. CASE ctl[E.port] = Nothing
      BY <1>4, <3>1 DEF HandleReadForeign, ModeShown
    <3>2. CASE ctl[E.port] # Nothing
      <4>1. PICK c \in Gone([ctl[E.port] EXCEPT !.mode = Nothing, !.reading = FALSE]) :
              ctl' = [ctl EXCEPT ![E.port] = c]
        BY <1>4, <3>2 DEF HandleReadForeign
      <4>2. ModeShown(c) = Nothing
        BY <1>0, <2>1, <3>2, <4>1 DEF Gone, ModeShown, Controllers, Controller
      <4> HIDE DEF E
      <4> QED
        BY <1>0, <2>1, <4>1, <4>2 DEF Controllers
    <3> QED
      BY <3>1, <3>2
  <2> HIDE DEF E
  <2>4. CASE p = E.port
    BY <2>2, <2>3, <2>4 DEF Shows
  <2>5. CASE p # E.port
    BY <2>1, <2>3, <2>5, SameShows DEF Tells
  <2> QED
    BY <2>4, <2>5
<1>5. CASE HandleReadError \/ HandleSteps
  <2>1. E.type \in {"read", "steps"} /\ (E.type = "read" => E.result = "error") /\ E.port \in Port
    BY <1>5, TakenEvent, EventFields DEF HandleReadError, HandleSteps
  <2>2. ~Tells(E, p)
    BY <2>1 DEF Tells
  <2>3. ctl' = ctl \/ read_failed(E.port)
    BY <1>5 DEF HandleReadError, HandleSteps
  <2>4. ModeShown(ctl'[p]) \in {Nothing, ModeShown(ctl[p])}
    BY <1>0, <2>1, <2>3, ReadFailedShows
  <2> QED
    BY <2>2, <2>4 DEF Shows
<1>6. CASE HandleWritten
  <2>1. E.type = "written" /\ E.port \in Port
    BY <1>6, TakenEvent, EventFields DEF HandleWritten
  <2>2. ~Tells(E, p)
    BY <2>1 DEF Tells
  <2>3. ModeShown(ctl'[p]) \in {Nothing, ModeShown(ctl[p])}
    <3>1. CASE Reads(E.port)
      BY <1>0, <2>1, <3>1, ReadsShows
    <3>2. CASE Named(E.port) /\ ctl' = [ctl EXCEPT ![E.port].reading = TRUE]
      <4>1. PICK c : c = [ctl[E.port] EXCEPT !.reading = TRUE]
        OBVIOUS
      <4>2. ctl[E.port] # Nothing /\ c.mode = ctl[E.port].mode
        BY <1>0, <2>1, <3>2, <4>1 DEF Controllers, Controller, Named, Present
      <4>3. ctl' = [ctl EXCEPT ![E.port] = c]
        BY <1>0, <2>1, <3>2, <4>1 DEF Controllers
      <4> HIDE DEF E
      <4> QED
        BY <1>0, <2>1, <4>2, <4>3, ReadingShows
    <3> QED
      BY <1>6, <3>1, <3>2 DEF HandleWritten
  <2> QED
    BY <2>2, <2>3 DEF Shows
<1>7. CASE HandleLocked \/ HandleRefused \/ HandleUnplugged \/ HandleNotRelocked
  <2>1. ctl' = ctl /\ ~Tells(E, p)
    BY <1>7 DEF HandleLocked, HandleRefused, HandleUnplugged, HandleNotRelocked, Takes, E, Tells
  <2> QED
    BY <2>1, SameShows
<1>8. CASE HandleUnlocked
  <2>1. /\ E.type = "unlock" /\ E.port \in Port /\ E.mode \in Mode \cup {Nothing}
        /\ E.result = "port" /\ presence(E.port, E.mode)
    BY <1>8, TakenEvent, EventFields DEF HandleUnlocked
  <2>2. /\ ModeShown(ctl'[E.port]) \in {Nothing, E.mode}
        /\ \A q \in Port : q # E.port => ctl'[q] = ctl[q]
    BY <1>0, <2>1, PresenceShows
  <2> HIDE DEF E
  <2> QED
    BY <2>1, <2>2 DEF Shows, Tells, ModeTold
<1>9. CASE HandleNotUnlocked
  <2>1. E.type = "unlock" /\ E.result # "port" /\ E.port \in Port
    BY <1>9, TakenEvent, EventFields DEF HandleNotUnlocked
  <2>2. ~Tells(E, p)
    BY <2>1 DEF Tells
  <2>3. ModeShown(ctl'[p]) \in {Nothing, ModeShown(ctl[p])}
    <3>1. CASE E.result # "denied"
      BY <1>9, <3>1 DEF HandleNotUnlocked
    <3>2. CASE E.result = "denied"
      BY <1>0, <1>9, <2>1, <3>2, ReadDeniedShows DEF HandleNotUnlocked
    <3> QED
      BY <3>1, <3>2
  <2> QED
    BY <2>2, <2>3 DEF Shows
<1>10. CASE HandleRelocked
  <2>1. E.type = "relock" /\ E.ok /\ E.port \in Port
    BY <1>10, TakenEvent, EventFields DEF HandleRelocked
  <2>2. ctl'[E.port] = Nothing /\ \A q \in Port : q # E.port => ctl'[q] = ctl[q]
    BY <1>0, <1>10, <2>1 DEF HandleRelocked, Controllers
  <2> HIDE DEF E
  <2>3. CASE p = E.port
    BY <2>1, <2>2, <2>3 DEF Shows, ModeShown
  <2>4. CASE p # E.port
    BY <2>1, <2>2, <2>4, SameShows DEF Tells
  <2> QED
    BY <2>3, <2>4
<1>11. CASE HandleInstalled
  <2>1. ~Tells(E, p)
    BY <1>11 DEF HandleInstalled, Takes, E, Tells
  <2>2. ModeShown(ctl'[p]) \in {Nothing, ModeShown(ctl[p])}
    BY <1>0, <1>11, PresentReadingShows DEF HandleInstalled
  <2> QED
    BY <2>1, <2>2 DEF Shows
<1> QED
  BY <1>1, <1>2, <1>3, <1>4, <1>5, <1>6, <1>7, <1>8, <1>9, <1>10, <1>11 DEF Handle

LEMMA UserShows ==
  ASSUME ctl \in Controllers, User, NEW p \in Port
  PROVE  ModeShown(ctl'[p]) \in {Nothing, ModeShown(ctl[p])}
<1>1. ctl' = ctl \/ ctl' = PresentReading \/ \E q \in Port : Reads(q)
  BY DEF User, ClickCheckAgain, ClickInstall, ClickWrite, ClickUnlock, ClickRelock, ClickTryAgain
<1> QED
  BY <1>1, PresentReadingShows, ReadsShows

LEMMA HandleNews ==
  ASSUME TypeOK, ShownOK, News, Handle
  PROVE  News'
<1> SUFFICES ASSUME NEW p \in Port, p \notin untold'
             PROVE  InLine(evts', ctl'[p], reported'[p], p)
  BY DEF News
<1>1. evts # <<>> /\ evts' = Tail(evts) /\ reported' = reported /\ untold' = untold
  BY DEF Handle, HandlePresence, HandleReadOk, HandleReadDenied, HandleReadForeign,
     HandleReadError, HandleSteps, HandleWritten, HandleLocked, HandleRefused, HandleUnplugged,
     HandleUnlocked, HandleNotUnlocked, HandleRelocked, HandleNotRelocked, HandleInstalled, Takes,
     debounce
<1>2. evts \in Seq(Event) /\ InLine(evts, ctl[p], reported[p], p)
  BY <1>1 DEF TypeOK, ChannelsOK, News
<1>3. /\ Tells(Head(evts), p) => ModeShown(ctl'[p]) \in {Nothing, ModeTold(Head(evts))}
      /\ ~Tells(Head(evts), p) => ModeShown(ctl'[p]) \in {Nothing, ModeShown(ctl[p])}
  BY HandleShows DEF Shows, E
<1>4. InLine(Tail(evts), ctl'[p], reported[p], p)
  BY <1>1, <1>2, <1>3, TakingKeeps
<1> QED
  BY <1>1, <1>4

LEMMA UserNews ==
  ASSUME TypeOK, ShownOK, News, User
  PROVE  News'
<1> SUFFICES ASSUME NEW p \in Port, p \notin untold'
             PROVE  InLine(evts', ctl'[p], reported'[p], p)
  BY DEF News
<1>1. evts' = evts /\ reported' = reported /\ untold' = untold
  BY DEF User, Click, ClickCheckAgain, ClickInstall, ClickWrite, ClickUnlock, ClickRelock,
     ClickTryAgain, debounce
<1>2. InLine(evts, ctl[p], reported[p], p)
  BY <1>1 DEF News
<1>3. ModeShown(ctl'[p]) \in {Nothing, ModeShown(ctl[p])}
  BY UserShows DEF ShownOK
<1>4. InLine(evts, ctl'[p], reported[p], p)
  BY <1>2, <1>3 DEF InLine, Fits
<1> QED
  BY <1>1, <1>4

LEMMA InitNews == Init => News
<1> SUFFICES ASSUME Init PROVE News
  OBVIOUS
<1>1. evts = <<>> /\ \A p \in Port : ctl[p] = Nothing
  BY DEF Init, WInit
<1> QED
  BY <1>1 DEF News, InLine, LastFits, Fits, ModeShown

\* The inductive invariant is of the types and the news.
LEMMA StepNews == DeskTypeOK /\ News /\ [Next]_vars => News'
<1> SUFFICES ASSUME DeskTypeOK, News, [Next]_vars PROVE News'
  OBVIOUS
<1>1. TypeOK /\ ShownOK
  BY DEF DeskTypeOK, WindowOK, ShownOK, Controllers
<1>2. CASE evts' = evts /\ UNCHANGED debounce /\ ctl' = ctl
  BY <1>2 DEF News, debounce
<1>3. CASE UNCHANGED vars
  BY <1>2, <1>3 DEF vars, wvars, window
<1>4. CASE Bus
  BY <1>2, <1>4 DEF Bus, Move, window
<1>5. CASE Worker
  <2>1. ctl' = ctl /\ Work /\ TypeOK'
    BY <1>1, <1>5, WorkTyped DEF Worker, window
  <2>2. CASE Poll
    BY <1>1, <2>1, <2>2, PollNews
  <2>3. CASE Take
    BY <1>2, <2>1, <2>3 DEF Take
  <2>4. CASE CommandEnds
    BY <1>1, <2>1, <2>4, CommandNews
  <2> QED
    BY <2>1, <2>2, <2>3, <2>4 DEF Work
<1>6. CASE Handle \/ User
  BY <1>1, <1>6, HandleNews, UserNews
<1> QED
  BY <1>3, <1>4, <1>5, <1>6 DEF Next

\* Once the window has handled every event, it shows as present only what the worker
\* counts as reported, in the mode that it reported.
LEMMA NewsIsReported ==
  ASSUME News, evts = <<>>, NEW p \in Present, p \notin untold
  PROVE  reported[p] # Nothing /\ ctl[p].mode = reported[p].mode
<1>1. p \in Port /\ ctl[p] # Nothing /\ ctl[p].mode # Nothing
  BY DEF Present
<1>2. Fits(ModeShown(ctl[p]), reported[p])
  BY <1>1 DEF News, InLine
<1> QED
  BY <1>1, <1>2 DEF Fits, ModeShown, ModeOf

-------------------------------------------------------------------------------
(***************************************************************************)
(* A pad that was never read is being read, or its read failed or was      *)
(* denied.                                                                 *)
(***************************************************************************)
NumberRead(e) == e.type = "read" /\ e.result = "ok" => e.num # 0
NumbersRead == \A i \in 1..Len(evts) : NumberRead(evts[i])

\* d: the last answer of the pad was that the user may not open it.
SaysWhy(c, d) ==
  c # Nothing /\ c.mode # Nothing /\ c.num = 0 => c.reading \/ c.read_error \/ d

\* A pad has a device number.
Numbered == \A p \in Port : bus[p] # Nothing => bus[p].num # 0

Accounted == Numbered /\ NumbersRead /\ \A p \in Port : SaysWhy(ctl[p], p \in denied)

LEMMA EnumerateNumbers ==
  ASSUME PadsOK, Numbered, NEW p \in Port, NEW k \in Kind, NEW m \in Mode, Enumerate(p, k, m)
  PROVE  Numbered'
<1>1. devnum + 1 # 0 /\ devnum + 1 \in Nat
  BY DEF PadsOK
<1> DEFINE b == [kind |-> k, mode |-> m, num |-> devnum + 1]
<1>2. bus' = [bus EXCEPT ![p] = b] /\ bus \in [Port -> Pad \cup {Nothing}]
  BY DEF Enumerate, PadsOK
<1>3. b.num # 0
  BY <1>1
<1> HIDE DEF b
<1> QED
  BY <1>2, <1>3 DEF Numbered

LEMMA LeaveNumbers ==
  ASSUME PadsOK, Numbered, NEW p \in Port, Leave(p)
  PROVE  Numbered'
BY DEF PadsOK, Leave, Numbered

LEMMA StepNumbers ==
  ASSUME TypeOK, Numbered, Work \/ \E p \in Port : Move(p)
  PROVE  Numbered'
<1>1. bus' = bus => Numbered'
  BY DEF Numbered
<1>2. \A p \in Port, k \in Kind, m \in Mode : Enumerate(p, k, m) => Numbered'
  BY EnumerateNumbers DEF TypeOK
<1>3. \A p \in Port : Leave(p) => Numbered'
  BY LeaveNumbers DEF TypeOK
<1>4. ASSUME NEW p \in Port, Move(p) PROVE Numbered'
  <2>1. "config" \in Kind
    BY DEF Kind
  <2> QED
    BY <1>2, <1>3, <1>4, <2>1 DEF Move, Unplug, Plug, Slide
<1>5. CASE Poll \/ Take \/ InstallEnds
  BY <1>1, <1>5 DEF Poll, Take, InstallEnds, pads
<1>6. ASSUME NEW p \in Port, ReadEnds(p) \/ StepsEnd(p) PROVE Numbered'
  BY <1>1, <1>6 DEF ReadEnds, StepsEnd, pads
<1>7. ASSUME NEW p \in Port, WriteEnds(p) PROVE Numbered'
  <2>1. CASE /\ Is(p, {"config"}) /\ WriteVia[bus[p].mode] # Nothing
             /\ \E m \in {bus[p].mode, WriteVia[bus[p].mode]} : Enumerate(p, "config", m)
    <3>1. PICK m \in {bus[p].mode, WriteVia[bus[p].mode]} : Enumerate(p, "config", m)
      BY <2>1
    <3>2. bus[p].mode \in Mode
      BY <2>1 DEF TypeOK, PadsOK, Is, Pad
    <3>3. m \in Mode
      BY <2>1, <3>2, WriteAssumption
    <3>4. "config" \in Kind
      BY DEF Kind
    <3> QED
      BY <1>2, <3>1, <3>3, <3>4
  <2> QED
    BY <1>1, <1>3, <1>7, <2>1 DEF WriteEnds, Leaves
<1>8. ASSUME NEW p \in Port, UnlockEnds(p) PROVE Numbered'
  <2>1. PICK r \in UnlockResult : Unlocks(p, r)
    BY <1>8 DEF UnlockEnds
  <2> QED
    BY <1>1, <1>2, <1>3, <2>1, UnlocksCases
<1>9. ASSUME NEW p \in Port, RelockEnds(p) PROVE Numbered'
  <2>1. "locked" \in Kind
    BY DEF Kind
  <2>2. bus' = bus \/ Leave(p) \/ Enumerate(p, "locked", UnlockMode)
    BY <1>9 DEF RelockEnds
  <2> QED
    BY <1>1, <1>2, <1>3, <2>1, <2>2
<1> QED
  BY <1>4, <1>5, <1>6, <1>7, <1>8, <1>9 DEF Work, CommandEnds

LEMMA SentNumbers ==
  ASSUME NEW s \in Seq(Event), evts \in Seq(Event), evts' = evts \o s, NumbersRead,
         \A i \in 1..Len(s) : NumberRead(s[i])
  PROVE  NumbersRead'
<1>1. \A i \in 1..Len(evts') : \/ i \in 1..Len(evts) /\ evts'[i] = evts[i]
                               \/ i - Len(evts) \in 1..Len(s) /\ evts'[i] = s[i - Len(evts)]
  OBVIOUS
<1> QED
  BY <1>1 DEF NumbersRead, NumberRead

LEMMA PollNumbers ==
  ASSUME TypeOK, NumbersRead, Poll
  PROVE  NumbersRead'
<1>1. PICK u \in Perms(Unplugged), r \in Perms(RefusedNews), s \in Perms(Presences) :
        evts' = evts \o u \o LockedNews \o r \o s
  BY DEF Poll
<1>2. IsFiniteSet(Unplugged) /\ IsFiniteSet(RefusedNews) /\ IsFiniteSet(Presences)
  BY PollEventsFinite DEF TypeOK
<1>3. u \in Seq(Unplugged) /\ r \in Seq(RefusedNews) /\ s \in Seq(Presences)
  BY <1>1, <1>2, PermsHoldAll
<1> DEFINE F == {e \in Event : NumberRead(e)}
<1>4. u \in Seq(F) /\ LockedNews \in Seq(F) /\ r \in Seq(F) /\ s \in Seq(F)
  <2>1. Unplugged \subseteq F /\ RefusedNews \subseteq F /\ Presences \subseteq F
    BY PollEventsType DEF TypeOK, Unplugged, RefusedNews, Presences, NumberRead
  <2>2. LockedNews \in Seq(F)
    <3>1. LockedNews \in Seq(Event)
      BY PollEventsType DEF TypeOK
    <3>2. \A i \in 1..Len(LockedNews) : NumberRead(LockedNews[i])
      BY DEF LockedNews, NumberRead
    <3> QED
      BY <3>1, <3>2
  <2> HIDE DEF F
  <2> QED
    BY <1>3, <2>1, <2>2
<1>5. evts \in Seq(F)
  BY DEF TypeOK, ChannelsOK, NumbersRead
<1> HIDE DEF F
<1>6. evts \o u \in Seq(F)
  BY <1>4, <1>5
<1>7. (evts \o u) \o LockedNews \in Seq(F)
  BY <1>4, <1>6
<1>8. ((evts \o u) \o LockedNews) \o r \in Seq(F)
  BY <1>4, <1>7
<1>9. evts' \in Seq(F)
  BY <1>1, <1>4, <1>8
<1> QED
  BY <1>9 DEF F, NumbersRead, NumberRead

LEMMA CommandNumbers ==
  ASSUME TypeOK, TypeOK', Numbered, NumbersRead, CommandEnds
  PROVE  NumbersRead'
<1>1. \E e : Emit(e) /\ NumberRead(e)
  <2>1. CASE InstallEnds
    BY <2>1 DEF InstallEnds, NumberRead
  <2>2. ASSUME NEW q \in Port, StepsEnd(q) \/ WriteEnds(q) \/ UnlockEnds(q) \/ RelockEnds(q)
        PROVE  \E e : Emit(e) /\ NumberRead(e)
    <3>1. \A x : Emit(x) /\ x.type # "read" => \E e : Emit(e) /\ NumberRead(e)
      BY DEF NumberRead
    <3>2. CASE StepsEnd(q)
      BY <3>1, <3>2 DEF StepsEnd, Disconnected
    <3>3. CASE WriteEnds(q)
      BY <3>1, <3>3 DEF WriteEnds
    <3>4. CASE UnlockEnds(q)
      BY <3>1, <3>4 DEF UnlockEnds
    <3>5. CASE RelockEnds(q)
      BY <3>1, <3>5 DEF RelockEnds
    <3> QED
      BY <2>2, <3>2, <3>3, <3>4, <3>5
  <2>3. ASSUME NEW q \in Port, ReadEnds(q)
        PROVE  \E e : Emit(e) /\ NumberRead(e)
    <3>1. CASE Disconnected(q)
      BY <3>1 DEF Disconnected, NumberRead
    <3>2. ASSUME NEW r \in Answer(q),
                 Emit([type |-> "read", port |-> q, result |-> r, num |-> Number(q)])
          PROVE  \E e : Emit(e) /\ NumberRead(e)
      <4>1. r = "ok" => bus[q] # Nothing
        BY DEF Answer, Is
      <4>2. r = "ok" => Number(q) # 0
        BY <4>1 DEF Number, Numbered
      <4> QED
        BY <3>2, <4>2 DEF NumberRead
    <3> QED
      BY <2>3, <3>1, <3>2 DEF ReadEnds
  <2> QED
    BY <2>1, <2>2, <2>3 DEF CommandEnds
<1>2. PICK e : Emit(e) /\ NumberRead(e)
  BY <1>1
<1>3. evts \in Seq(Event) /\ evts' \in Seq(Event) /\ evts' = Append(evts, e)
  BY <1>2 DEF TypeOK, ChannelsOK, Emit
<1>4. Len(evts') = Len(evts) + 1 /\ evts'[Len(evts) + 1] = e
      /\ \A i \in 1..Len(evts) : evts'[i] = evts[i]
  BY <1>3
<1> QED
  BY <1>2, <1>3, <1>4 DEF NumbersRead, NumberRead

LEMMA TakenNumbers ==
  ASSUME evts \in Seq(Event), evts # <<>>, evts' = Tail(evts), NumbersRead
  PROVE  NumbersRead' /\ NumberRead(E)
<1>1. /\ \A i \in 1..Len(evts') : evts'[i] = evts[i + 1] /\ i + 1 \in 1..Len(evts)
      /\ Head(evts) = evts[1] /\ 1 \in 1..Len(evts)
  BY HeadTailProperties
<1> QED
  BY <1>1 DEF NumbersRead, NumberRead, E

\* Whatever is noted of its port.
LEMMA PresenceSays ==
  ASSUME ctl \in Controllers, NEW p \in Port, NEW m \in Mode \cup {Nothing}, presence(p, m), NEW d
  PROVE  SaysWhy(ctl'[p], d)
<1>1. CASE m # Nothing
  <2>1. ctl' = [ctl EXCEPT ![p] = Appears(p, m)]
    BY <1>1 DEF presence
  <2>2. Appears(p, m).reading
    BY DEF Appears, Controllers, Controller
  <2> QED
    BY <2>1, <2>2 DEF SaysWhy, Controllers
<1>2. CASE m = Nothing
  <2>1. ModeShown(ctl'[p]) = Nothing
    BY <1>2, PresenceShows
  <2> QED
    BY <2>1 DEF SaysWhy, ModeShown
<1> QED
  BY <1>1, <1>2

LEMMA ReadingSays ==
  ASSUME ctl \in Controllers, NEW p \in Port, NEW d, ctl' = [ctl EXCEPT ![p].reading = TRUE],
         ctl[p] # Nothing
  PROVE  SaysWhy(ctl'[p], d)
BY DEF SaysWhy, Controllers, Controller

LEMMA ReadsSays ==
  ASSUME ctl \in Controllers, NEW p \in Port, NEW d, Reads(p)
  PROVE  SaysWhy(ctl'[p], d)
<1>1. CASE ctl[p] = Nothing
  BY <1>1 DEF Reads, SaysWhy
<1>2. CASE ctl[p] # Nothing
  BY <1>2, ReadingSays DEF Reads
<1> QED
  BY <1>1, <1>2

LEMMA PresentReadingSays ==
  ASSUME ctl \in Controllers, NEW p \in Port, NEW d, ctl' = PresentReading
  PROVE  SaysWhy(ctl'[p], d)
<1>1. CASE p \in Present
  <2>1. ctl'[p] = [ctl[p] EXCEPT !.reading = TRUE] /\ ctl[p] \in Controller
    BY <1>1 DEF PresentReading, Present, Controllers
  <2> QED
    BY <2>1 DEF SaysWhy, Controller
<1>2. CASE p \notin Present
  <2>1. ctl'[p] = ctl[p] /\ (ctl[p] = Nothing \/ ctl[p].mode = Nothing)
    BY <1>2 DEF PresentReading, Present
  <2> QED
    BY <2>1 DEF SaysWhy
<1> QED
  BY <1>1, <1>2

\* A controller that an event is not about stays as it is, or is being read.
LEMMA OthersStay ==
  ASSUME TypeOK, ShownOK, Handle, NEW p \in Port,
         E.type \in {"locked", "installed"} \/ E.port # p
  PROVE  ctl'[p] = ctl[p] \/ ctl' = PresentReading
<1>0. ctl \in Controllers
  BY DEF ShownOK
<1>1. CASE HandleInstalled
  BY <1>1 DEF HandleInstalled
<1>2. CASE HandleLocked \/ HandleRefused \/ HandleUnplugged \/ HandleNotRelocked
  BY <1>2 DEF HandleLocked, HandleRefused, HandleUnplugged, HandleNotRelocked
<1>3. CASE HandlePresence \/ HandleUnlocked
  <2>1. E.port \in Port /\ E.mode \in Mode \cup {Nothing} /\ presence(E.port, E.mode)
    BY <1>3, TakenEvent, EventFields DEF HandlePresence, HandleUnlocked
  <2>2. E.port # p
    BY <1>3 DEF HandlePresence, HandleUnlocked, Takes, E
  <2> HIDE DEF E
  <2> QED
    BY <1>0, <2>1, <2>2, PresenceShows
<1>4. CASE HandleReadOk \/ HandleReadDenied \/ HandleReadForeign \/ HandleReadError \/ HandleSteps
           \/ HandleWritten \/ HandleNotUnlocked \/ HandleRelocked
  <2>1. E.type \notin {"locked", "installed"}
    BY <1>4 DEF HandleReadOk, HandleReadDenied, HandleReadForeign, HandleReadError, HandleSteps,
       HandleWritten, HandleNotUnlocked, HandleRelocked, Takes, E
  <2>2. \/ ctl' = ctl
        \/ \E c : ctl' = [ctl EXCEPT ![E.port] = c]
    <3>1. CASE HandleReadOk
      BY <3>1 DEF HandleReadOk
    <3>2. CASE HandleReadDenied
      BY <3>2 DEF HandleReadDenied
    <3>3. CASE HandleReadForeign
      BY <3>3 DEF HandleReadForeign
    <3>4. CASE HandleReadError
      BY <3>4 DEF HandleReadError, read_failed
    <3>5. CASE HandleSteps
      BY <3>5 DEF HandleSteps, read_failed
    <3>6. CASE HandleWritten
      BY <3>6 DEF HandleWritten, Reads
    <3>7. CASE HandleNotUnlocked
      BY <3>7 DEF HandleNotUnlocked
    <3>8. CASE HandleRelocked
      BY <3>8 DEF HandleRelocked
    <3> QED
      BY <1>4, <3>1, <3>2, <3>3, <3>4, <3>5, <3>6, <3>7, <3>8
  <2> HIDE DEF E
  <2> QED
    BY <1>0, <2>1, <2>2 DEF Controllers
<1> QED
  BY <1>1, <1>2, <1>3, <1>4 DEF Handle

\* The handler of an event that is about p.
LEMMA OwnSays ==
  ASSUME TypeOK, ShownOK, Accounted, Handle, NEW p \in Port,
         E.type \notin {"locked", "installed"}, E.port = p
  PROVE  SaysWhy(ctl'[p], p \in denied')
<1>0. ctl \in Controllers /\ SaysWhy(ctl[p], p \in denied)
  BY DEF ShownOK, Accounted
<1>1. CASE HandlePresence \/ HandleUnlocked
  <2>1. E.mode \in Mode \cup {Nothing} /\ presence(p, E.mode)
    BY <1>1, TakenEvent, EventFields DEF HandlePresence, HandleUnlocked
  <2> QED
    BY <1>0, <2>1, PresenceSays
<1>2. CASE HandleReadOk
  <2>1. E.type = "read" /\ E.result = "ok" /\ E.num \in Nat
    BY <1>2, TakenEvent, EventFields DEF HandleReadOk
  <2>2. E.num # 0
    <3>1. evts \in Seq(Event) /\ evts # <<>> /\ evts' = Tail(evts) /\ NumbersRead
      BY <1>2 DEF HandleReadOk, Takes, TypeOK, ChannelsOK, Accounted
    <3> QED
      BY <2>1, <3>1, TakenNumbers DEF NumberRead
  <2>3. CASE ctl[p] = Nothing
    BY <1>2, <2>3 DEF HandleReadOk, SaysWhy
  <2>4. CASE ctl[p] # Nothing
    <3>1. ctl' = [ctl EXCEPT ![p].num = E.num, ![p].reading = FALSE, ![p].read_error = FALSE]
      BY <1>2, <2>4 DEF HandleReadOk
    <3>2. ctl'[p].num = E.num
      BY <1>0, <2>1, <2>4, <3>1 DEF Controllers, Controller
    <3> HIDE DEF E
    <3> QED
      BY <2>2, <3>2 DEF SaysWhy
  <2> QED
    BY <2>3, <2>4
<1>3. CASE HandleReadDenied
  <2>1. Refuses
    BY <1>3 DEF HandleReadDenied, Takes, E, Refuses
  <2>2. p \in denied'
    BY <2>1 DEF Handle, Noted
  <2> QED
    BY <2>2 DEF SaysWhy
<1>4. CASE HandleReadForeign
  <2>1. /\ E.type = "read" /\ E.result = "foreign"
    BY <1>4, TakenEvent, EventFields DEF HandleReadForeign
  <2>2. ModeShown(ctl'[p]) = Nothing
    BY <2>1, HandleShows DEF Shows, Tells, ModeTold
  <2> QED
    BY <2>2 DEF SaysWhy, ModeShown
<1>5. CASE HandleReadError
  <2>1. read_failed(p)
    BY <1>5 DEF HandleReadError
  <2> QED
    BY <1>0, <2>1 DEF read_failed, SaysWhy, Controllers, Controller
<1>6. CASE HandleSteps
  <2>1. ctl' = ctl \/ read_failed(p)
    BY <1>6 DEF HandleSteps
  <2>2. ~Refuses /\ ~Renews
    BY <1>6 DEF HandleSteps, Takes, E, Refuses, Renews
  <2>3. denied' = denied
    BY <2>2 DEF Handle, Noted
  <2> QED
    BY <1>0, <2>1, <2>3 DEF read_failed, SaysWhy, Controllers, Controller
<1>7. CASE HandleWritten
  <2>1. CASE Reads(p)
    BY <1>0, <2>1, ReadsSays
  <2>2. CASE Named(p) /\ ctl' = [ctl EXCEPT ![p].reading = TRUE]
    BY <1>0, <2>2, ReadingSays DEF Named, Present
  <2> QED
    BY <1>7, <2>1, <2>2 DEF HandleWritten
<1>8. CASE HandleRefused \/ HandleUnplugged \/ HandleNotRelocked
  <2>1. ctl' = ctl
    BY <1>8 DEF HandleRefused, HandleUnplugged, HandleNotRelocked
  <2>2. ~Refuses /\ ~Renews
    BY <1>8 DEF HandleRefused, HandleUnplugged, HandleNotRelocked, Takes, E, Refuses, Renews
  <2>3. denied' = denied
    BY <2>2 DEF Handle, Noted
  <2> QED
    BY <1>0, <2>1, <2>3
<1>9. CASE HandleNotUnlocked
  <2>1. E.type = "unlock" /\ E.result # "port"
    BY <1>9 DEF HandleNotUnlocked, Takes, E
  <2>2. CASE E.result = "denied"
    <3>1. p \in denied'
      BY <2>1, <2>2 DEF Handle, Noted, Refuses
    <3> QED
      BY <3>1 DEF SaysWhy
  <2>3. CASE E.result # "denied"
    <3>1. ctl' = ctl /\ denied' = denied
      BY <1>9, <2>1, <2>3 DEF HandleNotUnlocked, Handle, Noted, Refuses, Renews
    <3> QED
      BY <1>0, <3>1
  <2> QED
    BY <2>2, <2>3
<1>10. CASE HandleRelocked
  <2>1. ctl'[p] = Nothing
    BY <1>0, <1>10 DEF HandleRelocked, Controllers
  <2> QED
    BY <2>1 DEF SaysWhy
<1>11. CASE HandleLocked \/ HandleInstalled
  BY <1>11 DEF HandleLocked, HandleInstalled, Takes, E
<1> QED
  BY <1>1, <1>2, <1>3, <1>4, <1>5, <1>6, <1>7, <1>8, <1>9, <1>10, <1>11 DEF Handle

LEMMA HandleSays ==
  ASSUME TypeOK, ShownOK, Accounted, Handle, NEW p \in Port
  PROVE  SaysWhy(ctl'[p], p \in denied')
<1>1. CASE E.type \notin {"locked", "installed"} /\ E.port = p
  BY <1>1, OwnSays
<1>2. CASE E.type \in {"locked", "installed"} \/ E.port # p
  <2>1. p \in denied' <=> p \in denied
    BY <1>2 DEF Handle, Noted, Refuses, Renews
  <2>2. ctl'[p] = ctl[p] \/ ctl' = PresentReading
    BY <1>2, OthersStay
  <2>3. ctl \in Controllers /\ SaysWhy(ctl[p], p \in denied)
    BY DEF ShownOK, Accounted
  <2>4. CASE ctl'[p] = ctl[p]
    BY <2>1, <2>3, <2>4 DEF SaysWhy
  <2>5. CASE ctl' = PresentReading
    BY <2>3, <2>5, PresentReadingSays
  <2> QED
    BY <2>2, <2>4, <2>5
<1> QED
  BY <1>1, <1>2

LEMMA UserSays ==
  ASSUME ShownOK, Accounted, User, NEW p \in Port
  PROVE  SaysWhy(ctl'[p], p \in denied')
<1>0. ctl \in Controllers /\ SaysWhy(ctl[p], p \in denied)
  BY DEF ShownOK, Accounted
<1>1. denied' = denied
  BY DEF User, Click, ClickCheckAgain, ClickInstall, ClickWrite, ClickUnlock, ClickRelock, ClickTryAgain
<1>2. ctl' = ctl \/ ctl' = PresentReading \/ \E q \in Port : Reads(q)
  BY DEF User, ClickCheckAgain, ClickInstall, ClickWrite, ClickUnlock, ClickRelock, ClickTryAgain
<1>3. ASSUME NEW q \in Port, Reads(q) PROVE SaysWhy(ctl'[p], p \in denied')
  <2>1. CASE q = p
    BY <1>0, <1>3, <2>1, ReadsSays
  <2>2. CASE q # p
    <3>1. ctl'[p] = ctl[p]
      BY <1>0, <1>3, <2>2 DEF Reads, Controllers
    <3> QED
      BY <1>0, <1>1, <3>1
  <2> QED
    BY <2>1, <2>2
<1> QED
  BY <1>0, <1>1, <1>2, <1>3, PresentReadingSays

LEMMA StepAccounts == DeskTypeOK /\ Accounted /\ [Next]_vars => Accounted'
<1> SUFFICES ASSUME DeskTypeOK, Accounted, [Next]_vars PROVE Accounted'
  OBVIOUS
<1>1. TypeOK /\ ShownOK /\ Numbered /\ NumbersRead /\ evts \in Seq(Event)
  BY DEF DeskTypeOK, WindowOK, ShownOK, Controllers, Accounted, TypeOK, ChannelsOK
<1>2. bus' = bus => Numbered'
  BY <1>1 DEF Numbered
<1>3. evts' = evts => NumbersRead'
  BY <1>1 DEF NumbersRead, NumberRead
<1>4. ctl' = ctl /\ denied' = denied => \A p \in Port : SaysWhy(ctl'[p], p \in denied')
  BY DEF Accounted
<1>5. CASE UNCHANGED vars
  BY <1>2, <1>3, <1>4, <1>5 DEF vars, wvars, window, pads, Accounted
<1>6. CASE Bus
  BY <1>1, <1>3, <1>4, <1>6, StepNumbers DEF Bus, Move, window, Accounted
<1>7. CASE Worker
  <2>1. ctl' = ctl /\ denied' = denied /\ Work /\ TypeOK'
    BY <1>1, <1>7, WorkTyped DEF Worker, window
  <2>2. NumbersRead'
    <3>1. CASE Take
      BY <1>3, <3>1 DEF Take
    <3> QED
      BY <1>1, <2>1, <3>1, PollNumbers, CommandNumbers DEF Work
  <2>3. Numbered'
    BY <1>1, <2>1, StepNumbers
  <2> QED
    BY <1>4, <2>1, <2>2, <2>3 DEF Accounted
<1>8. CASE Handle
  <2>1. evts # <<>> /\ evts' = Tail(evts)
    BY <1>8 DEF Handle, HandlePresence, HandleReadOk, HandleReadDenied, HandleReadForeign,
       HandleReadError, HandleSteps, HandleWritten, HandleLocked, HandleRefused, HandleUnplugged,
       HandleUnlocked, HandleNotUnlocked, HandleRelocked, HandleNotRelocked, HandleInstalled, Takes
  <2>2. NumbersRead'
    BY <1>1, <2>1, TakenNumbers
  <2>3. Numbered'
    BY <1>2, <1>8 DEF Handle, pads
  <2>4. \A p \in Port : SaysWhy(ctl'[p], p \in denied')
    BY <1>1, <1>8, HandleSays
  <2> QED
    BY <2>2, <2>3, <2>4 DEF Accounted
<1>9. CASE User
  <2>1. evts' = evts
    BY <1>1, <1>9, UserTyped
  <2>2. bus' = bus
    BY <1>9 DEF User, Click, ClickCheckAgain, ClickInstall, ClickWrite, ClickUnlock, ClickRelock,
       ClickTryAgain, pads
  <2>3. \A p \in Port : SaysWhy(ctl'[p], p \in denied')
    BY <1>1, <1>9, UserSays
  <2> QED
    BY <1>2, <1>3, <2>1, <2>2, <2>3 DEF Accounted
<1> QED
  BY <1>5, <1>6, <1>7, <1>8, <1>9 DEF Next

LEMMA InitAccounted == Init => Accounted
BY DEF Init, WInit, Accounted, Numbered, NumbersRead, NumberRead, SaysWhy

LEMMA PresentIsSo == News /\ Accounted => PresentIsTrue
<1> SUFFICES ASSUME News, Accounted, NEW p \in Present
             PROVE  /\ evts = <<>> /\ p \notin untold =>
                         reported[p] # Nothing /\ ctl[p].mode = reported[p].mode
                    /\ ctl[p].num = 0 => ctl[p].reading \/ ctl[p].read_error \/ p \in denied
  BY DEF PresentIsTrue
<1>1. p \in Port /\ ctl[p] # Nothing /\ ctl[p].mode # Nothing
  BY DEF Present
<1>2. SaysWhy(ctl[p], p \in denied)
  BY <1>1 DEF Accounted
<1> QED
  BY <1>1, <1>2, NewsIsReported DEF SaysWhy

\* For every number of ports, pads and clicks, however the pads move and whatever a write
\* or an unlock leaves behind: what the window shows as present is reported, in its mode,
\* but where a command changed the mode without a word; and it is read, or known not to be.
THEOREM PresentHolds == Spec => []PresentIsTrue
BY DeskTypeCorrect, InitNews, StepNews, InitAccounted, StepAccounts, PresentIsSo, PTL DEF Spec
=============================================================================
