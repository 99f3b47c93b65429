--------------------------- MODULE TransportProofs ---------------------------
(***************************************************************************)
(* What Session.tla and Lock.tla are proved to keep, for every set of      *)
(* ports, models and kinds of pads and every number of chunks, of packets  *)
(* of an unlock, of calls and of pads that come and go; and what the       *)
(* chunks, the packets and their frames of Wire.tla do for every bank,     *)
(* every macro and every size.                                             *)
(*                                                                         *)
(* The argument: a reply is told by its command alone, so what makes a     *)
(* success the pad's is InFlight: of the reports that a session has or is  *)
(* owed, only the last one to come can be an answer, and it is the answer  *)
(* to the packet that waits.  OnItsBank and Planned, an upload never goes  *)
(* out before the select of its bank, make a chunk the bank's that was     *)
(* asked for.  PausedIsHeld ties a pad's input to a session that knows it, *)
(* Known a session to the pad that is there, Locks the interface of a      *)
(* locked pad to the call that has it, and Strange the pads the app does   *)
(* not know to the ids they show.  One lemma per action carries their      *)
(* conjunction Inv through it.                                             *)
(***************************************************************************)
EXTENDS Lock, Wire, SequenceTheorems, WellFoundedInduction, TLAPS

-------------------------------------------------------------------------------
(***************************************************************************)
(* The packets of a call.  Those of a read of every bank are a FlattenSeq, *)
(* whose recursive function exists because a counterexample would have a   *)
(* least length.                                                           *)
(***************************************************************************)
LEMMA LeastNumber ==
  ASSUME NEW T \in SUBSET Nat, T # {}
  PROVE  \E n \in T : \A m \in T : n <= m
<1>1. IsWellFoundedOn(OpToRel(<, Nat), Nat)
  BY NatLessThanWellFounded
<1>2. PICK n \in T : \A y \in T : ~(<<y, n>> \in OpToRel(<, Nat))
  BY <1>1, WFMin, IsWellFoundedOnSubset, Zenon
<1>3. \A m \in T : ~(m < n)
  BY <1>2 DEF OpToRel
<1> QED
  BY <1>3

\* What FlattenSeq's function computes, up to each length.
Flattens(f, seqs, n) ==
  f = [i \in 1..n |-> IF i = 1 THEN seqs[i] ELSE f[i - 1] \o seqs[i]]

LEMMA FlattenExists ==
  ASSUME NEW seqs, NEW n \in Nat
  PROVE  \E f : Flattens(f, seqs, n)
<1> DEFINE T == {m \in Nat : ~\E f : Flattens(f, seqs, m)}
<1>1. SUFFICES ASSUME T # {} PROVE FALSE
  BY DEF T
<1>2. PICK m \in T : \A k \in T : m <= k
  BY <1>1, LeastNumber
<1>3. m # 0
  <2>1. Flattens([i \in 1..0 |-> seqs[i]], seqs, 0)
    BY DEF Flattens
  <2> QED
    BY <1>2, <2>1
<1>4. m - 1 \in Nat /\ m - 1 \notin T
  BY <1>2, <1>3
<1>5. PICK f : Flattens(f, seqs, m - 1)
  BY <1>4
<1> DEFINE g == [i \in 1..m |-> IF i = 1 THEN seqs[i] ELSE f[i - 1] \o seqs[i]]
<1>6. g = [i \in 1..m |-> IF i = 1 THEN seqs[i] ELSE f[i - 1] \o seqs[i]]
  OBVIOUS
<1> HIDE DEF g
<1>7. \A i \in 1..(m - 1) : g[i] = f[i]
  <2>1. f = [i \in 1..(m - 1) |-> IF i = 1 THEN seqs[i] ELSE f[i - 1] \o seqs[i]]
    BY <1>5 DEF Flattens
  <2>2. \A i \in 1..(m - 1) : i \in 1..m
    BY <1>2
  <2>3. \A i \in 1..(m - 1) : f[i] = IF i = 1 THEN seqs[i] ELSE f[i - 1] \o seqs[i]
    BY <2>1
  <2>4. \A i \in 1..(m - 1) : g[i] = IF i = 1 THEN seqs[i] ELSE f[i - 1] \o seqs[i]
    BY <1>6, <2>2
  <2> QED
    BY <2>3, <2>4
<1>8. \A i \in 1..m : i # 1 => g[i - 1] = f[i - 1]
  <2>1. \A i \in 1..m : i # 1 => i - 1 \in 1..(m - 1)
    BY <1>2
  <2> QED
    BY <1>7, <2>1
<1>9. g = [i \in 1..m |-> IF i = 1 THEN seqs[i] ELSE g[i - 1] \o seqs[i]]
  BY <1>6, <1>8
<1>10. Flattens(g, seqs, m)
  BY <1>9, Zenon DEF Flattens
<1> QED
  BY <1>2, <1>10

\* A sequence of packets in which every upload follows a select or an upload.
Sound(q) ==
  /\ q \in Seq(PacketSet)
  /\ \A i \in DOMAIN q :
       /\ q[i].cmd \notin {"start", "firmware"} \cup Lasts
       /\ q[i].cmd = "upload" /\ i > 1 => q[i - 1].cmd \in {"select", "upload"}
Opens(q) == q # <<>> /\ q[1].cmd # "upload"

LEMMA SoundJoin ==
  ASSUME NEW a, NEW b, Sound(a), Sound(b), Opens(b)
  PROVE  Sound(a \o b) /\ a \o b # <<>> /\ (Opens(a) => Opens(a \o b))
<1> DEFINE c == a \o b
<1>1. a \in Seq(PacketSet) /\ b \in Seq(PacketSet) /\ c \in Seq(PacketSet)
      /\ Len(c) = Len(a) + Len(b) /\ Len(a) \in Nat /\ Len(b) \in Nat \ {0}
  BY DEF Sound, Opens
<1>2. \A i \in 1..Len(c) : c[i] = IF i <= Len(a) THEN a[i] ELSE b[i - Len(a)]
  BY <1>1
<1> HIDE DEF c
<1>3. ASSUME NEW i \in DOMAIN c
      PROVE  /\ c[i].cmd \notin {"start", "firmware"} \cup Lasts
             /\ c[i].cmd = "upload" /\ i > 1 => c[i - 1].cmd \in {"select", "upload"}
  <2>1. i \in 1..Len(c)
    BY <1>1
  <2>2. CASE i <= Len(a)
    <3>1. i \in DOMAIN a /\ c[i] = a[i] /\ (i > 1 => c[i - 1] = a[i - 1])
      BY <1>1, <1>2, <2>1, <2>2
    <3> QED
      BY <3>1 DEF Sound
  <2>3. CASE i > Len(a)
    <3> DEFINE j == i - Len(a)
    <3>1. j \in DOMAIN b /\ c[i] = b[j] /\ (j > 1 => c[i - 1] = b[j - 1])
      BY <1>1, <1>2, <2>1, <2>3
    <3>2. j = 1 => c[i].cmd # "upload"
      BY <3>1 DEF Opens
    <3> QED
      BY <1>1, <2>1, <3>1, <3>2 DEF Sound
  <2> QED
    BY <1>1, <2>1, <2>2, <2>3
<1>4. Sound(c)
  BY <1>1, <1>3 DEF Sound
<1>5. c # <<>> /\ (Opens(a) => Opens(c))
  <2>1. Len(c) >= 1
    BY <1>1
  <2>2. ASSUME Opens(a) PROVE c[1].cmd # "upload"
    BY <1>1, <1>2, <2>2 DEF Opens
  <2> QED
    BY <1>1, <2>1, <2>2 DEF Opens
<1> QED
  BY <1>4, <1>5 DEF c

LEMMA SoundFlatten ==
  ASSUME NEW seqs, NEW n \in Nat, DOMAIN seqs = 1..n, Len(seqs) = n, seqs \in Seq(Seq(PacketSet)),
         \A i \in 1..n : Sound(seqs[i]) /\ Opens(seqs[i])
  PROVE  Sound(FlattenSeq(seqs)) /\ (n > 0 => Opens(FlattenSeq(seqs)))
<1>1. CASE n = 0
  <2>1. FlattenSeq(seqs) = seqs
    BY <1>1 DEF FlattenSeq
  <2>2. seqs = <<>>
    BY <1>1
  <2> QED
    BY <1>1, <2>1, <2>2 DEF Sound
<1>2. CASE n > 0
  <2> DEFINE flatten == CHOOSE f : f = [i \in 1..n |-> IF i = 1 THEN seqs[i]
                                                      ELSE f[i - 1] \o seqs[i]]
  <2>1. flatten = [i \in 1..n |-> IF i = 1 THEN seqs[i] ELSE flatten[i - 1] \o seqs[i]]
    BY FlattenExists, Zenon DEF Flattens
  <2>2. FlattenSeq(seqs) = flatten[n]
    <3>1. Len(seqs) # 0 /\ Len(seqs) = n
      BY <1>2
    <3> QED
      BY <3>1, Zenon DEF FlattenSeq, flatten
  <2> HIDE DEF flatten
  <2> DEFINE T == {m \in 1..n : ~(Sound(flatten[m]) /\ Opens(flatten[m]))}
  <2>3. T = {}
    <3>1. SUFFICES ASSUME T # {} PROVE FALSE
      OBVIOUS
    <3>5. T \in SUBSET Nat
      OBVIOUS
    <3> HIDE DEF T
    <3>2. PICK m \in T : \A k \in T : m <= k
      BY <3>1, <3>5, LeastNumber
    <3>0. m \in 1..n /\ ~(Sound(flatten[m]) /\ Opens(flatten[m]))
      BY <3>2 DEF T
    <3>3. CASE m = 1
      <4>1. flatten[1] = seqs[1]
        BY <1>2, <2>1
      <4> QED
        BY <1>2, <3>0, <3>3, <4>1
    <3>4. CASE m # 1
      <4>1. m - 1 \in 1..n /\ m - 1 \notin T
        BY <3>0, <3>2, <3>4 DEF T
      <4>2. Sound(flatten[m - 1]) /\ Opens(flatten[m - 1])
        BY <4>1 DEF T
      <4>3. flatten[m] = flatten[m - 1] \o seqs[m] /\ Sound(seqs[m]) /\ Opens(seqs[m])
        BY <2>1, <3>0, <3>4
      <4>4. Sound(flatten[m]) /\ Opens(flatten[m])
        BY <4>2, <4>3, SoundJoin, Zenon
      <4> QED
        BY <3>0, <4>4
    <3> QED
      BY <3>3, <3>4
  <2> QED
    BY <1>2, <2>2, <2>3
<1> QED
  BY <1>1, <1>2

-------------------------------------------------------------------------------
LEMMA ChunksAre == Chunks \in Nat \ {0} /\ Parts = 1..Chunks
BY SessionAssumption DEF Parts

LEMMA EachIs ==
  ASSUME NEW cmd \in Chunked
  PROVE  /\ Sound(Each(cmd)) /\ Len(Each(cmd)) = Chunks /\ DOMAIN Each(cmd) = Parts
         /\ \A i \in Parts : Each(cmd)[i] = Packet(cmd, i) /\ Each(cmd)[i].cmd = cmd
         /\ Each(cmd) # <<>> /\ Each(cmd)[1].cmd = cmd
<1>1. \A i \in Parts : Packet(cmd, i) \in PacketSet /\ Packet(cmd, i).cmd = cmd
  BY DEF Packet, PacketSet, Chunked
<1>2. Each(cmd) \in Seq(PacketSet) /\ Len(Each(cmd)) = Chunks /\ DOMAIN Each(cmd) = Parts
  BY <1>1, ChunksAre DEF Each
<1>3. \A i \in Parts : Each(cmd)[i] = Packet(cmd, i)
  BY DEF Each
<1>4. \A i \in Parts : i > 1 => i - 1 \in Parts
  BY ChunksAre
<1>5. Sound(Each(cmd))
  BY <1>1, <1>2, <1>3, <1>4 DEF Sound, Lasts, Chunked
<1>6. Each(cmd) # <<>> /\ 1 \in Parts
  BY <1>2, ChunksAre
<1> QED
  BY <1>1, <1>2, <1>3, <1>5, <1>6

LEMMA SimpleIs ==
  ASSUME NEW cmd \in Cmd \ ({"select", "start", "firmware"} \cup Chunked \cup Lasts)
  PROVE  Sound(<<Simple(cmd)>>) /\ Opens(<<Simple(cmd)>>)
<1>1. Simple(cmd) \in PacketSet /\ Simple(cmd).cmd = cmd
  BY DEF Simple, Packet, PacketSet
<1> QED
  BY <1>1 DEF Sound, Opens, Chunked

LEMMA SelectIs ==
  ASSUME NEW mode \in AllModes
  PROVE  Sound(<<Select(mode)>>) /\ Opens(<<Select(mode)>>)
<1>1. Select(mode) \in PacketSet /\ Select(mode).cmd = "select"
  BY DEF Select, Packet, PacketSet
<1> QED
  BY <1>1 DEF Sound, Opens, Lasts

\* A select and the chunks of its bank.
LEMMA OneBankIs ==
  ASSUME NEW mode \in AllModes
  PROVE  Sound(OneBank(mode)) /\ Opens(OneBank(mode)) /\ OneBank(mode) \in Seq(PacketSet)
<1> DEFINE q == OneBank(mode)
           e == Each("upload")
           s == Select(mode)
<1>1. s \in PacketSet /\ s.cmd = "select"
  BY DEF Select, Packet, PacketSet
<1>2. Sound(e) /\ Len(e) = Chunks /\ \A i \in Parts : e[i].cmd = "upload"
  <2>1. "upload" \in Chunked
    BY DEF Chunked
  <2> QED
    BY <2>1, EachIs
<1>3. q = <<s>> \o e
  BY DEF OneBank
<1> HIDE DEF e, s, q
<1>4. e \in Seq(PacketSet) /\ DOMAIN e = Parts
  BY <1>2, ChunksAre DEF Sound
<1>5. q \in Seq(PacketSet) /\ Len(q) = Chunks + 1 /\ q[1] = s
      /\ \A i \in 2..(Chunks + 1) : q[i] = e[i - 1] /\ i - 1 \in Parts
  BY <1>1, <1>2, <1>3, <1>4, ChunksAre
<1>6. DOMAIN q = 1..(Chunks + 1) /\ q # <<>>
  BY <1>5, ChunksAre
<1>7. \A i \in DOMAIN q : q[i].cmd = IF i = 1 THEN "select" ELSE "upload"
  BY <1>1, <1>2, <1>5, <1>6, ChunksAre
<1>8. \A i \in DOMAIN q : i > 1 => i - 1 \in DOMAIN q
  BY <1>6, ChunksAre
<1> QED
  BY <1>5, <1>6, <1>7, <1>8 DEF q, Sound, Opens, Lasts

LEMMA AllBanksAre ==
  ASSUME NEW m \in DOMAIN Models, session.model = m, session.port \in DOMAIN Ports
  PROVE  Sound(AllBanks) /\ AllBanks # <<>> /\ AllBanks[1].cmd # "upload"
<1> DEFINE s == [i \in DOMAIN Modes |-> OneBank(Modes[i])]
           n == Len(Modes)
<1>1. Modes \in Seq(AllModes) /\ n \in Nat /\ DOMAIN Modes = 1..n
  BY DescriptionAssumption DEF Modes
<1>2. \A i \in 1..n : Sound(s[i]) /\ Opens(s[i]) /\ s[i] \in Seq(PacketSet)
  BY <1>1, OneBankIs
<1>3. DOMAIN s = 1..n /\ Len(s) = n /\ s \in Seq(Seq(PacketSet))
  BY <1>1, <1>2
<1> HIDE DEF s, n
<1>4. Sound(FlattenSeq(s)) /\ (n > 0 => Opens(FlattenSeq(s)))
  BY <1>1, <1>2, <1>3, SoundFlatten
<1>5. CurrentMode \in AllModes
  BY DEF CurrentMode, AllModes
<1>6. Sound(<<Select(CurrentMode)>>) /\ Opens(<<Select(CurrentMode)>>)
  BY <1>5, SelectIs
<1>7. AllBanks = FlattenSeq(s) \o <<Select(CurrentMode)>>
  BY DEF AllBanks, s
<1>8. Sound(AllBanks) /\ AllBanks # <<>>
  BY <1>4, <1>6, <1>7, SoundJoin
<1>9. Opens(AllBanks)
  <2>1. CASE n > 0
    BY <1>4, <1>6, <1>7, <2>1, SoundJoin
  <2>2. CASE n = 0
    <3>1. FlattenSeq(s) = <<>>
      BY <1>3, <2>2 DEF FlattenSeq
    <3>2. AllBanks = <<Select(CurrentMode)>>
      BY <1>7, <3>1
    <3> QED
      BY <1>6, <3>2
  <2> QED
    BY <1>1, <2>1, <2>2
<1> QED
  BY <1>8, <1>9 DEF Opens

\* What a call sends: sound, with every chunk of what it writes.
LEMMA SendsAreSound ==
  ASSUME session \in SessionSet, session.model # Nothing, call \in CallSet,
         call.op \in ReadOps \cup WriteOps, call.op \in Ops => call.mode # Nothing, call.op \in Ops
  PROVE  /\ Sound(Packets)
         /\ Packets # <<>> => Packets[1].cmd # "upload"
         /\ call.op = "write" => \A part \in Parts :
              \E i \in DOMAIN Packets : Packets[i] = Packet("write", part)
         /\ call.op = "macro" => \A part \in Parts :
              \E i \in DOMAIN Packets : Packets[i] = Packet("writemacro", part)
<1>1. CASE call.op = "model"
  BY <1>1 DEF Packets, Sound
<1>2. session.model \in DOMAIN Models /\ session.port \in DOMAIN Ports
  BY DEF SessionSet
<1>3. CASE call.op = "read"
  BY <1>2, <1>3, AllBanksAre DEF Packets
<1>4. CASE call.op = "detect"
  <2>1. CurrentMode \in AllModes
    BY <1>2 DEF CurrentMode, AllModes
  <2> QED
    BY <1>4, <2>1, OneBankIs DEF Packets, Opens
<1>5. CASE call.op = "streams"
  <2>1. "readmacro" \in Chunked /\ Packets = Each("readmacro")
    BY <1>5 DEF Chunked, Packets
  <2> QED
    BY <1>5, <2>1, EachIs
<1>6. CASE call.op = "select"
  <2>1. call.mode \in AllModes
    BY DEF CallSet
  <2> QED
    BY <1>6, <2>1, SelectIs DEF Packets, Opens
<1>7. CASE call.op = "write"
  <2>1. "write" \in Chunked /\ Packets = Each("write")
    BY <1>7 DEF Chunked, Packets
  <2>2. /\ Sound(Packets) /\ DOMAIN Packets = Parts /\ Packets[1].cmd = "write"
        /\ \A i \in Parts : Packets[i] = Packet("write", i)
    BY <2>1, EachIs
  <2> QED
    BY <1>7, <2>2
<1>8. CASE call.op = "macro"
  <2> DEFINE e == Each("writemacro")
             s == <<Simple("erase")>>
  <2>1. Sound(s) /\ Opens(s) /\ Len(s) = 1
    BY SimpleIs DEF Cmd, Chunked, Lasts
  <2>0. "writemacro" \in Chunked
    BY DEF Chunked
  <2>2. Sound(e) /\ Len(e) = Chunks /\ DOMAIN e = Parts
        /\ \A i \in Parts : e[i] = Packet("writemacro", i)
    BY <2>0, EachIs
  <2>3. Opens(e)
    BY <2>0, EachIs DEF Opens
  <2>4. Packets = s \o e
    BY <1>8 DEF Packets, MacroPage
  <2> HIDE DEF e, s
  <2>5. Sound(Packets) /\ Opens(Packets)
    BY <2>1, <2>2, <2>3, <2>4, SoundJoin
  <2>6. \A i \in Parts : i + 1 \in DOMAIN Packets /\ Packets[i + 1] = e[i]
    <3>1. s \in Seq(PacketSet) /\ e \in Seq(PacketSet)
      BY <2>1, <2>2 DEF Sound
    <3>4. Len(s \o e) = Chunks + 1
      <4>1. Len(s \o e) = Len(s) + Len(e)
        BY <3>1
      <4>2. Len(s) = 1 /\ Len(e) = Chunks /\ Chunks \in Nat
        BY <2>1, <2>2, ChunksAre
      <4> QED
        BY <4>1, <4>2
    <3>5. \A i \in 1..Len(e) : (s \o e)[i + Len(s)] = e[i]
      BY <3>1
    <3>2. Len(Packets) = Chunks + 1 /\ \A i \in 1..Chunks : (s \o e)[i + 1] = e[i]
      BY <2>1, <2>2, <2>4, <3>4, <3>5
    <3>3. Packets \in Seq(PacketSet)
      BY <2>5 DEF Sound
    <3> QED
      BY <2>4, <3>2, <3>3, ChunksAre
  <2> QED
    BY <1>8, <2>2, <2>5, <2>6 DEF Opens
<1>9. CASE call.op = "patch"
  <2> DEFINE w == Packet("write", 1)
  <2>1. w \in PacketSet /\ w.cmd = "write"
    BY ChunksAre DEF Packet, PacketSet, Chunked
  <2>2. Packets = <<w, w>>
    BY <1>9 DEF Packets, Twice
  <2> HIDE DEF w
  <2> QED
    BY <1>9, <2>1, <2>2 DEF Sound, Lasts
<1>10. CASE call.op \in {"apply", "query", "erase"}
  <2>1. Packets = <<Simple(call.op)>>
    BY <1>10 DEF Packets
  <2>2. Sound(<<Simple(call.op)>>) /\ Opens(<<Simple(call.op)>>)
    BY <1>10, SimpleIs DEF Cmd, Chunked, Lasts
  <2> QED
    BY <1>10, <2>1, <2>2 DEF Opens
<1> QED
  BY <1>1, <1>3, <1>4, <1>5, <1>6, <1>7, <1>8, <1>9, <1>10 DEF ReadOps, WriteOps

-------------------------------------------------------------------------------
\* What a packet does to the pad.
LEMMA HearsIs ==
  ASSUME NEW p \in PadSet, NEW packet \in PacketSet, NEW h, h = Hears(p, packet)
  PROVE  /\ h \in PadSet /\ h.kind = p.kind /\ h.slide = p.slide /\ h.id = p.id
         /\ h.plug = p.plug /\ h.owed = p.owed /\ h.heard = p.heard \cup {packet.cmd}
         /\ h.input = IF Kinds[p.kind].speaks /\ packet.cmd \in {"pause", "query"} THEN "paused"
                      ELSE IF Kinds[p.kind].speaks /\ packet.cmd = "resume" THEN "runs"
                      ELSE p.input
         /\ h.bank = IF Kinds[p.kind].speaks /\ packet.cmd = "select" THEN packet.part ELSE p.bank
<1>1. packet.cmd \in Cmd /\ (packet.cmd = "select" => packet.part \in AllModes)
  BY DEF PacketSet, Chunked, Cmd
<1> DEFINE g == [p EXCEPT !.heard = @ \cup {packet.cmd}]
<1>2. /\ g \in PadSet /\ g.kind = p.kind /\ g.slide = p.slide /\ g.id = p.id
      /\ g.plug = p.plug /\ g.owed = p.owed /\ g.heard = p.heard \cup {packet.cmd}
      /\ g.input = p.input /\ g.bank = p.bank
  BY <1>1 DEF PadSet
<1>3. h = IF ~Kinds[p.kind].speaks THEN g
          ELSE CASE packet.cmd \in {"pause", "query"} -> [g EXCEPT !.input = "paused"]
            [] packet.cmd = "resume" -> [g EXCEPT !.input = "runs"]
            [] packet.cmd = "select" -> [g EXCEPT !.bank = packet.part]
            [] OTHER -> g
  BY DEF Hears
<1> HIDE DEF g
<1>4. CASE ~Kinds[p.kind].speaks
  <2>1. h = g
    BY <1>3, <1>4
  <2> QED
    BY <1>2, <1>4, <2>1
<1>5. CASE Kinds[p.kind].speaks /\ packet.cmd \in {"pause", "query"}
  <2>1. h = [g EXCEPT !.input = "paused"]
    BY <1>3, <1>5
  <2> QED
    BY <1>2, <1>5, <2>1 DEF PadSet
<1>6. CASE Kinds[p.kind].speaks /\ packet.cmd = "resume"
  <2>1. h = [g EXCEPT !.input = "runs"]
    BY <1>3, <1>6
  <2> QED
    BY <1>2, <1>6, <2>1 DEF PadSet
<1>7. CASE Kinds[p.kind].speaks /\ packet.cmd = "select"
  <2>1. h = [g EXCEPT !.bank = packet.part]
    BY <1>3, <1>7
  <2> QED
    BY <1>1, <1>2, <1>7, <2>1 DEF PadSet
<1>8. CASE Kinds[p.kind].speaks /\ packet.cmd \notin {"pause", "query", "resume", "select"}
  <2>1. h = g
    BY <1>3, <1>8
  <2> QED
    BY <1>2, <1>8, <2>1
<1> QED
  BY <1>4, <1>5, <1>6, <1>7, <1>8

LEMMA MissedIs ==
  ASSUME NEW p \in PadSet, NEW packet \in PacketSet, NEW m, m = Missed(p, packet)
  PROVE  /\ m \in PadSet /\ m.kind = p.kind /\ m.slide = p.slide /\ m.id = p.id
         /\ m.plug = p.plug /\ m.owed = p.owed /\ m.bank = p.bank
         /\ m.heard = p.heard \cup {packet.cmd}
         /\ m.input = IF First /\ Ports[session.port].framing = "wrapped" /\ p.input = "paused"
                      THEN "left" ELSE p.input
<1>1. packet.cmd \in Cmd
  BY DEF PacketSet, Chunked, Cmd
<1> QED
  BY <1>1 DEF Missed, PadSet

LEMMA AnswerIs ==
  ASSUME pad \in PadSet, NEW packet \in PacketSet, NEW a, a = Answer(packet)
  PROVE  /\ a \in Reply /\ a.cmd = packet.cmd /\ a.part = packet.part
         /\ packet.cmd = "start" => a.of = Kind.model
         /\ packet.cmd = "upload" => a.of = pad.bank
<1>1. a.cmd = packet.cmd /\ a.part = packet.part
      /\ (packet.cmd = "start" => a.of = Kind.model)
      /\ (packet.cmd = "upload" => a.of = pad.bank)
      /\ (packet.cmd \notin {"start", "upload"} => a.of = Nothing)
      /\ a = [cmd |-> a.cmd, part |-> a.part, of |-> a.of]
  BY DEF Answer
<1>2. a.of \in Ofs
  BY <1>1 DEF Ofs, PadSet, Kind
<1>3. packet.cmd \in Chunked => packet.part \in 0..Chunks
  BY ChunksAre DEF PacketSet, Chunked
<1>4. /\ packet.cmd \in Cmd
      /\ packet.cmd = "select" => packet.part \in AllModes
      /\ packet.cmd \notin {"select"} \cup Chunked => packet.part = Nothing
  BY DEF PacketSet, Chunked, Cmd
<1> QED
  BY <1>1, <1>2, <1>3, <1>4 DEF Reply

\* An answer whose offset is garbled.
LEMMA GarbledIs ==
  ASSUME NEW a \in Reply, a.cmd \in Offsets, NEW g, g = [a EXCEPT !.part = 0]
  PROVE  g \in Reply /\ g.cmd = a.cmd /\ g.of = a.of
<1>1. 0 \in 0..Chunks
  BY ChunksAre
<1>2. a.cmd \in Chunked
  BY DEF Offsets, Chunked
<1>3. /\ a = [cmd |-> a.cmd, part |-> a.part, of |-> a.of] /\ a.of \in Ofs
  BY DEF Reply
<1> QED
  BY <1>1, <1>2, <1>3 DEF Reply

LEMMA EnumeratedIs ==
  ASSUME NEW k \in DOMAIN Kinds, NEW s \in DOMAIN Kinds[k].ids, NEW id \in UsbIds,
         NEW n \in Nat, NEW e, e = Enumerated(k, s, id, n)
  PROVE  /\ e \in PadSet /\ e.kind = k /\ e.slide = s /\ e.id = id /\ e.plug = n
         /\ e.input = "runs" /\ e.heard = {} /\ e.owed = <<>>
<1>1. ModeOf(id) \in AllModes \cup {Nothing}
  BY DEF ModeOf, AllModes
<1>2. s \in UNION {DOMAIN Kinds[kind].ids : kind \in DOMAIN Kinds}
  OBVIOUS
<1> QED
  BY <1>1, <1>2 DEF Enumerated, PadSet

LEMMA SomethingIs ==
  /\ \A p \in PadSet : p # Nothing
  /\ \A s \in SessionSet : s # Nothing
BY NothingIsNoRecord

-------------------------------------------------------------------------------
(***************************************************************************)
(* The inductive invariant, and what a step of Session leaves of the lock. *)
(***************************************************************************)
Inv == /\ TypeOK /\ Placed /\ Planned /\ InFlight /\ OnItsBank /\ PausedIsHeld
       /\ Whole /\ Known /\ Locks /\ Strange /\ UnknownIsLeftAlone

Frame == /\ driver' = IF plugs' # plugs THEN "kernel" ELSE driver
         /\ acting' = (acting /\ pad' # Nothing /\ pad'.plug = pad.plug)
         /\ node' = node

\* A step that leaves the pads and sessions, and waits for no answer.
LEMMA CallOnly ==
  ASSUME Inv, UNCHANGED <<pad, session, plugs>>, Frame,
         call.pc \notin {"wait", "settle"} \cup LockSteps,
         call'.pc \notin {"wait", "settle"} \cup LockSteps,
         call'.pc = "idle" /\ call'.ok => call'.op \notin {"unlock", "relock"}
  PROVE  /\ PausedIsHeld' /\ InFlight' /\ Known' /\ Locks' /\ Strange' /\ UnknownIsLeftAlone'
         /\ acting' = acting
<1>1. driver' = driver /\ node' = node /\ pad' = pad /\ session' = session /\ plugs' = plugs
  BY DEF Frame
<1>2. acting' = acting
  BY <1>1 DEF Frame, Inv, Locks, TypeOK
<1>3. PausedIsHeld'
  BY <1>1 DEF Inv, PausedIsHeld, Alive, Kind
<1>4. InFlight'
  BY <1>1 DEF Inv, InFlight, Alive
<1>5. Known'
  BY <1>1 DEF Inv, Known, Alive, Kind
<1>6. Locks'
  BY <1>1, <1>2 DEF Inv, Locks, NodeAlive, IsLocked, LockSteps
<1>7. Strange' /\ UnknownIsLeftAlone'
  BY <1>1 DEF Inv, Strange, UnknownIsLeftAlone, StrangersAreLeftAlone, Kind
<1> QED
  BY <1>2, <1>3, <1>4, <1>5, <1>6, <1>7

LEMMA CallKeeps ==
  ASSUME Inv, Frame, NEW op \in Ops, NEW mode \in AllModes, Call(op, mode)
  PROVE  Inv'
<1>1. /\ call.pc = "idle" /\ UNCHANGED <<pad, session, cache, job, plugs>>
      /\ (op = "begin" => job = Nothing) /\ (op = "end" => job # Nothing)
      /\ calls < MaxCalls /\ calls' = calls + 1
  BY DEF Call
<1>2. /\ call'.op = op /\ call'.mode = mode /\ call'.ok = FALSE /\ call'.read = {}
      /\ call'.pc = IF op = "end" THEN "end" ELSE IF session = Nothing THEN "open" ELSE "start"
      /\ (session = Nothing => call'.opening)
  BY DEF Call
<1>3. call'.pc \notin {"idle", "wait", "settle", "send"} \cup LockSteps
  BY <1>2 DEF LockSteps
<1>4. call' \in CallSet
  <2>1. op \in Ops \cup {"unlock", "relock", "none"} /\ mode \in AllModes \cup {Nothing}
    OBVIOUS
  <2>2. {"idle", "open", "end", "start"} \subseteq Steps
    BY DEF Steps
  <2> QED
    BY <2>1, <2>2 DEF Call, CallSet
<1>5. PausedIsHeld' /\ InFlight' /\ Known' /\ Locks' /\ Strange' /\ UnknownIsLeftAlone'
      /\ acting' = acting
  BY <1>1, <1>3, CallOnly DEF LockSteps
<1>6. TypeOK'
  <2>1. call'.mode # Nothing
    BY <1>2, SessionAssumption
  <2>2. calls' \in 0..MaxCalls
    <3>1. calls \in 0..MaxCalls
      BY DEF Inv, TypeOK
    <3>2. MaxCalls \in Nat
      BY SessionAssumption
    <3> QED
      BY <1>1, <3>1, <3>2
  <2>3. driver' = driver /\ node' = node
    BY <1>1 DEF Frame
  <2> QED
    BY <1>1, <1>4, <1>5, <2>1, <2>2, <2>3 DEF Inv, TypeOK
<1>7. Placed'
  <2>1. CASE op = "end"
    BY <1>1, <1>2, <2>1 DEF Inv, Placed, LockSteps
  <2>2. CASE op # "end" /\ session = Nothing
    BY <1>1, <1>2, <2>2 DEF Inv, Placed, LockSteps
  <2>3. CASE op # "end" /\ session # Nothing
    BY <1>1, <1>2, <2>3 DEF Inv, Placed, LockSteps
  <2> QED
    BY <2>1, <2>2, <2>3
<1>8. Planned' /\ OnItsBank' /\ Whole'
  BY <1>2, <1>3 DEF Planned, OnItsBank, Whole
<1> QED
  BY <1>5, <1>6, <1>7, <1>8 DEF Inv

\* The steps before a session is open that end the call.
LEMMA FailsKeeps ==
  ASSUME Inv, Frame, call.pc = "open", Fails
  PROVE  Inv'
<1>1. /\ UNCHANGED <<pad, session, calls, plugs>> /\ session = Nothing
      /\ call' = [call EXCEPT !.pc = "idle", !.ok = FALSE]
      /\ job' \in {job, Nothing} /\ cache' \in {cache, Nothing}
  BY DEF Fails, Returns, Forgets, Inv, Placed
<1>2. /\ call' \in CallSet /\ call'.pc = "idle" /\ call'.ok = FALSE /\ call'.op = call.op
      /\ call'.mode = call.mode /\ call'.read = call.read
  BY <1>1 DEF Inv, TypeOK, CallSet, Steps
<1>3. PausedIsHeld' /\ InFlight' /\ Known' /\ Locks' /\ Strange' /\ UnknownIsLeftAlone'
      /\ acting' = acting
  BY <1>1, <1>2, CallOnly DEF LockSteps
<1>4. TypeOK'
  <2>1. driver' = driver /\ node' = node
    BY <1>1 DEF Frame
  <2> QED
    BY <1>1, <1>2, <1>3, <2>1 DEF Inv, TypeOK
<1>5. Placed'
  BY <1>1, <1>2 DEF Inv, Placed, LockSteps
<1>6. Planned' /\ OnItsBank' /\ Whole'
  BY <1>2 DEF Inv, Planned, OnItsBank, Whole
<1> QED
  BY <1>3, <1>4, <1>5, <1>6 DEF Inv

\* wait_for_mode.
LEMMA WaitKeeps ==
  ASSUME Inv, Frame, WaitSees \/ WaitEnds
  PROVE  Inv'
<1>1. /\ UNCHANGED <<pad, session, cache, calls, plugs>> /\ session = Nothing
      /\ call.pc = "back" /\ call.op \in {"begin", "end"} /\ call.op \in Ops
      /\ job' \in {job, Nothing}
  BY DEF WaitSees, WaitEnds, Returns, Inv, Placed, LockSteps
<1>2. \/ call' = [call EXCEPT !.pc = "open", !.opening = TRUE]
      \/ \E ok \in BOOLEAN : call' = [call EXCEPT !.pc = "idle", !.ok = ok]
  BY DEF WaitSees, WaitEnds, Returns
<1>3. /\ call' \in CallSet /\ call'.pc \in {"open", "idle"} /\ call'.op = call.op
      /\ call'.mode = call.mode /\ call'.read = call.read /\ (call'.pc = "open" => call'.opening)
  <2>1. call \in CallSet /\ {"open", "idle"} \subseteq Steps
    BY DEF Inv, TypeOK, Steps
  <2>2. CASE call' = [call EXCEPT !.pc = "open", !.opening = TRUE]
    BY <2>1, <2>2 DEF CallSet
  <2>3. ASSUME NEW ok \in BOOLEAN, call' = [call EXCEPT !.pc = "idle", !.ok = ok]
        PROVE  /\ call' \in CallSet /\ call'.pc \in {"open", "idle"} /\ call'.op = call.op
               /\ call'.mode = call.mode /\ call'.read = call.read /\ call'.pc # "open"
    BY <2>1, <2>3 DEF CallSet
  <2> QED
    BY <1>2, <2>2, <2>3
<1>4. PausedIsHeld' /\ InFlight' /\ Known' /\ Locks' /\ Strange' /\ UnknownIsLeftAlone'
      /\ acting' = acting
  BY <1>1, <1>3, CallOnly DEF LockSteps
<1>5. TypeOK'
  <2>1. driver' = driver /\ node' = node
    BY <1>1 DEF Frame
  <2> QED
    BY <1>1, <1>3, <1>4, <2>1 DEF Inv, TypeOK
<1>6. Placed'
  BY <1>1, <1>3 DEF Inv, Placed, LockSteps
<1>7. Planned' /\ OnItsBank' /\ Whole'
  BY <1>1, <1>3 DEF Inv, Planned, OnItsBank, Whole
<1> QED
  BY <1>4, <1>5, <1>6, <1>7 DEF Inv

LEMMA EndsFlippedKeeps ==
  ASSUME Inv, Frame, EndsFlipped
  PROVE  Inv'
<1>1. /\ UNCHANGED <<pad, session, cache, job, calls, plugs>>
      /\ call.pc = "end" /\ call.op = "end" /\ call.op \in Ops /\ job # "in place"
      /\ call' = [call EXCEPT !.pc = IF session = Nothing THEN "open" ELSE "start", !.to = job]
  BY DEF EndsFlipped, Inv, Placed, LockSteps
<1>2. job \in AllModes \cup {Nothing}
  BY <1>1 DEF Inv, TypeOK
<1>3. /\ call' \in CallSet /\ call'.op = call.op
      /\ call'.pc \in {"open", "start"} /\ (call'.pc = "open" <=> session = Nothing)
      /\ call'.mode = call.mode /\ call'.read = call.read /\ call'.opening = call.opening
  <2>1. call \in CallSet /\ {"open", "start"} \subseteq Steps
    BY DEF Inv, TypeOK, Steps
  <2> QED
    BY <1>1, <1>2, <2>1 DEF CallSet
<1>4. PausedIsHeld' /\ InFlight' /\ Known' /\ Locks' /\ Strange' /\ UnknownIsLeftAlone'
      /\ acting' = acting
  BY <1>1, <1>3, CallOnly DEF LockSteps
<1>5. TypeOK'
  <2>1. driver' = driver /\ node' = node
    BY <1>1 DEF Frame
  <2> QED
    BY <1>1, <1>3, <1>4, <2>1 DEF Inv, TypeOK
<1>6. Placed'
  BY <1>1, <1>3 DEF Inv, Placed, LockSteps
<1>7. Planned' /\ OnItsBank' /\ Whole'
  BY <1>1, <1>3 DEF Inv, Planned, OnItsBank, Whole
<1> QED
  BY <1>4, <1>5, <1>6, <1>7 DEF Inv

-------------------------------------------------------------------------------
\* What a step of a call keeps of the types, when it leaves the lock and the pads.
LEMMA TypesKeep ==
  ASSUME Inv, Frame, UNCHANGED plugs, acting' \in BOOLEAN,
         pad' \in PadSet \cup {Nothing},
         pad' # Nothing => pad # Nothing /\ pad'.kind = pad.kind /\ pad'.slide = pad.slide,
         session' \in SessionSet \cup {Nothing}, cache' \in DOMAIN Models \cup {Nothing},
         job' \in AllModes \cup {"in place", Nothing}, call' \in CallSet,
         call'.op \in Ops => call'.mode # Nothing, calls' = calls
  PROVE  TypeOK'
<1>1. driver' = driver /\ node' = node
  BY DEF Frame
<1>2. pad' # Nothing => pad'.slide \in DOMAIN Kinds[pad'.kind].ids
  BY DEF Inv, TypeOK
<1> QED
  BY <1>1, <1>2 DEF Inv, TypeOK

\* A pad keeps its place, and the lock with it.
LEMMA LocksKeep ==
  ASSUME Inv, Frame, UNCHANGED plugs,
         pad' = Nothing \/ (pad # Nothing /\ pad' # Nothing /\ pad'.kind = pad.kind
                            /\ pad'.id = pad.id /\ pad'.plug = pad.plug),
         call' = call \/ (call.pc \notin LockSteps /\ call'.pc \notin LockSteps
                          /\ (call'.pc = "idle" /\ call'.ok => call'.op \notin {"unlock", "relock"}))
  PROVE  Locks' /\ acting' \in BOOLEAN
<1>1. driver' = driver /\ node' = node /\ (acting' => acting /\ pad' # Nothing)
      /\ acting' \in BOOLEAN
  BY DEF Frame, Inv, TypeOK
<1>2. IsLocked' => IsLocked
  BY DEF IsLocked
<1>3. NodeAlive' => NodeAlive
  BY <1>1 DEF NodeAlive
<1>4. IsLocked' /\ NodeAlive => NodeAlive'
  BY <1>1 DEF NodeAlive, IsLocked
<1>5. NodeAlive' /\ IsLocked => IsLocked'
  BY DEF NodeAlive, IsLocked
<1>6. NodeAlive' => pad'.id = pad.id
  BY DEF NodeAlive
<1>7. CASE call' = call
  BY <1>1, <1>2, <1>3, <1>4, <1>5, <1>6, <1>7 DEF Inv, Locks
<1>8. CASE call' # call
  <2>1. ~(driver # "kernel" /\ IsLocked)
    BY <1>8 DEF Inv, Locks, LockSteps
  <2> QED
    BY <1>1, <1>2, <1>8, <2>1 DEF Inv, Locks, LockSteps
<1> QED
  BY <1>1, <1>7, <1>8

\* A config port of a model the app knows hears what is sent to it; a shared one no
\* more than the opening until its model is known.
LEMMA HeardKeeps ==
  ASSUME Inv, pad # Nothing, pad' # Nothing, NEW c, pad'.kind = pad.kind, pad'.id = pad.id,
         pad'.heard = pad.heard \cup {c}, pad.id \in DOMAIN Ports, ~Refused(pad.id),
         ~Kind.speaks => c \in {"pause", "start"},
         Stranger(pad.kind) => c \in {"pause", "start", "resume"}
  PROVE  Strange' /\ UnknownIsLeftAlone'
<1>1. ~Unvalidated(pad.kind)
  BY KindAssumption, LockAssumption DEF Inv, Strange, TypeOK, PadSet
<1>2. Strange'
  BY DEF Inv, Strange
<1>3. StrangersAreLeftAlone'
  BY <1>1 DEF Inv, UnknownIsLeftAlone, StrangersAreLeftAlone, Kind, Stranger, Unvalidated
<1>4. pad.id # LockedUsb
  BY LockAssumption
<1> QED
  BY <1>2, <1>3, <1>4 DEF UnknownIsLeftAlone

LEMMA SameHeard ==
  ASSUME Inv, pad' = Nothing \/ (pad # Nothing /\ pad' # Nothing /\ pad'.kind = pad.kind
                                 /\ pad'.id = pad.id /\ pad'.heard = pad.heard)
  PROVE  Strange' /\ UnknownIsLeftAlone'
BY DEF Inv, Strange, UnknownIsLeftAlone, StrangersAreLeftAlone, Kind

-------------------------------------------------------------------------------
LEMMA StartsKeeps ==
  ASSUME Inv, Frame, Starts
  PROVE  Inv'
<1> DEFINE q == Packets
<1>1. /\ call.pc = "start" /\ UNCHANGED <<calls, plugs, pad, session, job>>
      /\ call.op \in ReadOps \cup WriteOps /\ q # <<>>
      /\ call' = [call EXCEPT !.pc = "send", !.todo = q, !.opening = FALSE]
      /\ cache' \in {cache, session.model}
  BY DEF Starts, Starting, Sending, Caches
<1>2. /\ session \in SessionSet /\ session.model \in DOMAIN Models /\ session.model # Nothing
      /\ call \in CallSet /\ call.op \in Ops /\ call.mode # Nothing
  BY <1>1 DEF Inv, TypeOK, Placed, LockSteps, SessionSet
<1>3. /\ Sound(q) /\ q[1].cmd # "upload"
      /\ (call.op = "write" => \A part \in Parts : \E i \in DOMAIN q : q[i] = Packet("write", part))
      /\ (call.op = "macro" =>
            \A part \in Parts : \E i \in DOMAIN q : q[i] = Packet("writemacro", part))
  BY <1>1, <1>2, SendsAreSound
<1> HIDE DEF q
<1>4. /\ call' \in CallSet /\ call'.op = call.op /\ call'.mode = call.mode /\ call'.pc = "send"
      /\ call'.todo = q /\ ~call'.opening /\ call'.read = call.read /\ call'.bank = call.bank
  BY <1>1, <1>2, <1>3 DEF CallSet, Steps, Sound
<1>5. PausedIsHeld' /\ InFlight' /\ Known' /\ Locks' /\ Strange' /\ UnknownIsLeftAlone'
      /\ acting' = acting
  BY <1>1, <1>4, CallOnly DEF LockSteps
<1>6. TypeOK'
  <2>1. driver' = driver /\ node' = node
    BY <1>1 DEF Frame
  <2> QED
    BY <1>1, <1>2, <1>4, <1>5, <2>1 DEF Inv, TypeOK
<1>7. Placed'
  BY <1>1, <1>2, <1>4 DEF Inv, Placed, LockSteps
<1>8. Planned'
  BY <1>1, <1>3, <1>4 DEF Planned, Sound, Lasts
<1>9. OnItsBank' /\ Whole'
  <2>1. Waited'.cmd # "upload"
    BY <1>1, <1>3, <1>4 DEF Waited, Sound
  <2> QED
    BY <1>4, <2>1 DEF Inv, OnItsBank, Whole
<1> QED
  BY <1>5, <1>6, <1>7, <1>8, <1>9 DEF Inv

\* The packet that ends a session.
LEMMA LastKeeps ==
  ASSUME Inv, Frame, Flips \/ Returning
  PROVE  Inv'
<1> DEFINE c == IF call.op = "begin" THEN "flip" ELSE "close"
           q == <<Simple(c)>>
<1>1. /\ call.pc = "start" /\ UNCHANGED <<calls, plugs, pad, session, cache, job>>
      /\ call.op \in {"begin", "end"}
      /\ call' = IF call.op = "begin"
                 THEN [call EXCEPT !.pc = "send", !.todo = q, !.opening = FALSE,
                                   !.to = Via, !.mode = CurrentMode]
                 ELSE [call EXCEPT !.pc = "send", !.todo = q, !.opening = FALSE]
      /\ (call.op = "begin" => Via \in Models[session.model].flips)
  BY DEF Flips, Returning, Starting, Sending
<1>2. /\ session \in SessionSet /\ session.model \in DOMAIN Models /\ session.model # Nothing
      /\ call \in CallSet /\ call.op \in Ops /\ call.mode # Nothing
  BY <1>1 DEF Inv, TypeOK, Placed, LockSteps, SessionSet
<1>3. CurrentMode \in AllModes /\ Via \in AllModes \cup {Nothing}
  BY <1>2, DescriptionAssumption DEF CurrentMode, Via, AllModes, SessionSet
<1>4. /\ q \in Seq(PacketSet) /\ q # <<>> /\ DOMAIN q = {1} /\ q[1].cmd = c /\ c \in Lasts
      /\ (c = "flip" => call.op = "begin")
  BY <1>1 DEF Simple, Packet, PacketSet, Chunked, Cmd, Lasts
<1> HIDE DEF q, c
<1>5. /\ call' \in CallSet /\ call'.op = call.op /\ call'.mode # Nothing /\ call'.pc = "send"
      /\ call'.todo = q /\ ~call'.opening /\ call'.read = call.read
      /\ (call.op = "begin" => call'.to = Via)
  <2>1. "send" \in Steps
    BY DEF Steps
  <2>2. CASE call.op = "begin"
    <3>1. CurrentMode # Nothing
      BY <1>3, SessionAssumption
    <3> QED
      BY <1>1, <1>2, <1>3, <1>4, <2>1, <2>2, <3>1 DEF CallSet
  <2>3. CASE call.op # "begin"
    BY <1>1, <1>2, <1>4, <2>1, <2>3 DEF CallSet
  <2> QED
    BY <2>2, <2>3
<1>6. PausedIsHeld' /\ InFlight' /\ Known' /\ Locks' /\ Strange' /\ UnknownIsLeftAlone'
      /\ acting' = acting
  BY <1>1, <1>5, CallOnly DEF LockSteps
<1>7. TypeOK'
  <2>1. driver' = driver /\ node' = node
    BY <1>1 DEF Frame
  <2> QED
    BY <1>1, <1>2, <1>5, <1>6, <2>1 DEF Inv, TypeOK
<1>8. Placed'
  BY <1>1, <1>2, <1>5 DEF Inv, Placed, LockSteps
<1>9. Planned'
  <2>2. c \notin {"start", "firmware", "upload"}
    BY <1>4 DEF Lasts
  <2> QED
    BY <1>1, <1>4, <1>5, <2>2 DEF Planned
<1>10. OnItsBank' /\ Whole'
  <2>1. Waited'.cmd # "upload"
    BY <1>4, <1>5 DEF Waited, Lasts
  <2> QED
    BY <1>5, <2>1 DEF Inv, OnItsBank, Whole
<1> QED
  BY <1>6, <1>7, <1>8, <1>9, <1>10 DEF Inv

LEMMA HoldsKeeps ==
  ASSUME Inv, Frame, Holds
  PROVE  Inv'
<1>1. /\ call.pc = "start" /\ call.op = "begin" /\ UNCHANGED <<calls, plugs, pad, cache>>
      /\ job' \in {"in place", call.mode}
      /\ session' = [session EXCEPT !.held = TRUE]
      /\ call' = [call EXCEPT !.pc = "idle", !.ok = TRUE]
  BY DEF Holds, Starting
<1>2. /\ session \in SessionSet /\ session.model \in DOMAIN Models /\ session.model # Nothing
      /\ call \in CallSet /\ call.op \in Ops /\ call.mode # Nothing /\ call.mode \in AllModes
  BY <1>1 DEF Inv, TypeOK, Placed, LockSteps, SessionSet, CallSet
<1>3. /\ session' \in SessionSet /\ session' # Nothing /\ session # Nothing
      /\ session'.plug = session.plug /\ session'.port = session.port
      /\ session'.model = session.model /\ session'.queue = session.queue
  BY <1>1, <1>2, SomethingIs DEF SessionSet
<1>4. /\ call' \in CallSet /\ call'.op = "begin" /\ call'.mode = call.mode /\ call'.pc = "idle"
      /\ call'.read = call.read
  BY <1>1, <1>2 DEF CallSet, Steps
<1>5. Alive' <=> Alive
  BY <1>1, <1>3 DEF Alive
<1>6. Locks' /\ acting' \in BOOLEAN
  BY <1>1, <1>4, LocksKeep DEF LockSteps, Inv, Locks, IsLocked, NodeAlive
<1>7. TypeOK'
  BY <1>1, <1>2, <1>3, <1>4, <1>6, TypesKeep DEF Inv, TypeOK
<1>8. Placed'
  <2>1. job' # Nothing
    BY <1>1, <1>2, SessionAssumption
  <2>2. session'.held
    BY <1>1, <1>2 DEF SessionSet
  <2> QED
    BY <1>1, <1>2, <1>3, <1>4, <2>1, <2>2 DEF Inv, Placed, LockSteps
<1>9. Planned' /\ OnItsBank' /\ Whole'
  BY <1>1, <1>4 DEF Inv, Planned, OnItsBank, Whole
<1>10. InFlight'
  BY <1>1, <1>3, <1>4, <1>5 DEF Inv, InFlight
<1>11. PausedIsHeld'
  BY <1>1, <1>4, <1>5 DEF Inv, PausedIsHeld, Kind
<1>12. Known'
  <2>1. node' = node
    BY DEF Frame
  <2> QED
    BY <1>1, <1>3, <1>5, <2>1 DEF Inv, Known, Kind
<1>13. Strange' /\ UnknownIsLeftAlone'
  BY <1>1, SameHeard
<1> QED
  BY <1>6, <1>7, <1>8, <1>9, <1>10, <1>11, <1>12, <1>13 DEF Inv

-------------------------------------------------------------------------------
LEMMA OpenKeeps ==
  ASSUME Inv, Frame, Open
  PROVE  Inv'
<1> DEFINE pause == Simple("pause")
<1>1. /\ call.pc = "open" /\ UNCHANGED <<cache, job, calls, plugs>> /\ session = Nothing
      /\ Found # Nothing /\ ~Refused(Found) /\ call.opening /\ call.op \in Ops
      /\ pad' \in {Hears(pad, pause), [pad EXCEPT !.heard = @ \cup {"pause"}]}
      /\ session' = [plug |-> pad.plug, port |-> Found, paused |-> TRUE,
                     model |-> Ports[Found].names, queue |-> <<>>, held |-> FALSE]
      /\ call' = [call EXCEPT !.pc = "settle"]
  BY DEF Open, Inv, Placed, LockSteps
<1>2. /\ pad # Nothing /\ pad \in PadSet /\ pad.id \in DOMAIN Ports /\ Found = pad.id
      /\ pad.plug \in Nat /\ call \in CallSet /\ call.mode # Nothing
  BY <1>1 DEF Found, Inv, TypeOK, PadSet
<1>3. pause \in PacketSet /\ pause.cmd = "pause"
  BY DEF Simple, Packet, PacketSet, Chunked, Cmd
<1> HIDE DEF pause
<1>4. /\ pad' \in PadSet /\ pad'.kind = pad.kind /\ pad'.slide = pad.slide /\ pad'.id = pad.id
      /\ pad'.plug = pad.plug /\ pad'.heard = pad.heard \cup {"pause"}
      /\ pad'.input = "paused" => pad.input = "paused" \/ Kind.speaks
  <2>1. CASE pad' = Hears(pad, pause)
    BY <1>2, <1>3, <2>1, HearsIs DEF Kind
  <2>2. CASE pad' = [pad EXCEPT !.heard = @ \cup {"pause"}]
    <3>1. "pause" \in Cmd
      BY DEF Cmd
    <3> QED
      BY <1>2, <2>2, <3>1 DEF PadSet
  <2> QED
    BY <1>1, <2>1, <2>2
<1>5. /\ session' \in SessionSet /\ session'.plug = pad.plug /\ session'.port = pad.id
      /\ session'.model = Ports[pad.id].names /\ session'.held = FALSE
  BY <1>1, <1>2, DescriptionAssumption DEF SessionSet
<1>6. session' # Nothing /\ pad' # Nothing
  BY <1>4, <1>5, SomethingIs
<1>7. /\ call' \in CallSet /\ call'.pc = "settle" /\ call'.op = call.op /\ call'.mode = call.mode
      /\ call'.read = call.read /\ call'.opening
  BY <1>1, <1>2 DEF CallSet, Steps
<1>8. Locks' /\ acting' \in BOOLEAN
  BY <1>1, <1>2, <1>4, <1>6, <1>7, LocksKeep DEF LockSteps
<1>9. TypeOK'
  BY <1>1, <1>2, <1>4, <1>5, <1>6, <1>7, <1>8, TypesKeep DEF Inv, TypeOK
<1>10. Placed'
  BY <1>1, <1>5, <1>6, <1>7 DEF Inv, Placed, LockSteps
<1>11. Planned' /\ OnItsBank' /\ Whole' /\ InFlight'
  BY <1>1, <1>7 DEF Inv, Planned, OnItsBank, Whole, InFlight
<1>12. PausedIsHeld'
  <2>1. pad.input # "paused"
    BY <1>1, <1>2 DEF Inv, PausedIsHeld, Alive
  <2>2. Alive'
    BY <1>4, <1>5, <1>6 DEF Alive
  <2> QED
    BY <1>4, <1>7, <2>1, <2>2 DEF PausedIsHeld, Kind
<1>13. Known'
  <2>1. node' = node
    BY DEF Frame
  <2>2. pad.plug <= plugs
    BY <1>2 DEF Inv, Known
  <2>3. ~Refused(session'.port)
    BY <1>1, <1>2, <1>5
  <2> QED
    BY <1>1, <1>4, <1>5, <1>6, <2>1, <2>2, <2>3 DEF Inv, Known, Alive, Refused
<1>14. Strange' /\ UnknownIsLeftAlone'
  BY <1>1, <1>2, <1>4, <1>6, HeardKeeps
<1> QED
  BY <1>8, <1>9, <1>10, <1>11, <1>12, <1>13, <1>14 DEF Inv

LEMMA OpeningIs ==
  ASSUME NEW m \in DOMAIN Models \cup {Nothing}
  PROVE  /\ Opening(m) \in Seq(PacketSet)
         /\ Opening(m) # <<>> => Len(Opening(m)) = 1 /\ Opening(m)[1].cmd \in {"start", "firmware"}
         /\ m = Nothing => Opening(m) = <<Simple("start")>> /\ Opening(m) # <<>>
                           /\ Opening(m)[1].cmd = "start"
         /\ m # Nothing /\ Opening(m) # <<>> => Opening(m)[1].cmd = "firmware"
<1>1. /\ Simple("start") \in PacketSet /\ Simple("firmware") \in PacketSet
      /\ Simple("start").cmd = "start" /\ Simple("firmware").cmd = "firmware"
  BY DEF Simple, Packet, PacketSet, Chunked, Cmd
<1> QED
  BY <1>1 DEF Opening

LEMMA SettleKeeps ==
  ASSUME Inv, Frame, Settle
  PROVE  Inv'
<1> DEFINE q == Opening(session.model)
<1>1. /\ call.pc = "settle" /\ UNCHANGED <<cache, job, calls, plugs>> /\ Alive
      /\ session' = [session EXCEPT !.queue = <<>>]
      /\ pad' = [pad EXCEPT !.owed = <<>>]
      /\ call' = [call EXCEPT !.pc = IF q = <<>> THEN "start" ELSE "send", !.todo = q]
      /\ call.opening /\ call.op \in Ops
  BY DEF Settle, Drained, Inv, Placed, LockSteps
<1>2. /\ session \in SessionSet /\ session # Nothing /\ pad # Nothing /\ pad \in PadSet
      /\ session.model \in DOMAIN Models \cup {Nothing} /\ call \in CallSet /\ call.mode # Nothing
  BY <1>1 DEF Alive, Inv, TypeOK, SessionSet
<1>3. /\ q \in Seq(PacketSet)
      /\ q # <<>> => Len(q) = 1 /\ q[1].cmd \in {"start", "firmware"}
      /\ q = <<>> => session.model # Nothing
  BY <1>2, OpeningIs
<1> HIDE DEF q
<1>4. /\ session' \in SessionSet /\ session' # Nothing /\ session'.queue = <<>>
      /\ session'.plug = session.plug /\ session'.port = session.port
      /\ session'.model = session.model /\ session'.held = session.held
  <2>1. <<>> \in Seq(Reply)
    OBVIOUS
  <2>2. session' \in SessionSet
    BY <1>1, <1>2, <2>1, Zenon DEF SessionSet
  <2> QED
    BY <1>1, <1>2, <2>2, SomethingIs DEF SessionSet
<1>5. /\ pad' \in PadSet /\ pad' # Nothing /\ pad'.owed = <<>> /\ pad'.kind = pad.kind
      /\ pad'.slide = pad.slide /\ pad'.id = pad.id /\ pad'.plug = pad.plug
      /\ pad'.input = pad.input /\ pad'.heard = pad.heard /\ pad'.bank = pad.bank
  <2>1. <<>> \in Seq(Reply)
    OBVIOUS
  <2>2. pad' \in PadSet
    BY <1>1, <1>2, <2>1, Zenon DEF PadSet
  <2> QED
    BY <1>1, <1>2, <2>2, SomethingIs DEF PadSet
<1>6. /\ call' \in CallSet /\ call'.pc \in {"start", "send"} /\ call'.op = call.op
      /\ call'.mode = call.mode /\ call'.read = call.read /\ call'.opening
      /\ call'.todo = q /\ (call'.pc = "start" <=> q = <<>>)
  <2>1. {"start", "send"} \subseteq Steps
    BY DEF Steps
  <2> QED
    BY <1>1, <1>2, <1>3, <2>1 DEF CallSet
<1>7. Alive' /\ Kind' = Kind
  BY <1>1, <1>4, <1>5 DEF Alive, Kind
<1>8. Locks' /\ acting' \in BOOLEAN
  BY <1>1, <1>2, <1>5, <1>6, LocksKeep DEF LockSteps
<1>9. TypeOK'
  BY <1>1, <1>2, <1>4, <1>5, <1>6, <1>8, TypesKeep DEF Inv, TypeOK
<1>10. Placed'
  BY <1>1, <1>3, <1>4, <1>6 DEF Inv, Placed, LockSteps
<1>11. Planned'
  BY <1>1, <1>4, <1>6 DEF Planned, q
<1>12. OnItsBank'
  <2>1. call'.pc = "send" => Waited'.cmd # "upload"
    BY <1>3, <1>6 DEF Waited
  <2> QED
    BY <1>6, <2>1 DEF Inv, OnItsBank
<1>13. Whole' /\ InFlight'
  BY <1>4, <1>5, <1>6 DEF Whole, InFlight
<1>14. PausedIsHeld'
  BY <1>1, <1>2, <1>5, <1>6, <1>7 DEF Inv, PausedIsHeld
<1>15. Known'
  <2>1. node' = node
    BY DEF Frame
  <2> QED
    BY <1>1, <1>2, <1>4, <1>5, <1>7, <2>1 DEF Inv, Known, Refused
<1>16. Strange' /\ UnknownIsLeftAlone'
  BY <1>2, <1>5, SameHeard
<1> QED
  BY <1>8, <1>9, <1>10, <1>11, <1>12, <1>13, <1>14, <1>15, <1>16 DEF Inv

-------------------------------------------------------------------------------
(***************************************************************************)
(* The steps that drop a session.                                          *)
(***************************************************************************)
\* A pad that does not speak the protocol is on a wrapped port that names no model.
LEMMA DumbIsWrapped ==
  ASSUME Inv, pad # Nothing, ~Kind.speaks, pad.id \in DOMAIN Ports
  PROVE  Ports[pad.id].names = Nothing /\ Ports[pad.id].framing = "wrapped"
<1>1. pad.id \in Shown(pad.kind) /\ pad.kind \in DOMAIN Kinds /\ Stranger(pad.kind)
  BY DEF Inv, Strange, TypeOK, PadSet, Stranger, Kind
<1> QED
  BY <1>1, KindAssumption DEF Kind

\* A session that knows its model has a pad that speaks.
LEMMA KnownSpeaks ==
  ASSUME Inv, Alive, session.model # Nothing
  PROVE  Kind.speaks
<1>1. pad.id = session.port /\ session \in SessionSet /\ pad # Nothing
  BY DEF Alive, Inv, TypeOK, Known
<1>2. session.port \in DOMAIN Ports
  BY <1>1 DEF SessionSet
<1>3. Ports[session.port].names = Nothing => Kind.speaks
  BY DEF Inv, Known
<1> QED
  BY <1>1, <1>2, <1>3, DumbIsWrapped

LEMMA CloseKeeps ==
  ASSUME Inv, Frame, UNCHANGED <<calls, plugs>>, call.pc \notin {"idle"} \cup LockSteps,
         NEW paused \in BOOLEAN, session' = Nothing, pad' = Resumed(paused),
         cache' \in DOMAIN Models \cup {Nothing}, job' \in {job, Nothing},
         call' \in CallSet, call'.pc = "idle", call'.op = call.op, call'.mode = call.mode,
         call'.ok /\ call.op \in {"write", "macro"} => call'.handled = Parts,
         \A asked \in call'.read : asked[1] = asked[2],
         pad # Nothing /\ pad.input = "paused" => paused,
         paused /\ Alive => Kind.speaks
  PROVE  Inv'
<1> DEFINE resume == Simple("resume")
<1>1. resume \in PacketSet /\ resume.cmd = "resume"
  BY DEF Simple, Packet, PacketSet, Chunked, Cmd
<1>2. pad' = IF paused /\ Alive THEN Hears(pad, resume) ELSE pad
  BY DEF Resumed
<1> HIDE DEF resume
<1>3. call.op \in Ops /\ call.op \notin {"unlock", "relock"} /\ call'.mode # Nothing
  BY SessionAssumption DEF Inv, Placed, TypeOK, ReadOps, WriteOps, JobOps
<1>4. CASE paused /\ Alive
  <2>1. /\ pad # Nothing /\ pad \in PadSet /\ session \in SessionSet /\ pad.id = session.port
        /\ ~Refused(session.port)
    BY <1>4 DEF Alive, Inv, TypeOK, Known
  <2>2. /\ pad' \in PadSet /\ pad'.kind = pad.kind /\ pad'.slide = pad.slide /\ pad'.id = pad.id
        /\ pad'.plug = pad.plug /\ pad'.heard = pad.heard \cup {"resume"} /\ pad'.input = "runs"
    BY <1>1, <1>2, <1>4, <2>1, HearsIs DEF Kind
  <2>3. pad' # Nothing
    BY <2>2, SomethingIs
  <2>4. Strange' /\ UnknownIsLeftAlone'
    <3>1. pad.id \in DOMAIN Ports /\ ~Refused(pad.id)
      BY <2>1 DEF SessionSet
    <3> QED
      BY <1>4, <2>1, <2>2, <2>3, <3>1, HeardKeeps
  <2>5. Locks' /\ acting' \in BOOLEAN
    BY <1>3, <2>1, <2>2, <2>3, LocksKeep DEF LockSteps
  <2>6. TypeOK'
    BY <1>3, <2>1, <2>2, <2>3, <2>5, TypesKeep DEF Inv, TypeOK
  <2>7. PausedIsHeld'
    BY <2>2 DEF PausedIsHeld
  <2>8. Known'
    <3>1. node' = node
      BY DEF Frame
    <3> QED
      BY <2>1, <2>2, <3>1 DEF Inv, Known, Alive
  <2>9. Placed' /\ Planned' /\ InFlight' /\ OnItsBank' /\ Whole'
    BY <1>3 DEF Placed, Planned, InFlight, OnItsBank, Whole, LockSteps
  <2> QED
    BY <2>4, <2>5, <2>6, <2>7, <2>8, <2>9 DEF Inv
<1>5. CASE ~(paused /\ Alive)
  <2>1. pad' = pad
    BY <1>2, <1>5
  <2>2. Strange' /\ UnknownIsLeftAlone'
    BY <2>1, SameHeard
  <2>3. Locks' /\ acting' \in BOOLEAN
    BY <1>3, <2>1, LocksKeep DEF LockSteps
  <2>4. TypeOK'
    BY <1>3, <2>1, <2>3, TypesKeep DEF Inv, TypeOK
  <2>5. PausedIsHeld'
    BY <1>5, <2>1 DEF Inv, PausedIsHeld
  <2>6. Known'
    <3>1. node' = node
      BY DEF Frame
    <3> QED
      BY <2>1, <3>1 DEF Inv, Known, Alive
  <2>7. Placed' /\ Planned' /\ InFlight' /\ OnItsBank' /\ Whole'
    BY <1>3 DEF Placed, Planned, InFlight, OnItsBank, Whole, LockSteps
  <2> QED
    BY <2>2, <2>3, <2>4, <2>5, <2>6, <2>7 DEF Inv
<1> QED
  BY <1>4, <1>5

\* A call that ends with its session, well or not.
LEMMA ClosesKeeps ==
  ASSUME Inv, Frame, UNCHANGED <<calls, plugs>>, call.pc \notin {"idle"} \cup LockSteps,
         NEW paused \in BOOLEAN, NEW ok \in BOOLEAN, Closes(paused, ok),
         cache' \in DOMAIN Models \cup {Nothing},
         ok => call.op \notin {"write", "macro"},
         pad # Nothing /\ pad.input = "paused" => paused,
         paused /\ Alive => Kind.speaks
  PROVE  Inv'
<1>1. /\ session' = Nothing /\ pad' = Resumed(paused) /\ job' \in {job, Nothing}
      /\ call' = [call EXCEPT !.pc = "idle", !.ok = ok]
  BY DEF Closes, Returns
<1>2. call \in CallSet /\ "idle" \in Steps /\ \A asked \in call.read : asked[1] = asked[2]
  BY DEF Inv, TypeOK, OnItsBank, Steps
<1>3. /\ call' \in CallSet /\ call'.pc = "idle" /\ call'.op = call.op /\ call'.mode = call.mode
      /\ call'.ok = ok /\ call'.read = call.read
  BY <1>1, <1>2 DEF CallSet
<1> QED
  BY <1>1, <1>2, <1>3, CloseKeeps

LEMMA ErrsKeeps ==
  ASSUME Inv, Frame, call.pc \notin {"idle"} \cup LockSteps,
         NEW paused \in BOOLEAN, Errs(paused),
         pad # Nothing /\ pad.input = "paused" => paused,
         paused /\ Alive => Kind.speaks
  PROVE  Inv'
<1>1. Closes(paused, FALSE) /\ UNCHANGED <<calls, plugs>>
  BY DEF Errs
<1>2. cache' \in DOMAIN Models \cup {Nothing}
  BY DEF Errs, Forgets, Inv, TypeOK
<1> QED
  BY <1>1, <1>2, ClosesKeeps

LEMMA StartingIs ==
  ASSUME Inv, Starting
  PROVE  /\ call.pc = "start" /\ call.pc \notin {"idle"} \cup LockSteps
         /\ UNCHANGED <<calls, plugs>> /\ session \in SessionSet /\ session.paused = TRUE
         /\ session.model \in DOMAIN Models /\ (Alive => Kind.speaks)
<1>1. /\ call.pc = "start" /\ UNCHANGED <<calls, plugs>> /\ session # Nothing
      /\ session.model # Nothing
  BY DEF Starting, Inv, Placed
<1> QED
  BY <1>1, KnownSpeaks DEF Inv, TypeOK, SessionSet, LockSteps

LEMMA RefusesInPlaceKeeps ==
  ASSUME Inv, Frame, RefusesInPlace
  PROVE  Inv'
<1>1. Starting /\ Closes(session.paused, FALSE) /\ UNCHANGED cache
  BY DEF RefusesInPlace
<1>2. cache' \in DOMAIN Models \cup {Nothing}
  BY <1>1 DEF Inv, TypeOK
<1> QED
  BY <1>1, <1>2, StartingIs, ClosesKeeps

LEMMA CannotFlipKeeps ==
  ASSUME Inv, Frame, CannotFlip
  PROVE  Inv'
<1>1. Starting /\ Closes(session.paused, FALSE) /\ UNCHANGED cache
  BY DEF CannotFlip
<1>2. cache' \in DOMAIN Models \cup {Nothing}
  BY <1>1 DEF Inv, TypeOK
<1> QED
  BY <1>1, <1>2, StartingIs, ClosesKeeps

LEMMA ModelIsKnownKeeps ==
  ASSUME Inv, Frame, ModelIsKnown
  PROVE  Inv'
<1>1. Starting /\ Closes(session.paused, TRUE) /\ call.op = "model" /\ Caches
  BY DEF ModelIsKnown
<1>2. cache' \in DOMAIN Models \cup {Nothing}
  BY <1>1, StartingIs DEF Inv, TypeOK, Caches
<1> QED
  BY <1>1, <1>2, StartingIs, ClosesKeeps

LEMMA EndsInPlaceKeeps ==
  ASSUME Inv, Frame, EndsInPlace
  PROVE  Inv'
<1> DEFINE paused == session # Nothing /\ session.paused
<1>1. /\ call.pc = "end" /\ call.op = "end" /\ Closes(paused, TRUE)
      /\ UNCHANGED <<cache, calls, plugs>>
  BY DEF EndsInPlace, Inv, Placed
<1>2. paused \in BOOLEAN /\ (paused <=> session # Nothing)
  BY DEF Inv, TypeOK, SessionSet
<1>3. Alive => Kind.speaks
  BY <1>1, KnownSpeaks DEF Inv, Placed, Alive
<1>4. pad # Nothing /\ pad.input = "paused" => paused
  BY <1>2 DEF Inv, PausedIsHeld, Alive
<1> HIDE DEF paused
<1>5. cache' \in DOMAIN Models \cup {Nothing} /\ call.pc \notin {"idle"} \cup LockSteps
  BY <1>1 DEF Inv, TypeOK, LockSteps
<1> QED
  BY <1>1, <1>2, <1>3, <1>4, <1>5, ClosesKeeps

LEMMA SettleGoneKeeps ==
  ASSUME Inv, Frame, SettleGone
  PROVE  Inv'
<1>1. call.pc = "settle" /\ ~Alive /\ Errs(session.paused)
  BY DEF SettleGone
<1>2. session.paused \in BOOLEAN
  BY <1>1 DEF Inv, TypeOK, Placed, SessionSet
<1>3. ~(pad # Nothing /\ pad.input = "paused")
  BY <1>1 DEF Inv, PausedIsHeld
<1> QED
  BY <1>1, <1>2, <1>3, ErrsKeeps DEF LockSteps

LEMMA SendGoneKeeps ==
  ASSUME Inv, Frame, SendGone
  PROVE  Inv'
<1>1. call.pc = "send" /\ ~Alive /\ Errs(PausedAfterSilence)
  BY DEF SendGone
<1>2. PausedAfterSilence \in BOOLEAN
  BY <1>1 DEF Inv, TypeOK, Placed, SessionSet, PausedAfterSilence
<1>3. ~(pad # Nothing /\ pad.input = "paused")
  BY <1>1 DEF Inv, PausedIsHeld
<1> QED
  BY <1>1, <1>2, <1>3, ErrsKeeps DEF LockSteps

\* The report in front of the queue that is taken is the answer, the last one to come.
LEMMA TakenIs ==
  ASSUME Inv, Taken
  PROVE  /\ call.pc = "wait" /\ session # Nothing /\ session \in SessionSet
         /\ call.todo \in Seq(PacketSet) /\ call.todo # <<>>
         /\ session.queue \in Seq(Reply) /\ Len(session.queue) = 1
         /\ Answers(Head(session.queue)) /\ Head(session.queue) \in Reply
         /\ Waited \in PacketSet /\ Waited.cmd \in Cmd
         /\ (Alive => pad.owed = <<>>)
<1>1. /\ call.pc = "wait" /\ session.queue # <<>> /\ session # Nothing /\ session \in SessionSet
      /\ Echo(Head(session.queue).cmd) = Echo(Waited.cmd)
      /\ call.todo # <<>> /\ call \in CallSet
  BY DEF Taken, Inv, Placed, Planned, TypeOK
<1>2. call.todo \in Seq(PacketSet) /\ session.queue \in Seq(Reply)
  BY <1>1 DEF CallSet, SessionSet
<1>3. Waited \in PacketSet /\ 1 \in DOMAIN session.queue /\ Len(session.queue) \in Nat
      /\ Head(session.queue) = session.queue[1] /\ Head(session.queue) \in Reply
  BY <1>1, <1>2 DEF Waited
<1>4. Waited.cmd \in Cmd
  BY <1>3 DEF PacketSet, Chunked, Cmd
<1>5. session.queue[1].cmd # "input"
  BY <1>1, <1>3, <1>4 DEF Echo, Cmd
<1>6. Len(session.queue) = 1 /\ Answers(session.queue[1])
  BY <1>1, <1>3, <1>5 DEF Inv, InFlight
<1>7. Alive => pad.owed = <<>>
  BY <1>1, <1>3, <1>5 DEF Inv, InFlight
<1> QED
  BY <1>1, <1>2, <1>3, <1>4, <1>6, <1>7

LEMMA RejectsKeeps ==
  ASSUME Inv, Frame, Rejects
  PROVE  Inv'
<1>1. Taken /\ Errs(session.paused)
  BY DEF Rejects
<1>2. session.paused = TRUE /\ call.pc = "wait" /\ (Alive => Kind.speaks)
  BY <1>1, TakenIs DEF SessionSet, Answers
<1> QED
  BY <1>1, <1>2, ErrsKeeps DEF LockSteps

LEMMA ExpireKeeps ==
  ASSUME Inv, Frame, Expire
  PROVE  Inv'
<1>1. /\ call.pc = "wait" /\ session.queue = <<>> /\ Errs(PausedAfterSilence)
      /\ session # Nothing /\ session \in SessionSet
  BY DEF Expire, Inv, TypeOK, Placed
<1>2. /\ session.paused = TRUE /\ session.port \in DOMAIN Ports
      /\ PausedAfterSilence \in BOOLEAN
      /\ PausedAfterSilence <=> ~(First /\ Ports[session.port].framing = "wrapped")
  BY <1>1 DEF SessionSet, PausedAfterSilence
<1>3. pad # Nothing /\ pad.input = "paused" => PausedAfterSilence
  BY <1>1, <1>2 DEF Inv, PausedIsHeld
<1>4. ASSUME PausedAfterSilence, Alive
      PROVE  Kind.speaks
  <2>1. CASE session.model # Nothing
    BY <1>4, <2>1, KnownSpeaks
  <2>2. CASE session.model = Nothing /\ ~Kind.speaks
    <3>1. pad # Nothing /\ pad.id = session.port
      BY <1>4 DEF Alive, Inv, Known
    <3>2. Ports[session.port].names = Nothing /\ Ports[session.port].framing = "wrapped"
      BY <1>2, <2>2, <3>1, DumbIsWrapped
    <3>3. call.opening
      BY <1>1, <2>2 DEF Inv, Placed
    <3>4. call.todo = Opening(session.model)
      BY <1>1, <3>3 DEF Inv, Planned
    <3>5. First
      BY <2>2, <3>2, <3>3, <3>4 DEF First
    <3> QED
      BY <1>2, <1>4, <3>2, <3>5
  <2> QED
    BY <2>1, <2>2
<1> QED
  BY <1>1, <1>2, <1>3, <1>4, ErrsKeeps DEF LockSteps

-------------------------------------------------------------------------------
LEMMA HeadAndTail ==
  ASSUME NEW S, NEW q \in Seq(S), q # <<>>
  PROVE  /\ Head(q) = q[1] /\ Head(q) \in S /\ Tail(q) \in Seq(S) /\ Len(q) \in Nat \ {0}
         /\ Len(Tail(q)) = Len(q) - 1 /\ (Len(q) = 1 => Tail(q) = <<>>)
         /\ \A i \in DOMAIN Tail(q) : i \in Nat \ {0} /\ i + 1 \in DOMAIN q /\ Tail(q)[i] = q[i + 1]
                                      /\ (i > 1 => i - 1 \in DOMAIN Tail(q))
         /\ \A i \in DOMAIN q : i # 1 => i \in Nat /\ i - 1 \in DOMAIN Tail(q) /\ Tail(q)[i - 1] = q[i]
         /\ (Tail(q) # <<>> => 1 \in DOMAIN Tail(q) /\ Tail(q)[1] = q[2] /\ 2 \in DOMAIN q)
<1>1. Len(q) \in Nat \ {0} /\ DOMAIN q = 1..Len(q) /\ Tail(q) \in Seq(S)
      /\ Len(Tail(q)) = Len(q) - 1 /\ DOMAIN Tail(q) = 1..(Len(q) - 1)
      /\ Head(q) = q[1] /\ \A i \in 1..(Len(q) - 1) : Tail(q)[i] = q[i + 1]
  OBVIOUS
<1>2. Head(q) \in S /\ (Len(q) = 1 => Tail(q) = <<>>)
  BY <1>1
<1>3. Tail(q) # <<>> => Len(q) > 1
  BY <1>1, <1>2
<1> QED
  BY <1>1, <1>2, <1>3

\* What is left of a call once its packet is answered.
LEMMA LeftIs ==
  ASSUME Inv, Taken, NEW reply, reply = Head(session.queue), Valid(reply, Waited),
         NEW left, left = Left(reply)
  PROVE  /\ left \in Seq(PacketSet)
         /\ call.opening => \/ left = <<>> /\ (session.model # Nothing \/ Waited.cmd = "start")
                            \/ Waited.cmd = "start" /\ left = Opening(reply.of) /\ left # <<>>
         /\ ~call.opening => left = Tail(call.todo) /\ Waited.cmd # "start"
         /\ call.opening => Waited.cmd \in {"start", "firmware"}
         /\ Waited.cmd = "start" =>
              /\ reply.of \in DOMAIN Models /\ session.model = Nothing
              /\ Ports[session.port].names = Nothing
              /\ left # <<>> => left[1].cmd = "firmware"
<1>1. /\ call.pc = "wait" /\ session # Nothing /\ session \in SessionSet
      /\ call.todo \in Seq(PacketSet) /\ call.todo # <<>> /\ Waited = call.todo[1]
  BY TakenIs, HeadAndTail, Zenon DEF Waited
<1>2. session.model \in DOMAIN Models \cup {Nothing}
  BY <1>1 DEF SessionSet
<1>3. CASE call.opening
  <2>1. call.todo = Opening(session.model)
    BY <1>1, <1>3 DEF Inv, Planned
  <2>0. /\ Len(call.todo) = 1 /\ call.todo[1].cmd \in {"start", "firmware"}
        /\ (session.model = Nothing => call.todo[1].cmd = "start")
        /\ (session.model # Nothing => call.todo[1].cmd = "firmware")
    <3> DEFINE q == Opening(session.model)
    <3>1. /\ q # <<>> => Len(q) = 1 /\ q[1].cmd \in {"start", "firmware"}
          /\ session.model = Nothing => q[1].cmd = "start"
          /\ session.model # Nothing /\ q # <<>> => q[1].cmd = "firmware"
      BY <1>2, OpeningIs
    <3>2. call.todo = q
      BY <2>1
    <3> HIDE DEF q
    <3> QED
      BY <1>1, <3>1, <3>2
  <2>2. /\ Waited.cmd \in {"start", "firmware"} /\ Tail(call.todo) = <<>>
        /\ (session.model = Nothing => Waited.cmd = "start")
        /\ (session.model # Nothing => Waited.cmd = "firmware")
    BY <1>1, <2>0, HeadAndTail
  <2>5. <<>> \in Seq(PacketSet)
    OBVIOUS
  <2>3. CASE Waited.cmd = "start"
    <3>1. reply.of \in DOMAIN Models /\ reply.of # Nothing /\ session.model = Nothing
      BY <2>2, <2>3, SessionAssumption DEF Valid
    <3>2. Ports[session.port].names = Nothing
      BY <1>1, <3>1 DEF Inv, Known
    <3>3. CASE Models[reply.of].asks
      <4>1. left = <<Simple("firmware")>> /\ left = Opening(reply.of)
        BY <2>3, <3>1, <3>3, Zenon DEF Left, Opening
      <4>2. left # <<>>
        <5>1. <<Simple("firmware")>> # <<>>
          OBVIOUS
        <5> QED
          BY <4>1, <5>1, Zenon
      <4>3. left \in Seq(PacketSet) /\ left[1].cmd = "firmware"
        BY <3>1, <4>1, <4>2, OpeningIs
      <4> QED
        BY <1>3, <2>3, <3>1, <3>2, <4>1, <4>2, <4>3
    <3>4. CASE ~Models[reply.of].asks
      <4>1. left = <<>>
        BY <2>2, <3>4 DEF Left
      <4> QED
        BY <1>3, <2>2, <2>3, <2>5, <3>1, <3>2, <4>1
    <3> QED
      BY <3>3, <3>4
  <2>4. CASE Waited.cmd # "start"
    <3>1. left = <<>>
      BY <2>2, <2>4 DEF Left
    <3> QED
      BY <1>3, <2>2, <2>4, <2>5, <3>1
  <2> QED
    BY <2>3, <2>4
<1>4. CASE ~call.opening
  <2>1. Waited.cmd \notin {"start", "firmware"}
    BY <1>1, <1>4 DEF Inv, Planned
  <2>2. left = Tail(call.todo)
    BY <2>1 DEF Left
  <2>3. left \in Seq(PacketSet)
    <3>1. call.todo \in Seq(PacketSet) /\ call.todo # <<>>
      BY <1>1
    <3>2. Tail(call.todo) \in Seq(PacketSet)
      BY <3>1
    <3> QED
      BY <2>2, <3>2
  <2> QED
    BY <1>4, <2>1, <2>2, <2>3
<1> QED
  BY <1>3, <1>4

\* What a call has read is of the bank it asked of.
LEMMA ReadKeeps ==
  ASSUME Inv, Taken, NEW reply, reply = Head(session.queue), NEW read,
         read = call.read \cup (IF Waited.cmd = "upload" THEN {<<call.bank, reply.of>>} ELSE {})
  PROVE  /\ read \in SUBSET ((AllModes \cup {Nothing}) \X Ofs)
         /\ \A asked \in read : asked[1] = asked[2]
<1>1. call \in CallSet /\ reply \in Reply /\ Answers(reply)
  BY TakenIs DEF Inv, TypeOK
<1>2. reply.of \in Ofs
  BY <1>1 DEF Reply
<1>3. read \in SUBSET ((AllModes \cup {Nothing}) \X Ofs)
  BY <1>1, <1>2 DEF CallSet
<1>4. \A asked \in read : asked[1] = asked[2]
  BY <1>1 DEF Inv, OnItsBank, Answers
<1> QED
  BY <1>3, <1>4

\* Of what a call had to write, each chunk was written or is left.
LEMMA TakenKeeps ==
  ASSUME Inv, Taken, NEW reply, reply = Head(session.queue), Valid(reply, Waited),
         NEW left, left = Left(reply)
  PROVE  /\ ~call.opening /\ call.op = "write" => \A part \in Parts :
              part \in call.handled \/ \E i \in DOMAIN left : left[i] = Packet("write", part)
         /\ ~call.opening /\ call.op = "macro" => \A part \in Parts :
              part \in call.handled \/ \E i \in DOMAIN left : left[i] = Packet("writemacro", part)
         /\ call.handled \in SUBSET Parts
<1>1. /\ call.pc = "wait" /\ call \in CallSet /\ reply \in Reply /\ Answers(reply)
      /\ call.todo \in Seq(PacketSet) /\ call.todo # <<>> /\ Waited = call.todo[1]
  <2>1. /\ call.pc = "wait" /\ reply \in Reply /\ Answers(reply)
        /\ call.todo \in Seq(PacketSet) /\ call.todo # <<>>
    BY TakenIs
  <2>2. Waited = call.todo[1]
    BY <2>1, HeadAndTail, Zenon DEF Waited
  <2> QED
    BY <2>1, <2>2 DEF Inv, TypeOK
<1>2. ASSUME NEW cmd \in {"write", "writemacro"}, NEW part \in Parts, part \notin call.handled,
             ~call.opening, NEW i \in DOMAIN call.todo, call.todo[i] = Packet(cmd, part)
      PROVE  \E j \in DOMAIN left : left[j] = Packet(cmd, part)
  <2>1. i # 1
    <3>1. Packet(cmd, part).cmd = cmd /\ Packet(cmd, part).part = part
      BY DEF Packet
    <3> QED
      BY <1>1, <1>2, <3>1 DEF Answers
  <2>2. left = Tail(call.todo)
    BY <1>2, LeftIs
  <2>3. i \in Nat /\ i - 1 \in DOMAIN left /\ left[i - 1] = call.todo[i]
    BY <1>1, <1>2, <2>1, <2>2, HeadAndTail
  <2> QED
    BY <1>2, <2>3
<1>3. call.handled \in SUBSET Parts
  BY <1>1 DEF CallSet
<1> QED
  BY <1>1, <1>2, <1>3 DEF Inv, Planned

\* Once nothing is left, everything was handled.
LEMMA AllHandled ==
  ASSUME Inv, Taken, NEW reply, reply = Head(session.queue), Valid(reply, Waited),
         Left(reply) = <<>>, ~call.opening, call.op \in {"write", "macro"}
  PROVE  call.handled = Parts
<1>1. DOMAIN Left(reply) = {}
  OBVIOUS
<1>2. \A part \in Parts : part \in call.handled
  BY <1>1, TakenKeeps
<1>3. call.handled \in SUBSET Parts
  BY TakenKeeps
<1> QED
  BY <1>2, <1>3

LEMMA AcceptsLastKeeps ==
  ASSUME Inv, Frame, AcceptsLast
  PROVE  Inv'
<1> DEFINE reply == Head(session.queue)
           read == call.read \cup (IF Waited.cmd = "upload" THEN {<<call.bank, reply.of>>} ELSE {})
<1>1. /\ Taken /\ Valid(reply, Waited) /\ Left(reply) = <<>> /\ ~call.opening
      /\ session' = Nothing /\ pad' = Resumed(session.paused)
      /\ call' = [call EXCEPT !.pc = "idle", !.ok = TRUE, !.todo = <<>>, !.read = read]
      /\ UNCHANGED <<cache, job, calls, plugs>>
  BY DEF AcceptsLast
<1>0. /\ reply = Head(session.queue)
      /\ read = call.read \cup (IF Waited.cmd = "upload" THEN {<<call.bank, reply.of>>} ELSE {})
  OBVIOUS
<1> HIDE DEF reply, read
<1>2. read \in SUBSET ((AllModes \cup {Nothing}) \X Ofs) /\ \A asked \in read : asked[1] = asked[2]
  BY <1>0, <1>1, ReadKeeps
<1>3. call.op \in {"write", "macro"} => call.handled = Parts
  BY <1>0, <1>1, AllHandled
<1>4. call \in CallSet /\ "idle" \in Steps /\ <<>> \in Seq(PacketSet)
  <2>1. <<>> \in Seq(PacketSet)
    OBVIOUS
  <2> QED
    BY <2>1 DEF Inv, TypeOK, Steps
<1>5. /\ call' \in CallSet /\ call'.pc = "idle" /\ call'.op = call.op /\ call'.mode = call.mode
      /\ call'.read = read /\ call'.handled = call.handled
  BY <1>1, <1>2, <1>4 DEF CallSet
<1>6. session.paused = TRUE /\ call.pc = "wait" /\ (Alive => Kind.speaks)
  BY <1>1, TakenIs DEF SessionSet, Answers
<1>7. call.pc \notin {"idle"} \cup LockSteps
  BY <1>6 DEF LockSteps
<1>8. cache' \in DOMAIN Models \cup {Nothing}
  BY <1>1 DEF Inv, TypeOK
<1> QED
  BY <1>1, <1>2, <1>3, <1>5, <1>6, <1>7, <1>8, CloseKeeps

LEMMA AcceptsKeeps ==
  ASSUME Inv, Frame, Accepts
  PROVE  Inv'
<1> DEFINE reply == Head(session.queue)
           read == call.read \cup (IF Waited.cmd = "upload" THEN {<<call.bank, reply.of>>} ELSE {})
           left == Left(reply)
           next == IF left # <<>> THEN "send" ELSE IF call.opening THEN "start" ELSE "idle"
           model == IF Waited.cmd = "start" THEN reply.of ELSE session.model
<1>1. /\ Taken /\ Valid(reply, Waited)
      /\ left # <<>> \/ call.opening \/ session.held
      /\ session' = [session EXCEPT !.queue = Tail(@), !.model = model]
      /\ call' = [call EXCEPT !.todo = left, !.read = read, !.pc = next,
                              !.ok = left = <<>> /\ ~call.opening]
      /\ UNCHANGED <<pad, cache, job, calls, plugs>>
  BY DEF Accepts
<1>0. /\ reply = Head(session.queue) /\ left = Left(reply)
      /\ read = call.read \cup (IF Waited.cmd = "upload" THEN {<<call.bank, reply.of>>} ELSE {})
      /\ next = IF left # <<>> THEN "send" ELSE IF call.opening THEN "start" ELSE "idle"
      /\ model = IF Waited.cmd = "start" THEN reply.of ELSE session.model
  OBVIOUS
<1> HIDE DEF reply, left, read, next, model
<1>2. /\ call.pc = "wait" /\ session # Nothing /\ session \in SessionSet /\ call \in CallSet
      /\ call.todo \in Seq(PacketSet) /\ call.todo # <<>> /\ Waited = call.todo[1]
      /\ session.queue \in Seq(Reply) /\ Len(session.queue) = 1 /\ Answers(reply)
      /\ reply \in Reply /\ Waited.cmd \in Cmd /\ (Alive => pad.owed = <<>>)
      /\ call.op \in Ops /\ call.mode # Nothing
  <2>1. /\ call.pc = "wait" /\ session # Nothing /\ session \in SessionSet
        /\ call.todo \in Seq(PacketSet) /\ call.todo # <<>>
        /\ session.queue \in Seq(Reply) /\ Len(session.queue) = 1 /\ Answers(reply)
        /\ reply \in Reply /\ Waited.cmd \in Cmd /\ (Alive => pad.owed = <<>>)
    BY <1>0, <1>1, TakenIs
  <2>2. Waited = call.todo[1]
    BY <2>1, HeadAndTail, Zenon DEF Waited
  <2> QED
    BY <2>1, <2>2 DEF Inv, TypeOK, Placed, LockSteps
<1>3. /\ left \in Seq(PacketSet)
      /\ call.opening => \/ left = <<>> /\ (session.model # Nothing \/ Waited.cmd = "start")
                         \/ Waited.cmd = "start" /\ left = Opening(reply.of) /\ left # <<>>
      /\ ~call.opening => left = Tail(call.todo) /\ Waited.cmd # "start"
      /\ Waited.cmd = "start" =>
           /\ reply.of \in DOMAIN Models /\ session.model = Nothing
           /\ Ports[session.port].names = Nothing
           /\ left # <<>> => left[1].cmd = "firmware"
  BY <1>0, <1>1, LeftIs
<1>4. /\ read \in SUBSET ((AllModes \cup {Nothing}) \X Ofs)
      /\ \A asked \in read : asked[1] = asked[2]
      /\ ~call.opening /\ call.op = "write" => \A part \in Parts :
           part \in call.handled \/ \E i \in DOMAIN left : left[i] = Packet("write", part)
      /\ ~call.opening /\ call.op = "macro" => \A part \in Parts :
           part \in call.handled \/ \E i \in DOMAIN left : left[i] = Packet("writemacro", part)
  <2>1. Taken /\ Valid(reply, Waited)
    BY <1>1
  <2>2. /\ read \in SUBSET ((AllModes \cup {Nothing}) \X Ofs)
        /\ \A asked \in read : asked[1] = asked[2]
    BY <1>0, <2>1, ReadKeeps
  <2>3. ~call.opening /\ call.op = "write" => \A part \in Parts :
          part \in call.handled \/ \E i \in DOMAIN left : left[i] = Packet("write", part)
    BY <1>0, <2>1, TakenKeeps
  <2>4. ~call.opening /\ call.op = "macro" => \A part \in Parts :
          part \in call.handled \/ \E i \in DOMAIN left : left[i] = Packet("writemacro", part)
    BY <1>0, <2>1, TakenKeeps
  <2> QED
    BY <2>2, <2>3, <2>4
<1>5. left = <<>> /\ ~call.opening /\ call.op \in {"write", "macro"} => call.handled = Parts
  BY <1>0, <1>1, AllHandled
<1>6. /\ model \in DOMAIN Models \cup {Nothing} /\ session.port \in DOMAIN Ports
      /\ (Waited.cmd # "start" => model = session.model)
      /\ (Waited.cmd = "start" => model = reply.of /\ model # Nothing)
  BY <1>0, <1>2, <1>3, SessionAssumption DEF SessionSet
<1>7. /\ next \in {"send", "start", "idle"} /\ (next = "send" <=> left # <<>>)
      /\ (next = "start" => call.opening) /\ (next = "idle" => ~call.opening /\ session.held)
  BY <1>0, <1>1
<1>8. Tail(session.queue) = <<>> /\ <<>> \in Seq(Reply)
  <2>1. session.queue # <<>>
    BY <1>1 DEF Taken
  <2> QED
    BY <1>2, <2>1, HeadAndTail
<1>9. session' \in SessionSet
  BY <1>1, <1>2, <1>6, <1>8 DEF SessionSet
<1>10. /\ session' # Nothing /\ session'.queue = <<>> /\ session'.model = model
       /\ session'.plug = session.plug /\ session'.port = session.port
       /\ session'.held = session.held
  BY <1>1, <1>2, <1>8, <1>9, SomethingIs DEF SessionSet
<1>11. /\ call' \in CallSet /\ call'.pc = next /\ call'.op = call.op /\ call'.mode = call.mode
       /\ call'.todo = left /\ call'.read = read /\ call'.handled = call.handled
       /\ call'.bank = call.bank /\ call'.to = call.to /\ call'.opening = call.opening
       /\ (call'.ok => left = <<>> /\ ~call.opening)
  <2>1. {"send", "start", "idle"} \subseteq Steps
    BY DEF Steps
  <2>2. (left = <<>> /\ ~call.opening) \in BOOLEAN
    OBVIOUS
  <2> QED
    BY <1>1, <1>2, <1>3, <1>4, <1>7, <2>1, <2>2 DEF CallSet
<1>12. Alive' <=> Alive
  BY <1>1, <1>2, <1>10 DEF Alive
<1>13. Locks' /\ acting' \in BOOLEAN
  <2>1. call.op \notin {"unlock", "relock"}
    BY <1>2, SessionAssumption DEF ReadOps, WriteOps, JobOps
  <2>2. pad' = Nothing \/ (pad # Nothing /\ pad' # Nothing /\ pad'.kind = pad.kind
                           /\ pad'.id = pad.id /\ pad'.plug = pad.plug)
    BY <1>1
  <2> QED
    BY <1>1, <1>2, <1>7, <1>11, <2>1, <2>2, LocksKeep DEF LockSteps
<1>14. TypeOK'
  BY <1>1, <1>2, <1>9, <1>11, <1>13, TypesKeep DEF Inv, TypeOK
<1>15. Placed'
  <2>1. next = "start" => model # Nothing
    BY <1>3, <1>6, <1>7
  <2>2. ~call.opening => model # Nothing
    BY <1>2, <1>3, <1>6 DEF Inv, Placed
  <2> QED
    BY <1>1, <1>2, <1>6, <1>7, <1>10, <1>11, <2>1, <2>2 DEF Inv, Placed, LockSteps
<1>16. Planned'
  <2>1. CASE call.opening /\ next = "send"
    <3>1. left = Opening(model)
      BY <1>3, <1>6, <1>7, <2>1
    <3> QED
      BY <1>7, <1>10, <1>11, <2>1, <3>1 DEF Planned
  <2>2. CASE ~call.opening /\ next = "send"
    <3>1. left = Tail(call.todo) /\ model = session.model
      BY <1>3, <1>6, <2>2
    <3>2. /\ \A i \in DOMAIN left : i + 1 \in DOMAIN call.todo /\ left[i] = call.todo[i + 1]
          /\ \A i \in DOMAIN left : i \in Nat \ {0} /\ (i > 1 => i - 1 \in DOMAIN left)
      BY <1>2, <3>1, HeadAndTail
    <3>3. \A i \in DOMAIN call.todo :
            /\ call.todo[i].cmd \notin {"start", "firmware"}
            /\ call.todo[i].cmd = "upload" /\ i > 1 =>
                 call.todo[i - 1].cmd \in {"select", "upload"}
            /\ call.todo[i].cmd \in Lasts => call.op \in {"begin", "end"}
            /\ call.todo[i].cmd = "flip" => call.to \in Models[session.model].flips
      BY <1>2, <2>2 DEF Inv, Planned
    <3>4. ASSUME NEW i \in DOMAIN left
          PROVE  /\ left[i].cmd \notin {"start", "firmware"}
                 /\ left[i].cmd = "upload" /\ i > 1 => left[i - 1].cmd \in {"select", "upload"}
                 /\ left[i].cmd \in Lasts => call.op \in {"begin", "end"}
                 /\ left[i].cmd = "flip" => call.to \in Models[session.model].flips
      <4>1. i + 1 \in DOMAIN call.todo /\ left[i] = call.todo[i + 1] /\ i \in Nat \ {0}
        BY <3>2
      <4>2. i > 1 => left[i - 1] = call.todo[i]
        BY <3>2
      <4>3. i + 1 > 1 /\ (i + 1) - 1 = i
        BY <4>1
      <4> QED
        BY <3>3, <4>1, <4>2, <4>3
    <3> QED
      BY <1>4, <1>7, <1>10, <1>11, <2>2, <3>1, <3>4 DEF Planned
  <2>3. CASE next # "send"
    BY <1>7, <1>11, <2>3 DEF Planned
  <2> QED
    BY <2>1, <2>2, <2>3
<1>17. InFlight'
  BY <1>1, <1>2, <1>7, <1>10, <1>11, <1>12 DEF InFlight
<1>18. OnItsBank'
  <2>1. ASSUME next = "send", left[1].cmd = "upload", Alive
        PROVE  pad.bank = call.bank
    <3>1. ~call.opening /\ left = Tail(call.todo)
      BY <1>3, <1>7, <2>1
    <3>2. 2 \in DOMAIN call.todo /\ left[1] = call.todo[2]
      BY <1>2, <1>7, <2>1, <3>1, HeadAndTail
    <3>3. Waited.cmd \in {"select", "upload"}
      <4>1. call.todo[2].cmd = "upload" /\ 2 > 1 => call.todo[2 - 1].cmd \in {"select", "upload"}
        BY <1>2, <3>1, <3>2 DEF Inv, Planned
      <4> QED
        BY <1>2, <2>1, <3>2, <4>1
    <3> QED
      BY <1>2, <2>1, <3>3 DEF Answers, Inv, OnItsBank
  <2>2. next = "send" => Waited' = left[1]
    BY <1>3, <1>7, <1>11 DEF Waited
  <2> QED
    BY <1>1, <1>4, <1>7, <1>11, <1>12, <2>1, <2>2 DEF OnItsBank
<1>19. Whole'
  BY <1>5, <1>11 DEF Whole
<1>20. PausedIsHeld'
  BY <1>1, <1>7, <1>11, <1>12 DEF Inv, PausedIsHeld, Kind
<1>21. Known'
  <2>1. node' = node
    BY DEF Frame
  <2>2. Alive /\ Waited.cmd = "start" => Kind.speaks /\ reply.of = Kind.model
    BY <1>2 DEF Answers
  <2> QED
    BY <1>1, <1>2, <1>3, <1>6, <1>10, <1>12, <2>1, <2>2 DEF Inv, Known, Kind, Refused
<1>22. Strange' /\ UnknownIsLeftAlone'
  BY <1>1, SameHeard
<1> QED
  BY <1>13, <1>14, <1>15, <1>16, <1>17, <1>18, <1>19, <1>20, <1>21, <1>22 DEF Inv

-------------------------------------------------------------------------------
LEMMA SkipKeeps ==
  ASSUME Inv, Frame, Skip
  PROVE  Inv'
<1> DEFINE q == session.queue
           t == Tail(q)
<1>1. /\ call.pc = "wait" /\ q # <<>> /\ Echo(Head(q).cmd) # Echo(Waited.cmd)
      /\ session' = [session EXCEPT !.queue = t]
      /\ UNCHANGED <<pad, cache, job, call, calls, plugs>>
  BY DEF Skip
<1>2. /\ session # Nothing /\ session \in SessionSet /\ q \in Seq(Reply)
  BY <1>1 DEF Inv, TypeOK, Placed, SessionSet
<1>3. /\ t \in Seq(Reply) /\ 1 \in DOMAIN q /\ q[1].cmd = Head(q).cmd
      /\ \A i \in DOMAIN t : i \in Nat \ {0} /\ i + 1 \in DOMAIN q /\ t[i] = q[i + 1]
      /\ \A i \in DOMAIN q : i # 1 => i - 1 \in DOMAIN t /\ t[i - 1] = q[i]
      /\ Len(t) = Len(q) - 1 /\ Len(q) \in Nat
  <2>1. q # <<>>
    BY <1>1
  <2>2. q \in Seq(Reply)
    BY <1>2
  <2> HIDE DEF q
  <2> QED
    BY <2>1, <2>2, HeadAndTail
<1> HIDE DEF q, t
<1>4. q[1].cmd = "input"
  <2>1. q[1].cmd # Waited.cmd
    BY <1>1, <1>3
  <2> QED
    BY <1>1, <1>2, <1>3, <2>1 DEF Inv, InFlight, Answers, q
<1>5. /\ session' \in SessionSet /\ session' # Nothing /\ session'.queue = t
      /\ session'.plug = session.plug /\ session'.port = session.port
      /\ session'.model = session.model /\ session'.held = session.held
  BY <1>1, <1>2, <1>3, SomethingIs DEF SessionSet
<1>6. Alive' <=> Alive
  BY <1>1, <1>2, <1>5 DEF Alive
<1>7. Locks' /\ acting' \in BOOLEAN
  BY <1>1, LocksKeep
<1>8. TypeOK'
  BY <1>1, <1>5, <1>7, TypesKeep DEF Inv, TypeOK
<1>9. Placed' /\ Planned' /\ Whole'
  BY <1>1, <1>2, <1>5 DEF Inv, Placed, Planned, Whole
<1>10. OnItsBank'
  BY <1>1, <1>6 DEF Inv, OnItsBank, Waited
<1>11. InFlight'
  <2>1. ASSUME NEW report, Answers(report)
        PROVE  Answers(report)'
    BY <1>1, <1>6, <2>1 DEF Answers, Waited, Kind
  <2>2. ASSUME NEW i \in DOMAIN t, NEW report, report = t[i], report.cmd # "input"
        PROVE  i = Len(t) /\ Answers(report)'
    <3>1. i + 1 \in DOMAIN q /\ t[i] = q[i + 1] /\ i \in Nat
      BY <1>3
    <3>2. i + 1 = Len(q) /\ Answers(q[i + 1])
      BY <1>1, <1>2, <2>2, <3>1 DEF Inv, InFlight, q
    <3>3. Answers(report)
      BY <2>2, <3>1, <3>2
    <3> QED
      BY <1>3, <2>1, <3>1, <3>2, <3>3
  <2>3. ASSUME Alive, pad.owed # <<>>, NEW report, report = pad.owed[1]
        PROVE  /\ Len(pad.owed) = 1 /\ Answers(report)'
               /\ \A i \in DOMAIN t : t[i].cmd = "input"
    <3>1. /\ Len(pad.owed) = 1 /\ Answers(pad.owed[1])
          /\ \A i \in DOMAIN q : q[i].cmd = "input"
      BY <1>1, <1>2, <2>3 DEF Inv, InFlight, q
    <3>2. Answers(report)
      BY <2>3, <3>1
    <3> QED
      BY <1>3, <2>1, <3>1, <3>2
  <2>4. \A i \in DOMAIN session'.queue : session'.queue[i].cmd # "input" =>
          i = Len(session'.queue) /\ Answers(session.queue[i])'
    BY <1>5, <2>2
  <2>5. Alive' /\ pad'.owed # <<>> =>
          /\ Len(pad'.owed) = 1 /\ Answers(pad.owed[1])'
          /\ \A i \in DOMAIN session'.queue : session'.queue[i].cmd = "input"
    BY <1>1, <1>5, <1>6, <2>3
  <2> QED
    BY <1>1, <2>4, <2>5 DEF InFlight
<1>12. PausedIsHeld'
  <2>1. ASSUME NEW i \in DOMAIN q, q[i].cmd # "input"
        PROVE  \E j \in DOMAIN t : t[j].cmd # "input"
    BY <1>3, <1>4, <2>1
  <2> QED
    BY <1>1, <1>5, <1>6, <2>1 DEF Inv, PausedIsHeld, Kind, First, q
<1>13. Known'
  <2>1. node' = node
    BY DEF Frame
  <2> QED
    BY <1>1, <1>2, <1>5, <1>6, <2>1 DEF Inv, Known, Kind, Refused
<1>14. Strange' /\ UnknownIsLeftAlone'
  BY <1>1, SameHeard
<1> QED
  BY <1>7, <1>8, <1>9, <1>10, <1>11, <1>12, <1>13, <1>14 DEF Inv

-------------------------------------------------------------------------------
(***************************************************************************)
(* The pad takes a packet.                                                 *)
(***************************************************************************)
\* A session that knows its model is on no stranger's pad.
LEMMA KnownIsOurs ==
  ASSUME Inv, Alive, session.model # Nothing
  PROVE  ~Stranger(pad.kind)
<1>1. /\ pad.id = session.port /\ session \in SessionSet /\ pad # Nothing
      /\ pad.kind \in DOMAIN Kinds
  BY DEF Alive, Inv, TypeOK, Known, PadSet
<1>2. session.port \in DOMAIN Ports /\ session.model \in DOMAIN Models
  BY <1>1 DEF SessionSet
<1>3. CASE Ports[session.port].names = Nothing
  BY <1>2, <1>3 DEF Inv, Known, Stranger, Kind
<1>4. CASE Ports[session.port].names # Nothing
  <2>1. Stranger(pad.kind) => pad.id \in Shown(pad.kind)
    BY <1>1 DEF Inv, Strange
  <2> QED
    BY <1>1, <1>2, <1>4, <2>1, KindAssumption
<1> QED
  BY <1>3, <1>4

\* What is sent before the model is known is START_CONFIG.
LEMMA UnknownStarts ==
  ASSUME Inv, call.pc = "send", session.model = Nothing
  PROVE  call.opening /\ Waited.cmd = "start"
<1>1. session # Nothing /\ call.opening /\ call.todo = Opening(Nothing)
  BY DEF Inv, Placed, Planned
<1>2. call.todo = <<Simple("start")>>
  BY <1>1 DEF Opening
<1>3. Waited = Simple("start")
  BY <1>2 DEF Waited
<1> QED
  BY <1>1, <1>3 DEF Simple, Packet

LEMMA SendKeeps ==
  ASSUME Inv, Frame, call.pc = "send", Alive, UNCHANGED <<cache, job, calls, plugs>>,
         session' \in SessionSet, session'.plug = session.plug, session'.port = session.port,
         session'.model = session.model, session'.held = session.held,
         pad' \in PadSet, pad'.kind = pad.kind, pad'.slide = pad.slide, pad'.id = pad.id,
         pad'.plug = pad.plug, pad'.heard = pad.heard \cup {Waited.cmd},
         Waited.cmd = "upload" => pad'.bank = pad.bank,
         NEW handled \in SUBSET Parts, call.handled \subseteq handled,
         call' = [call EXCEPT !.pc = "wait", !.handled = handled, !.bank = Asked(Waited)],
         InFlight', PausedIsHeld'
  PROVE  Inv'
<1>1. /\ session # Nothing /\ session \in SessionSet /\ pad # Nothing /\ pad \in PadSet
      /\ session' # Nothing /\ pad' # Nothing /\ call \in CallSet /\ call.op \in Ops
      /\ call.mode # Nothing /\ pad.id = session.port
  BY SomethingIs DEF Alive, Inv, TypeOK, Placed, LockSteps, Known
<1>2. call.todo \in Seq(PacketSet) /\ call.todo # <<>> /\ Waited \in PacketSet
      /\ Waited = call.todo[1]
  <2>1. call.todo \in Seq(PacketSet) /\ call.todo # <<>>
    BY <1>1 DEF CallSet, Inv, Planned
  <2> QED
    BY <2>1, HeadAndTail DEF Waited
<1>3. Asked(Waited) \in AllModes \cup {Nothing}
  BY <1>1, <1>2 DEF Asked, PacketSet, Chunked, CallSet
<1>4. /\ call' \in CallSet /\ call'.pc = "wait" /\ call'.op = call.op /\ call'.mode = call.mode
      /\ call'.todo = call.todo /\ call'.read = call.read /\ call'.handled = handled
      /\ call'.bank = Asked(Waited) /\ call'.to = call.to /\ call'.opening = call.opening
  BY <1>1, <1>3 DEF CallSet, Steps
<1>5. Alive'
  BY <1>1 DEF Alive
<1>6. session.model = Nothing => Waited.cmd = "start"
  BY UnknownStarts
<1>7. Strange' /\ UnknownIsLeftAlone'
  <2>1. Stranger(pad.kind) => Waited.cmd = "start"
    BY <1>6, KnownIsOurs
  <2>2. ~Kind.speaks => Stranger(pad.kind)
    BY DEF Stranger, Kind
  <2>3. pad.id \in DOMAIN Ports /\ ~Refused(pad.id)
    BY <1>1 DEF SessionSet, Inv, Known
  <2> QED
    BY <1>1, <2>1, <2>2, <2>3, HeardKeeps
<1>8. Locks' /\ acting' \in BOOLEAN
  <2>1. call.op \notin {"unlock", "relock"}
    BY <1>1, SessionAssumption DEF ReadOps, WriteOps, JobOps
  <2> QED
    BY <1>1, <1>4, <2>1, LocksKeep DEF LockSteps
<1>9. TypeOK'
  BY <1>1, <1>4, <1>8, TypesKeep DEF Inv, TypeOK
<1>10. Placed'
  BY <1>1, <1>4 DEF Inv, Placed, LockSteps
<1>11. Planned'
  BY <1>4 DEF Inv, Planned
<1>12. OnItsBank'
  <2>1. Waited' = Waited
    BY <1>4 DEF Waited
  <2>2. Waited.cmd = "upload" => pad'.bank = call'.bank
    BY <1>4 DEF Asked, Inv, OnItsBank
  <2> QED
    BY <1>4, <2>1, <2>2 DEF Inv, OnItsBank
<1>13. Whole'
  BY <1>4 DEF Whole
<1>14. Known'
  <2>1. node' = node /\ Kind' = Kind
    BY DEF Frame, Kind
  <2> QED
    BY <1>1, <1>5, <2>1 DEF Inv, Known, Refused
<1> QED
  BY <1>7, <1>8, <1>9, <1>10, <1>11, <1>12, <1>13, <1>14 DEF Inv

\* The call's packet, and what it finds.
LEMMA SendingIs ==
  ASSUME Inv, call.pc = "send", Alive
  PROVE  /\ session # Nothing /\ session \in SessionSet /\ pad # Nothing /\ pad \in PadSet
         /\ call \in CallSet /\ session.queue = <<>> /\ pad.owed = <<>>
         /\ Waited \in PacketSet /\ Waited.cmd \in Cmd /\ Waited.cmd # "input"
         /\ Handles(Waited) \in SUBSET Parts /\ call.handled \subseteq Handles(Waited)
         /\ Waited.cmd \in {"write", "writemacro"} => Waited.part \in Handles(Waited)
         /\ Waited.cmd = "upload" => pad.bank = call.bank
<1>1. /\ session # Nothing /\ session \in SessionSet /\ pad # Nothing /\ pad \in PadSet
      /\ call \in CallSet /\ session.queue = <<>> /\ pad.owed = <<>>
  BY DEF Alive, Inv, TypeOK, InFlight
<1>2. call.todo \in Seq(PacketSet) /\ call.todo # <<>>
  BY <1>1 DEF CallSet, Inv, Planned
<1>3. Waited \in PacketSet
  BY <1>2, HeadAndTail DEF Waited
<1>4. Waited.cmd \in Cmd /\ Waited.cmd # "input"
      /\ (Waited.cmd \in {"write", "writemacro"} => Waited.part \in Parts)
  BY <1>3 DEF PacketSet, Chunked, Cmd
<1>5. call.handled \in SUBSET Parts
  BY <1>1 DEF CallSet
<1>6. Waited.cmd = "upload" => pad.bank = call.bank
  BY DEF Inv, OnItsBank
<1> QED
  BY <1>1, <1>3, <1>4, <1>5, <1>6 DEF Handles

\* Its answer, garbled or not, is the answer to the packet that waits from now on.
LEMMA AnswerAnswers ==
  ASSUME Inv, call.pc = "send", Alive, Kind.speaks, NEW report, report.cmd = Waited.cmd,
         Waited.cmd = "start" => report.of = Kind.model,
         Waited.cmd = "upload" => report.of = pad.bank,
         pad'.kind = pad.kind, Waited.cmd = "select" => pad'.bank = Waited.part,
         call'.todo = call.todo, call'.handled = Handles(Waited), call'.bank = Asked(Waited)
  PROVE  Answers(report)'
<1>1. /\ Waited' = Waited /\ Kind' = Kind
  BY DEF Waited, Kind
<1>2. /\ Waited.cmd \in {"write", "writemacro"} => Waited.part \in Handles(Waited)
      /\ Waited.cmd = "upload" => pad.bank = call.bank
  BY SendingIs
<1> QED
  BY <1>1, <1>2 DEF Answers, Asked

\* The answer is in the queue.
LEMMA AnsweredKeeps ==
  ASSUME Inv, Frame, call.pc = "send", Alive, UNCHANGED <<cache, job, calls, plugs>>,
         Kind.speaks, NEW report \in Reply, report.cmd = Waited.cmd,
         Waited.cmd = "start" => report.of = Kind.model,
         Waited.cmd = "upload" => report.of = pad.bank,
         session' = [session EXCEPT !.queue = Append(@, report)],
         pad' = Hears(pad, Waited),
         call' = [call EXCEPT !.pc = "wait", !.handled = Handles(Waited), !.bank = Asked(Waited)]
  PROVE  Inv'
<1>1. /\ session # Nothing /\ session \in SessionSet /\ pad # Nothing /\ pad \in PadSet
      /\ call \in CallSet /\ session.queue = <<>> /\ pad.owed = <<>>
      /\ Waited \in PacketSet /\ Waited.cmd \in Cmd /\ Waited.cmd # "input"
      /\ Handles(Waited) \in SUBSET Parts /\ call.handled \subseteq Handles(Waited)
  BY SendingIs
<1>2. /\ pad' \in PadSet /\ pad'.kind = pad.kind /\ pad'.slide = pad.slide /\ pad'.id = pad.id
      /\ pad'.plug = pad.plug /\ pad'.owed = <<>> /\ pad'.heard = pad.heard \cup {Waited.cmd}
      /\ pad'.bank = IF Waited.cmd = "select" THEN Waited.part ELSE pad.bank
  BY <1>1, HearsIs DEF Kind
<1> DEFINE q == <<report>>
<1>3. q \in Seq(Reply) /\ Len(q) = 1 /\ DOMAIN q = {1} /\ q[1] = report /\ q # <<>>
  OBVIOUS
<1>4. session' = [session EXCEPT !.queue = q]
  <2>1. Append(session.queue, report) = <<report>>
    BY <1>1
  <2> QED
    BY <2>1
<1> HIDE DEF q
<1>5. /\ session' \in SessionSet /\ session'.queue = q /\ session'.plug = session.plug
      /\ session'.port = session.port /\ session'.model = session.model
      /\ session'.held = session.held
  BY <1>1, <1>3, <1>4 DEF SessionSet
<1>6. /\ call'.pc = "wait" /\ call'.todo = call.todo /\ call'.handled = Handles(Waited)
      /\ call'.bank = Asked(Waited)
  BY <1>1 DEF CallSet
<1>7. session' # Nothing /\ pad' # Nothing
  BY <1>2, <1>5, SomethingIs
<1>8. Answers(report)'
  <2>1. Waited.cmd = "select" => pad'.bank = Waited.part
    BY <1>2
  <2> QED
    BY <1>2, <1>6, <2>1, AnswerAnswers
<1>9. InFlight'
  <2>1. \A i \in DOMAIN session'.queue : i = Len(session'.queue) /\ Answers(session.queue[i])'
    <3> SUFFICES ASSUME NEW i \in DOMAIN session'.queue
                 PROVE  i = Len(session'.queue) /\ Answers(session.queue[i])'
      OBVIOUS
    <3>1. i = 1 /\ session'.queue[i] = report /\ Len(session'.queue) = 1
      BY <1>3, <1>5
    <3>2. Answers(session.queue[i])'
      BY <1>8, <3>1
    <3> QED
      BY <3>1, <3>2
  <2> QED
    BY <1>2, <1>6, <2>1 DEF InFlight
<1>10. PausedIsHeld'
  <2>1. Alive' /\ Kind'.speaks
    BY <1>1, <1>2, <1>5, <1>7 DEF Alive, Kind
  <2>2. 1 \in DOMAIN session'.queue /\ session'.queue[1].cmd # "input"
    BY <1>1, <1>3, <1>5
  <2> QED
    BY <2>1, <2>2 DEF PausedIsHeld
<1>11. Waited.cmd = "upload" => pad'.bank = pad.bank
  BY <1>2
<1> QED
  BY <1>1, <1>2, <1>5, <1>9, <1>10, <1>11, SendKeeps

\* A packet on the first wrapped port that is not answered at once leaves no pad paused.
LEMMA UnansweredHeld ==
  ASSUME Inv, call.pc = "send", Alive, NEW p \in PadSet, p.plug = pad.plug, p.kind = pad.kind,
         p.input = "paused" => Kind.speaks, NEW m, m = Missed(p, Waited),
         session' = session, pad'.input = m.input, pad'.kind = pad.kind, pad'.plug = pad.plug,
         pad' # Nothing, call'.opening = call.opening, call'.todo = call.todo
  PROVE  PausedIsHeld'
<1>1. m.input = IF First /\ Ports[session.port].framing = "wrapped" /\ p.input = "paused"
                THEN "left" ELSE p.input
  BY SendingIs, MissedIs
<1>2. Alive' /\ Kind' = Kind /\ (First' <=> First)
  BY DEF Alive, Kind, First
<1> QED
  BY <1>1, <1>2 DEF PausedIsHeld

\* The answer is owed.
LEMMA OwedKeeps ==
  ASSUME Inv, Frame, call.pc = "send", Alive, UNCHANGED <<session, cache, job, calls, plugs>>,
         Kind.speaks, NEW report \in Reply, report.cmd = Waited.cmd,
         Waited.cmd = "start" => report.of = Kind.model,
         Waited.cmd = "upload" => report.of = pad.bank,
         pad' = [Missed(Hears(pad, Waited), Waited) EXCEPT !.owed = <<report>>],
         call' = [call EXCEPT !.pc = "wait", !.handled = Handles(Waited), !.bank = Asked(Waited)]
  PROVE  Inv'
<1> DEFINE h == Hears(pad, Waited)
           m == Missed(h, Waited)
           q == <<report>>
<1>1. /\ session # Nothing /\ session \in SessionSet /\ pad # Nothing /\ pad \in PadSet
      /\ call \in CallSet /\ session.queue = <<>> /\ pad.owed = <<>>
      /\ Waited \in PacketSet /\ Waited.cmd \in Cmd /\ Waited.cmd # "input"
      /\ Handles(Waited) \in SUBSET Parts /\ call.handled \subseteq Handles(Waited)
  BY SendingIs
<1>2. h = Hears(pad, Waited) /\ m = Missed(h, Waited)
  OBVIOUS
<1>3. q \in Seq(Reply) /\ Len(q) = 1 /\ q[1] = report
  OBVIOUS
<1>4. pad' = [m EXCEPT !.owed = q]
  OBVIOUS
<1> HIDE DEF h, m, q
<1>5. /\ h \in PadSet /\ h.kind = pad.kind /\ h.slide = pad.slide /\ h.id = pad.id
      /\ h.plug = pad.plug /\ h.heard = pad.heard \cup {Waited.cmd}
      /\ h.bank = IF Waited.cmd = "select" THEN Waited.part ELSE pad.bank
  BY <1>1, <1>2, HearsIs DEF Kind
<1>6. /\ m \in PadSet /\ m.kind = pad.kind /\ m.slide = pad.slide /\ m.id = pad.id
      /\ m.plug = pad.plug /\ m.heard = pad.heard \cup {Waited.cmd} /\ m.bank = h.bank
  <2>1. /\ m \in PadSet /\ m.kind = h.kind /\ m.slide = h.slide /\ m.id = h.id
        /\ m.plug = h.plug /\ m.heard = h.heard \cup {Waited.cmd} /\ m.bank = h.bank
    BY <1>1, <1>2, <1>5, MissedIs
  <2>2. h.heard \cup {Waited.cmd} = pad.heard \cup {Waited.cmd}
    BY <1>5
  <2> QED
    BY <1>5, <2>1, <2>2
<1>7. /\ pad' \in PadSet /\ pad'.kind = pad.kind /\ pad'.slide = pad.slide /\ pad'.id = pad.id
      /\ pad'.plug = pad.plug /\ pad'.owed = q /\ pad'.heard = pad.heard \cup {Waited.cmd}
      /\ pad'.bank = m.bank /\ pad'.input = m.input
  BY <1>3, <1>4, <1>6 DEF PadSet
<1>8. /\ call'.pc = "wait" /\ call'.todo = call.todo /\ call'.handled = Handles(Waited)
      /\ call'.bank = Asked(Waited) /\ call'.opening = call.opening
  BY <1>1 DEF CallSet
<1>9. pad' # Nothing
  BY <1>7, SomethingIs
<1>10. Answers(report)'
  <2>1. Waited.cmd = "select" => pad'.bank = Waited.part
    BY <1>5, <1>6, <1>7
  <2> QED
    BY <1>7, <1>8, <2>1, AnswerAnswers
<1>11. InFlight'
  <2>1. /\ Len(pad'.owed) = 1 /\ Answers(pad.owed[1])'
    <3>1. pad'.owed[1] = report
      BY <1>3, <1>7
    <3> QED
      BY <1>3, <1>7, <1>10, <3>1
  <2>2. DOMAIN session'.queue = {}
    BY <1>1
  <2> QED
    BY <1>8, <2>1, <2>2 DEF InFlight
<1>12. PausedIsHeld'
  BY <1>2, <1>5, <1>7, <1>8, <1>9, UnansweredHeld
<1>13. Waited.cmd = "upload" => pad'.bank = pad.bank
  BY <1>5, <1>6, <1>7
<1>14. session'.plug = session.plug /\ session'.port = session.port
       /\ session'.model = session.model /\ session'.held = session.held /\ session' \in SessionSet
  BY <1>1
<1> QED
  BY <1>1, <1>7, <1>11, <1>12, <1>13, <1>14, SendKeeps

\* The packet is lost.
LEMMA LostKeeps ==
  ASSUME Inv, Frame, call.pc = "send", Alive, UNCHANGED <<session, cache, job, calls, plugs>>,
         pad' = Missed(pad, Waited),
         call' = [call EXCEPT !.pc = "wait", !.bank = Asked(Waited)]
  PROVE  Inv'
<1>1. /\ session # Nothing /\ session \in SessionSet /\ pad # Nothing /\ pad \in PadSet
      /\ call \in CallSet /\ session.queue = <<>> /\ pad.owed = <<>> /\ Waited \in PacketSet
  BY SendingIs
<1> DEFINE m == Missed(pad, Waited)
<1>2. m = Missed(pad, Waited) /\ pad' = m
  OBVIOUS
<1> HIDE DEF m
<1>3. /\ pad' \in PadSet /\ pad'.kind = pad.kind /\ pad'.slide = pad.slide /\ pad'.id = pad.id
      /\ pad'.plug = pad.plug /\ pad'.owed = <<>> /\ pad'.heard = pad.heard \cup {Waited.cmd}
      /\ pad'.bank = pad.bank /\ pad'.input = m.input
  BY <1>1, <1>2, MissedIs
<1>4. call.handled \in SUBSET Parts /\ call.handled \subseteq call.handled
  BY <1>1 DEF CallSet
<1>5. /\ call' = [call EXCEPT !.pc = "wait", !.handled = call.handled, !.bank = Asked(Waited)]
      /\ call'.pc = "wait" /\ call'.todo = call.todo /\ call'.opening = call.opening
  BY <1>1 DEF CallSet
<1>6. pad' # Nothing
  BY <1>3, SomethingIs
<1>7. InFlight'
  <2>1. DOMAIN session'.queue = {}
    BY <1>1
  <2> QED
    BY <1>3, <1>5, <2>1 DEF InFlight
<1>8. PausedIsHeld'
  <2>1. pad.input = "paused" => Kind.speaks
    BY <1>1 DEF Inv, PausedIsHeld
  <2> QED
    BY <1>1, <1>2, <1>3, <1>5, <1>6, <2>1, UnansweredHeld
<1>9. session'.plug = session.plug /\ session'.port = session.port
      /\ session'.model = session.model /\ session'.held = session.held /\ session' \in SessionSet
  BY <1>1
<1>10. Waited.cmd = "upload" => pad'.bank = pad.bank
  BY <1>3
<1> QED
  BY <1>3, <1>4, <1>5, <1>7, <1>8, <1>9, <1>10, SendKeeps

LEMMA EachSendKeeps ==
  ASSUME Inv, Frame, Send
  PROVE  Inv'
<1> DEFINE a == Answer(Waited)
<1>1. call.pc = "send" /\ Alive /\ UNCHANGED <<cache, job, calls, plugs>>
  BY DEF Send
<1>2. pad \in PadSet /\ Waited \in PacketSet
  BY <1>1, SendingIs
<1>3. a = Answer(Waited)
  OBVIOUS
<1> HIDE DEF a
<1>4. /\ a \in Reply /\ a.cmd = Waited.cmd
      /\ Waited.cmd = "start" => a.of = Kind.model
      /\ Waited.cmd = "upload" => a.of = pad.bank
  BY <1>2, <1>3, AnswerIs
<1>5. ASSUME Kind.speaks, NEW garbled \in IF Waited.cmd \in Offsets THEN BOOLEAN ELSE {FALSE},
             session' = [session EXCEPT !.queue =
               Append(@, IF garbled THEN [a EXCEPT !.part = 0] ELSE a)],
             pad' = Hears(pad, Waited),
             call' = [call EXCEPT !.pc = "wait", !.handled = Handles(Waited),
                                  !.bank = Asked(Waited)]
      PROVE  Inv'
  <2> DEFINE r == IF garbled THEN [a EXCEPT !.part = 0] ELSE a
  <2>1. r \in Reply /\ r.cmd = a.cmd /\ r.of = a.of
    BY <1>4, <1>5, GarbledIs
  <2>2. session' = [session EXCEPT !.queue = Append(@, r)]
    BY <1>5
  <2> HIDE DEF r
  <2> QED
    BY <1>1, <1>4, <1>5, <2>1, <2>2, AnsweredKeeps
<1>6. ASSUME Kind.speaks, session' = session,
             pad' = [Missed(Hears(pad, Waited), Waited) EXCEPT !.owed = <<a>>],
             call' = [call EXCEPT !.pc = "wait", !.handled = Handles(Waited),
                                  !.bank = Asked(Waited)]
      PROVE  Inv'
  BY <1>1, <1>4, <1>6, OwedKeeps
<1>7. ASSUME session' = session, pad' = Missed(pad, Waited),
             call' = [call EXCEPT !.pc = "wait", !.bank = Asked(Waited)]
      PROVE  Inv'
  BY <1>1, <1>7, LostKeeps
<1> QED
  BY <1>5, <1>6, <1>7, Zenon DEF Send, a

-------------------------------------------------------------------------------
(***************************************************************************)
(* A pad that enumerates, and the steps of the cable.                      *)
(***************************************************************************)
Arrives(k, s, id) ==
  /\ pad' = Enumerated(k, s, id, plugs + 1) /\ plugs' = plugs + 1
  /\ driver' = "kernel" /\ acting' = FALSE /\ node' = node

LEMMA PlugsAre ==
  ASSUME Inv
  PROVE  /\ plugs \in 1..MaxPlugs /\ MaxPlugs \in Nat /\ plugs \in Nat /\ plugs + 1 \in Nat
         /\ plugs + 1 # plugs
<1>1. plugs \in 1..MaxPlugs
  BY DEF Inv, TypeOK
<1>2. MaxPlugs \in Nat
  BY SessionAssumption
<1> QED
  BY <1>1, <1>2

LEMMA ArrivesKeeps ==
  ASSUME Inv, NEW k \in DOMAIN Kinds, NEW s \in DOMAIN Kinds[k].ids, NEW id \in UsbIds,
         Arrives(k, s, id), plugs < MaxPlugs, session' \in {session, Nothing},
         Stranger(k) => id \in Shown(k),
         Unvalidated(k) => id \in Shown(k) \cup Unlocks[k] \cup {LockedUsb}
  PROVE  /\ pad' \in PadSet /\ pad' # Nothing /\ pad'.slide \in DOMAIN Kinds[pad'.kind].ids
         /\ ~Alive' /\ PausedIsHeld' /\ Known' /\ Locks' /\ Strange' /\ UnknownIsLeftAlone'
         /\ plugs' \in 1..MaxPlugs /\ driver' = "kernel" /\ acting' = FALSE /\ node' = node
<1>1. plugs \in 1..MaxPlugs /\ MaxPlugs \in Nat /\ plugs + 1 \in Nat
  BY PlugsAre
<1>2. /\ pad' \in PadSet /\ pad'.kind = k /\ pad'.slide = s /\ pad'.id = id
      /\ pad'.plug = plugs + 1 /\ pad'.input = "runs" /\ pad'.heard = {}
  BY <1>1, EnumeratedIs DEF Arrives
<1>3. pad' # Nothing
  BY <1>2, SomethingIs
<1>4. /\ node <= plugs /\ node \in Nat
      /\ session # Nothing => session.plug <= plugs /\ session.plug \in Nat
  BY DEF Inv, Known, TypeOK, SessionSet
<1>5. ~Alive'
  BY <1>1, <1>2, <1>4 DEF Alive
<1>6. ~NodeAlive'
  BY <1>1, <1>2, <1>4 DEF NodeAlive, Arrives
<1>7. plugs' = plugs + 1 /\ driver' = "kernel" /\ acting' = FALSE /\ node' = node
  BY DEF Arrives
<1>8. Known'
  BY <1>1, <1>2, <1>4, <1>5, <1>7 DEF Known, Inv, Refused
<1>9. Locks'
  BY <1>6, <1>7 DEF Locks
<1>10. Strange' /\ UnknownIsLeftAlone' /\ PausedIsHeld'
  BY <1>2 DEF Strange, UnknownIsLeftAlone, StrangersAreLeftAlone, PausedIsHeld
<1> QED
  BY <1>1, <1>2, <1>3, <1>5, <1>7, <1>8, <1>9, <1>10

\* A pad on a config port the app talks to is not of a model nobody validated.
LEMMA AliveIsValidated ==
  ASSUME Inv, Alive
  PROVE  ~Unvalidated(pad.kind)
<1>1. /\ pad.id = session.port /\ session \in SessionSet /\ pad # Nothing
      /\ pad.kind \in DOMAIN Kinds /\ ~Refused(session.port)
  BY DEF Alive, Inv, TypeOK, Known, PadSet
<1>2. pad.id \in DOMAIN Ports
  BY <1>1 DEF SessionSet
<1>3. Unvalidated(pad.kind) => pad.id \in Shown(pad.kind) \cup Unlocks[pad.kind]
  BY <1>1, <1>2, LockAssumption DEF Inv, Strange
<1> QED
  BY <1>1, <1>2, <1>3, KindAssumption

LEMMA SendLastKeeps ==
  ASSUME Inv, Frame, SendLast
  PROVE  Inv'
<1>1. /\ call.pc = "send" /\ Waited.cmd \in Lasts /\ session' = Nothing
      /\ call' = [call EXCEPT !.pc = "back", !.todo = <<>>]
      /\ UNCHANGED <<cache, job, calls>>
  BY DEF SendLast
<1>2. /\ session # Nothing /\ session \in SessionSet /\ call \in CallSet /\ call.op \in Ops
      /\ call.mode # Nothing /\ call.todo \in Seq(PacketSet) /\ call.todo # <<>>
  BY <1>1 DEF Inv, TypeOK, Placed, Planned, LockSteps, CallSet
<1>3. Waited = call.todo[1] /\ 1 \in DOMAIN call.todo
  BY <1>2, HeadAndTail DEF Waited
<1>4. session.model # Nothing
  BY <1>1, UnknownStarts DEF Lasts
<1>5. ~call.opening
  <2>1. SUFFICES ASSUME call.opening PROVE FALSE
    OBVIOUS
  <2>2. call.todo = Opening(session.model)
    BY <1>1, <2>1 DEF Inv, Planned
  <2>3. Waited.cmd = "firmware"
    BY <1>2, <1>3, <1>4, <2>2, OpeningIs DEF SessionSet
  <2> QED
    BY <1>1, <2>3 DEF Lasts
<1>6. /\ call.op \in {"begin", "end"}
      /\ Waited.cmd = "flip" => call.to \in Models[session.model].flips
  BY <1>1, <1>3, <1>5 DEF Inv, Planned
<1>7. /\ call' \in CallSet /\ call'.pc = "back" /\ call'.op = call.op /\ call'.mode = call.mode
      /\ call'.read = call.read
  <2>1. <<>> \in Seq(PacketSet) /\ "back" \in Steps
    BY DEF Steps
  <2> QED
    BY <1>1, <1>2, <2>1 DEF CallSet
<1>8. Placed' /\ Planned' /\ InFlight' /\ OnItsBank' /\ Whole'
  BY <1>1, <1>2, <1>6, <1>7
     DEF Inv, Placed, Planned, InFlight, OnItsBank, Whole, LockSteps
<1>9. session.model \in DOMAIN Models
  BY <1>2, <1>4 DEF SessionSet
<1>10. ASSUME Alive, plugs < MaxPlugs, plugs' = plugs + 1,
              pad' = Enumerated(pad.kind, pad.slide,
                       IF Waited.cmd = "flip" THEN IdOf(call.to) ELSE Kind.ids[pad.slide],
                       plugs + 1)
       PROVE  Inv'
  <2> DEFINE id == IF Waited.cmd = "flip" THEN IdOf(call.to) ELSE Kind.ids[pad.slide]
  <2>1. /\ pad # Nothing /\ pad \in PadSet /\ pad.kind \in DOMAIN Kinds
        /\ pad.slide \in DOMAIN Kinds[pad.kind].ids /\ pad.plug \in Nat
    BY <1>10 DEF Alive, Inv, TypeOK, PadSet
  <2>2. id \in UsbIds
    <3>1. CASE Waited.cmd = "flip"
      <4>1. \E i \in Models[session.model].ports : Ports[i].mode = call.to
        BY <1>6, <1>9, <3>1, DescriptionAssumption
      <4>2. IdOf(call.to) \in Models[session.model].ports
        BY <4>1 DEF IdOf
      <4> QED
        BY <1>9, <3>1, <4>2, DescriptionAssumption DEF UsbIds
    <3>2. CASE Waited.cmd # "flip"
      BY <2>1, <3>2 DEF UsbIds, Shown, Kind
    <3> QED
      BY <3>1, <3>2
  <2>3. ~Stranger(pad.kind) /\ ~Unvalidated(pad.kind)
    BY <1>4, <1>10, KnownIsOurs, AliveIsValidated
  <2>4. Arrives(pad.kind, pad.slide, id)
    <3>1. pad'.plug = plugs + 1
      BY <1>10 DEF Enumerated
    <3>2. pad.plug <= plugs /\ plugs \in Nat
      BY <2>1, PlugsAre DEF Inv, Known
    <3>3. pad'.plug # pad.plug /\ plugs' # plugs
      BY <1>10, <2>1, <3>1, <3>2
    <3>4. driver' = "kernel" /\ acting' = FALSE /\ node' = node
      BY <3>3 DEF Frame
    <3> QED
      BY <1>10, <3>4 DEF Arrives
  <2> HIDE DEF id
  <2>5. /\ pad' \in PadSet /\ pad' # Nothing /\ pad'.slide \in DOMAIN Kinds[pad'.kind].ids
        /\ ~Alive' /\ PausedIsHeld' /\ Known' /\ Locks' /\ Strange' /\ UnknownIsLeftAlone'
        /\ plugs' \in 1..MaxPlugs /\ driver' = "kernel" /\ acting' = FALSE /\ node' = node
    BY <1>1, <1>10, <2>1, <2>2, <2>3, <2>4, ArrivesKeeps
  <2>6. TypeOK'
    BY <1>1, <1>2, <1>7, <2>5 DEF Inv, TypeOK
  <2> QED
    BY <1>8, <2>5, <2>6 DEF Inv
<1>11. ASSUME Alive, plugs' = plugs,
              pad' = [pad EXCEPT !.input = IF @ = "paused" THEN "left" ELSE @,
                                 !.heard = @ \cup {Waited.cmd}]
       PROVE  Inv'
  <2>1. /\ pad # Nothing /\ pad \in PadSet /\ pad.id = session.port /\ ~Refused(session.port)
    BY <1>11 DEF Alive, Inv, TypeOK, Known
  <2>2. Waited.cmd \in Cmd
    BY <1>1 DEF Lasts, Cmd
  <2>3. /\ pad' \in PadSet /\ pad'.kind = pad.kind /\ pad'.slide = pad.slide /\ pad'.id = pad.id
        /\ pad'.plug = pad.plug /\ pad'.heard = pad.heard \cup {Waited.cmd}
        /\ pad'.input # "paused"
    BY <1>11, <2>1, <2>2 DEF PadSet
  <2>4. pad' # Nothing
    BY <2>3, SomethingIs
  <2>5. Strange' /\ UnknownIsLeftAlone'
    <3>1. Kind.speaks /\ ~Stranger(pad.kind)
      BY <1>4, <1>11, KnownSpeaks, KnownIsOurs
    <3>2. pad.id \in DOMAIN Ports /\ ~Refused(pad.id)
      BY <1>2, <2>1 DEF SessionSet
    <3> QED
      BY <2>1, <2>3, <2>4, <3>1, <3>2, HeardKeeps
  <2>6. Locks' /\ acting' \in BOOLEAN
    BY <1>1, <1>7, <1>11, <2>1, <2>3, <2>4, LocksKeep DEF LockSteps
  <2>7. TypeOK'
    BY <1>1, <1>2, <1>7, <1>11, <2>1, <2>3, <2>4, <2>6, TypesKeep DEF Inv, TypeOK
  <2>8. PausedIsHeld' /\ Known'
    <3>1. node' = node
      BY DEF Frame
    <3> QED
      BY <1>1, <1>11, <2>1, <2>3, <3>1 DEF PausedIsHeld, Inv, Known, Alive
  <2> QED
    BY <1>8, <2>5, <2>6, <2>7, <2>8 DEF Inv
<1>12. ASSUME ~Alive, UNCHANGED <<pad, plugs>>
       PROVE  Inv'
  <2>1. Strange' /\ UnknownIsLeftAlone'
    BY <1>12, SameHeard
  <2>2. Locks' /\ acting' \in BOOLEAN
    BY <1>1, <1>7, <1>12, LocksKeep DEF LockSteps
  <2>3. TypeOK'
    BY <1>1, <1>2, <1>7, <1>12, <2>2, TypesKeep DEF Inv, TypeOK
  <2>4. PausedIsHeld' /\ Known'
    <3>1. node' = node
      BY DEF Frame
    <3> QED
      BY <1>1, <1>12, <3>1 DEF PausedIsHeld, Inv, Known, Alive
  <2> QED
    BY <1>8, <2>1, <2>2, <2>3, <2>4 DEF Inv
<1> QED
  BY <1>10, <1>11, <1>12, Zenon DEF SendLast

-------------------------------------------------------------------------------
LEMMA PlugKeeps ==
  ASSUME Inv, Frame, NEW k \in DOMAIN Kinds, NEW s \in DOMAIN Kinds[k].ids, Plug(k, s)
  PROVE  Inv'
<1> DEFINE id == Kinds[k].ids[s]
<1>1. /\ pad = Nothing /\ plugs < MaxPlugs /\ plugs' = plugs + 1
      /\ pad' = Enumerated(k, s, id, plugs + 1)
      /\ UNCHANGED <<session, cache, job, call, calls>>
  BY DEF Plug
<1>2. id \in Shown(k) /\ id \in UsbIds
  BY DEF Shown, UsbIds
<1>3. ~acting
  BY <1>1 DEF Inv, Locks
<1>4. Arrives(k, s, id)
  <2>1. plugs' # plugs
    BY <1>1, PlugsAre
  <2>2. driver' = "kernel" /\ acting' = FALSE /\ node' = node
    BY <1>3, <2>1 DEF Frame
  <2> QED
    BY <1>1, <2>2 DEF Arrives
<1> HIDE DEF id
<1>5. /\ pad' \in PadSet /\ pad' # Nothing /\ pad'.slide \in DOMAIN Kinds[pad'.kind].ids
      /\ ~Alive' /\ PausedIsHeld' /\ Known' /\ Locks' /\ Strange' /\ UnknownIsLeftAlone'
      /\ plugs' \in 1..MaxPlugs /\ driver' = "kernel" /\ acting' = FALSE /\ node' = node
  BY <1>1, <1>2, <1>4, ArrivesKeeps
<1>6. TypeOK'
  BY <1>1, <1>5 DEF Inv, TypeOK
<1>7. Placed' /\ Planned' /\ Whole'
  BY <1>1 DEF Inv, Placed, Planned, Whole
<1>8. OnItsBank'
  BY <1>1, <1>5 DEF Inv, OnItsBank
<1>9. InFlight'
  <2>1. ASSUME NEW report, Answers(report)
        PROVE  Answers(report)'
    BY <1>1, <1>5, <2>1 DEF Answers, Waited
  <2> QED
    BY <1>1, <1>5, <2>1 DEF Inv, InFlight
<1> QED
  BY <1>5, <1>6, <1>7, <1>8, <1>9 DEF Inv

LEMMA UnplugKeeps ==
  ASSUME Inv, Frame, Unplug
  PROVE  Inv'
<1>1. pad' = Nothing /\ UNCHANGED <<session, cache, job, call, calls, plugs>>
  BY DEF Unplug
<1>2. ~Alive'
  BY <1>1 DEF Alive
<1>3. Locks' /\ acting' \in BOOLEAN
  BY <1>1, LocksKeep
<1>4. TypeOK'
  BY <1>1, <1>3, TypesKeep DEF Inv, TypeOK
<1>5. Placed' /\ Planned' /\ Whole' /\ OnItsBank' /\ PausedIsHeld'
  BY <1>1, <1>2 DEF Inv, Placed, Planned, Whole, OnItsBank, PausedIsHeld
<1>6. InFlight'
  <2>1. ASSUME NEW report, Answers(report)
        PROVE  Answers(report)'
    BY <1>1, <1>2, <2>1 DEF Answers, Waited
  <2> QED
    BY <1>1, <1>2, <2>1 DEF Inv, InFlight
<1>7. Known'
  <2>1. node' = node
    BY DEF Frame
  <2> QED
    BY <1>1, <1>2, <2>1 DEF Inv, Known, Refused
<1>8. Strange' /\ UnknownIsLeftAlone'
  BY <1>1, SameHeard
<1> QED
  BY <1>3, <1>4, <1>5, <1>6, <1>7, <1>8 DEF Inv

LEMMA InputReportKeeps ==
  ASSUME Inv, Frame, InputReport
  PROVE  Inv'
<1> DEFINE r == [cmd |-> "input", part |-> Nothing, of |-> Nothing]
           q == <<r>>
<1>1. /\ call.pc = "wait" /\ Alive /\ pad.input = "runs" /\ session.queue = <<>>
      /\ session' = [session EXCEPT !.queue = q]
      /\ UNCHANGED <<pad, cache, job, call, calls, plugs>>
  BY DEF InputReport
<1>2. r \in Reply /\ r.cmd = "input"
  <2>1. Nothing \in Ofs /\ "input" \in (Cmd \cup {"input"}) \ ({"select"} \cup Chunked)
    BY DEF Ofs, Chunked
  <2> QED
    BY <2>1 DEF Reply
<1> HIDE DEF r
<1>3. q \in Seq(Reply) /\ \A i \in DOMAIN q : q[i].cmd = "input"
  BY <1>2
<1> HIDE DEF q
<1>4. session # Nothing /\ session \in SessionSet /\ pad # Nothing
  BY <1>1 DEF Inv, TypeOK, Alive
<1>5. /\ session' \in SessionSet /\ session' # Nothing /\ session'.queue = q
      /\ session'.plug = session.plug /\ session'.port = session.port
      /\ session'.model = session.model /\ session'.held = session.held
  BY <1>1, <1>3, <1>4, SomethingIs DEF SessionSet
<1>6. Alive'
  BY <1>1, <1>4, <1>5 DEF Alive
<1>7. Locks' /\ acting' \in BOOLEAN
  BY <1>1, LocksKeep
<1>8. TypeOK'
  BY <1>1, <1>5, <1>7, TypesKeep DEF Inv, TypeOK
<1>9. Placed' /\ Planned' /\ Whole' /\ PausedIsHeld'
  BY <1>1, <1>4, <1>5 DEF Inv, Placed, Planned, Whole, PausedIsHeld
<1>10. OnItsBank'
  BY <1>1 DEF Inv, OnItsBank, Waited
<1>11. InFlight'
  <2>1. ASSUME NEW report, Answers(report)
        PROVE  Answers(report)'
    BY <1>1, <1>6, <2>1 DEF Answers, Waited, Kind
  <2>2. pad.owed # <<>> => Len(pad.owed) = 1 /\ Answers(pad.owed[1])
    BY <1>1, <1>4 DEF Inv, InFlight
  <2>3. pad'.owed # <<>> => Len(pad'.owed) = 1 /\ Answers(pad.owed[1])'
    BY <1>1, <2>1, <2>2
  <2>4. \A i \in DOMAIN session'.queue : session'.queue[i].cmd = "input"
    BY <1>3, <1>5
  <2> QED
    BY <1>1, <2>3, <2>4 DEF InFlight
<1>12. Known'
  <2>1. node' = node
    BY DEF Frame
  <2> QED
    BY <1>1, <1>4, <1>5, <1>6, <2>1 DEF Inv, Known, Kind, Refused
<1>13. Strange' /\ UnknownIsLeftAlone'
  BY <1>1, SameHeard
<1> QED
  BY <1>7, <1>8, <1>9, <1>10, <1>11, <1>12, <1>13 DEF Inv

LEMMA LateArrivesKeeps ==
  ASSUME Inv, Frame, LateArrives
  PROVE  Inv'
<1> DEFINE old == session.queue
           owed == pad.owed
           q == old \o owed
<1>1. /\ pad # Nothing /\ owed # <<>> /\ pad' = [pad EXCEPT !.owed = <<>>]
      /\ session' = IF Alive THEN [session EXCEPT !.queue = q] ELSE session
      /\ UNCHANGED <<cache, job, call, calls, plugs>>
  BY DEF LateArrives
<1>2. pad \in PadSet /\ owed \in Seq(Reply)
  BY <1>1 DEF Inv, TypeOK, PadSet
<1>3. /\ pad' \in PadSet /\ pad' # Nothing /\ pad'.owed = <<>> /\ pad'.kind = pad.kind
      /\ pad'.slide = pad.slide /\ pad'.id = pad.id /\ pad'.plug = pad.plug
      /\ pad'.input = pad.input /\ pad'.heard = pad.heard /\ pad'.bank = pad.bank
  <2>1. <<>> \in Seq(Reply)
    OBVIOUS
  <2>2. pad' \in PadSet
    BY <1>1, <1>2, <2>1, Zenon DEF PadSet
  <2> QED
    BY <1>1, <1>2, <2>2, SomethingIs DEF PadSet
<1>4. Alive => session # Nothing /\ session \in SessionSet /\ old \in Seq(Reply)
  BY DEF Alive, Inv, TypeOK, SessionSet
<1>5. Alive => q \in Seq(Reply)
  BY <1>2, <1>4
<1>6. old \in Seq(Reply) =>
        /\ Len(q) = Len(old) + Len(owed) /\ Len(old) \in Nat /\ Len(owed) \in Nat
        /\ DOMAIN old = 1..Len(old) /\ DOMAIN q = 1..Len(q)
        /\ \A i \in 1..Len(q) : q[i] = IF i <= Len(old) THEN old[i] ELSE owed[i - Len(old)]
  <2> HIDE DEF old, owed
  <2> QED
    BY <1>2
<1> HIDE DEF q, old, owed
<1>7. ASSUME Alive
      PROVE  /\ session' \in SessionSet /\ session' # Nothing /\ session'.queue = q
             /\ session'.plug = session.plug /\ session'.port = session.port
             /\ session'.model = session.model /\ session'.held = session.held
  BY <1>1, <1>4, <1>5, <1>7, SomethingIs DEF SessionSet
<1>8. Alive' <=> Alive
  BY <1>1, <1>3, <1>7 DEF Alive
<1>9. /\ session' \in SessionSet \cup {Nothing} /\ (session' = Nothing <=> session = Nothing)
      /\ session # Nothing =>
           /\ session'.plug = session.plug /\ session'.port = session.port
           /\ session'.model = session.model /\ session'.held = session.held
  BY <1>1, <1>4, <1>7 DEF Inv, TypeOK
<1>10. Locks' /\ acting' \in BOOLEAN
  BY <1>1, <1>3, LocksKeep
<1>11. TypeOK'
  BY <1>1, <1>3, <1>9, <1>10, TypesKeep DEF Inv, TypeOK
<1>12. Placed' /\ Planned' /\ Whole'
  BY <1>1, <1>9 DEF Inv, Placed, Planned, Whole
<1>13. OnItsBank'
  BY <1>1, <1>3, <1>8 DEF Inv, OnItsBank, Waited
<1>14. Kind' = Kind
  BY <1>3 DEF Kind
<1>15. ASSUME NEW report, Answers(report)
       PROVE  Answers(report)'
  BY <1>1, <1>3, <1>8, <1>14, <1>15 DEF Answers, Waited
<1>16. InFlight'
  <2>1. CASE ~Alive
    <3>1. session' = session
      BY <1>1, <2>1
    <3> QED
      BY <1>1, <1>8, <1>15, <2>1, <3>1 DEF Inv, InFlight
  <2>2. CASE Alive /\ call.pc = "settle"
    BY <1>1, <2>2 DEF InFlight
  <2>3. CASE Alive /\ call.pc # "settle"
    <3>1. /\ call.pc = "wait" /\ Len(owed) = 1 /\ Answers(owed[1])
          /\ \A i \in DOMAIN old : old[i].cmd = "input"
      BY <1>1, <1>4, <2>3 DEF Inv, InFlight, old, owed
    <3>2. ASSUME NEW i \in DOMAIN q, NEW report, report = q[i], report.cmd # "input"
          PROVE  i = Len(q) /\ Answers(report)'
      <4>1. i > Len(old) /\ i \in Nat
        BY <1>4, <1>6, <2>3, <3>1, <3>2
      <4>2. i = Len(q) /\ report = owed[1]
        BY <1>4, <1>6, <2>3, <3>1, <3>2, <4>1
      <4> QED
        BY <1>15, <3>1, <4>2
    <3>3. \A i \in DOMAIN session'.queue : session'.queue[i].cmd # "input" =>
            i = Len(session'.queue) /\ Answers(session.queue[i])'
      BY <1>7, <2>3, <3>2
    <3> QED
      BY <1>1, <1>3, <3>1, <3>3 DEF InFlight
  <2> QED
    BY <2>1, <2>2, <2>3
<1>17. PausedIsHeld'
  <2>1. ASSUME Alive, NEW i \in DOMAIN old, old[i].cmd # "input"
        PROVE  i \in DOMAIN q /\ q[i].cmd # "input"
    BY <1>4, <1>6, <2>1
  <2> QED
    BY <1>1, <1>3, <1>7, <1>8, <1>9, <1>14, <2>1 DEF Inv, PausedIsHeld, First, old
<1>18. Known'
  <2>1. node' = node
    BY DEF Frame
  <2> QED
    BY <1>1, <1>3, <1>8, <1>9, <1>14, <2>1 DEF Inv, Known, Refused, Alive
<1>19. Strange' /\ UnknownIsLeftAlone'
  BY <1>1, <1>3, SameHeard
<1> QED
  BY <1>10, <1>11, <1>12, <1>13, <1>16, <1>17, <1>18, <1>19 DEF Inv

-------------------------------------------------------------------------------
LEMMA SessionKeeps ==
  ASSUME Inv, SessionStep
  PROVE  Inv'
<1>1. Frame /\ SessionNext
  BY DEF SessionStep, Frame
<1>2. NoDevice \/ RefusesUnvalidated \/ OpenDenied => Inv'
  BY <1>1, FailsKeeps DEF NoDevice, RefusesUnvalidated, OpenDenied
<1>3. Exchange => Inv'
  BY <1>1, EachSendKeeps, SendGoneKeeps, SendLastKeeps, SkipKeeps, RejectsKeeps, AcceptsKeeps,
     AcceptsLastKeeps, ExpireKeeps DEF Exchange
<1> QED
  BY <1>1, <1>2, <1>3, CallKeeps, OpenKeeps, SettleKeeps, SettleGoneKeeps, RefusesInPlaceKeeps,
     StartsKeeps, ModelIsKnownKeeps, HoldsKeeps, LastKeeps, EndsInPlaceKeeps, EndsFlippedKeeps,
     CannotFlipKeeps, WaitKeeps, LateArrivesKeeps, InputReportKeeps, UnplugKeeps, PlugKeeps
     DEF SessionNext

-------------------------------------------------------------------------------
(***************************************************************************)
(* The steps of the lock, none of which has a session.                     *)
(***************************************************************************)
UnlockSteps == {"detach", "claim", "packets", "await", "release"}
RelockSteps == {"node", "reports", "locked"}

LEMMA LockStepKeeps ==
  ASSUME Inv, session = Nothing, UNCHANGED <<session, cache, job, plugs>>,
         calls' \in 0..MaxCalls, call' \in CallSet, call'.op \in {"unlock", "relock"},
         call'.pc \in LockSteps \cup {"idle"},
         call'.pc \in UnlockSteps => call'.op = "unlock",
         call'.pc \in RelockSteps => call'.op = "relock",
         call'.pc \in {"detach", "claim", "packets", "node", "reports"} => call'.todo # <<>>,
         \A asked \in call'.read : asked[1] = asked[2],
         \/ pad' = pad
         \/ /\ pad # Nothing /\ pad' \in PadSet /\ pad'.kind = pad.kind /\ pad'.slide = pad.slide
            /\ pad'.id = pad.id /\ pad'.plug = pad.plug /\ pad'.input = pad.input,
         UnknownIsLeftAlone',
         driver' \in {"kernel", "none", "us"}, node' \in Nat, node' <= plugs,
         acting' \in BOOLEAN, Locks'
  PROVE  Inv'
<1>1. call'.op \notin Ops
  BY SessionAssumption DEF ReadOps, WriteOps, JobOps
<1>2. /\ pad' # Nothing => pad # Nothing /\ pad' \in PadSet /\ pad'.kind = pad.kind
                           /\ pad'.slide = pad.slide /\ pad'.id = pad.id
                           /\ pad'.plug = pad.plug /\ pad'.input = pad.input
      /\ pad' \in PadSet \cup {Nothing}
  BY DEF Inv, TypeOK
<1>3. TypeOK'
  BY <1>1, <1>2 DEF Inv, TypeOK
<1>4. Placed'
  BY <1>1 DEF Placed, LockSteps, UnlockSteps, RelockSteps
<1>5. Planned' /\ InFlight' /\ OnItsBank' /\ Whole'
  BY DEF Planned, InFlight, OnItsBank, Whole, LockSteps
<1>6. PausedIsHeld'
  BY <1>2 DEF Inv, PausedIsHeld, Alive
<1>7. Known'
  BY <1>2 DEF Inv, Known, Alive
<1>8. Strange'
  BY <1>2 DEF Inv, Strange
<1> QED
  BY <1>3, <1>4, <1>5, <1>6, <1>7, <1>8 DEF Inv

\* What a step finds on the way.
LEMMA LockingIs ==
  ASSUME Inv, call.pc \in LockSteps
  PROVE  /\ session = Nothing /\ call \in CallSet /\ call.op \in {"unlock", "relock"}
         /\ (call.pc \in UnlockSteps <=> call.op = "unlock")
         /\ (call.pc \in RelockSteps <=> call.op = "relock")
         /\ calls \in 0..MaxCalls /\ driver \in {"kernel", "none", "us"} /\ node \in Nat
         /\ node <= plugs /\ acting \in BOOLEAN
         /\ \A asked \in call.read : asked[1] = asked[2]
BY DEF Inv, Placed, TypeOK, Known, OnItsBank, LockSteps, UnlockSteps, RelockSteps

\* A config port of the model that locks is not the locked pad's, and names the model.
LEMMA PortsOfTheLocked ==
  ASSUME NEW id \in Models[LockedModel].ports
  PROVE  /\ id \in DOMAIN Ports /\ id # LockedUsb /\ Ports[id].names = LockedModel
         /\ LockedModel # Nothing /\ ~Refused(id)
<1>1. LockedModel \in DOMAIN Models
  BY LockAssumption
<1>2. id \in DOMAIN Ports
  BY <1>1, DescriptionAssumption
<1> QED
  BY <1>1, <1>2, LockAssumption, KindAssumption, SessionAssumption DEF Refused

\* The pad keeps to itself, and the call goes on to a step of its own.
LEMMA GoesKeeps ==
  ASSUME Inv, call.pc \in LockSteps, Rest, pad' = pad, job' = job, NEW pc \in LockSteps,
         call.pc \in UnlockSteps <=> pc \in UnlockSteps, NEW todo \in Seq(PacketSet),
         NEW ok \in BOOLEAN, todo # <<>> \/ pc \notin {"detach", "claim", "packets", "node", "reports"},
         call' = [call EXCEPT !.pc = pc, !.ok = ok, !.todo = todo],
         driver' \in {"kernel", "none", "us"}, node' \in Nat, node' <= plugs, acting' = acting,
         Locks'
  PROVE  Inv'
<1>1. /\ session = Nothing /\ call \in CallSet /\ call.op \in {"unlock", "relock"}
      /\ (call.pc \in UnlockSteps <=> call.op = "unlock")
      /\ calls \in 0..MaxCalls /\ acting \in BOOLEAN
      /\ \A asked \in call.read : asked[1] = asked[2]
  BY LockingIs
<1>2. UNCHANGED <<session, cache, job, plugs>> /\ calls' = calls
  BY DEF Rest
<1>3. /\ call' \in CallSet /\ call'.pc = pc /\ call'.op = call.op /\ call'.read = call.read
      /\ call'.todo = todo
  BY <1>1 DEF CallSet, Steps
<1>4. (pc \in UnlockSteps => call.op = "unlock") /\ (pc \in RelockSteps => call.op = "relock")
  BY <1>1 DEF LockSteps, UnlockSteps, RelockSteps
<1>5. UnknownIsLeftAlone'
  BY SameHeard
<1> QED
  BY <1>1, <1>2, <1>3, <1>4, <1>5, LockStepKeeps

\* The call returns.
LEMMA ReturnsKeeps ==
  ASSUME Inv, call.pc \in LockSteps, Rest, pad' = pad, NEW ok \in BOOLEAN, Returns(ok),
         driver' \in {"kernel", "none", "us"}, node' = node, acting' = acting,
         driver' # "kernel" => ~IsLocked, ok => ~NodeAlive
  PROVE  Inv'
<1>1. /\ session = Nothing /\ call \in CallSet /\ call.op \in {"unlock", "relock"}
      /\ calls \in 0..MaxCalls /\ acting \in BOOLEAN /\ node \in Nat /\ node <= plugs
      /\ \A asked \in call.read : asked[1] = asked[2]
  BY LockingIs
<1>2. UNCHANGED <<session, cache, job, plugs>> /\ calls' = calls
      /\ call' = [call EXCEPT !.pc = "idle", !.ok = ok]
  BY <1>1 DEF Rest, Returns
<1>3. /\ call' \in CallSet /\ call'.pc = "idle" /\ call'.ok = ok /\ call'.op = call.op
      /\ call'.read = call.read
  BY <1>1, <1>2 DEF CallSet, Steps
<1>4. UnknownIsLeftAlone'
  BY SameHeard
<1>5. Locks'
  BY <1>3 DEF Inv, Locks, IsLocked, NodeAlive
<1> QED
  BY <1>1, <1>2, <1>3, <1>4, <1>5, LockStepKeeps DEF UnlockSteps, RelockSteps

LEMMA CallLockKeeps ==
  ASSUME Inv, NEW op \in {"unlock", "relock"}, CallLock(op)
  PROVE  Inv'
<1>1. /\ call.pc = "idle" /\ calls < MaxCalls /\ session = Nothing /\ pad # Nothing
      /\ op = "unlock" => IsLocked
      /\ op = "relock" => pad.id \in Models[LockedModel].ports
      /\ calls' = calls + 1 /\ node' = pad.plug
      /\ call' = [NoCall EXCEPT !.op = op, !.pc = IF op = "unlock" THEN "detach" ELSE "node",
                               !.todo = Sequence(op)]
      /\ UNCHANGED <<pad, session, cache, job, plugs, driver, acting>>
  BY DEF CallLock
<1>2. Sequence(op) \in Seq(PacketSet) /\ Sequence(op) # <<>>
  <2>1. Simple(op) \in PacketSet
    BY DEF Simple, Packet, PacketSet, Chunked, Cmd
  <2>2. UnlockPackets \in Nat \ {0}
    BY LockAssumption
  <2>3. Sequence(op) \in Seq(PacketSet) /\ Len(Sequence(op)) = UnlockPackets
    BY <2>1, <2>2 DEF Sequence
  <2>4. Sequence(op) # <<>>
    BY <2>2, <2>3
  <2> QED
    BY <2>3, <2>4
<1>3. /\ call'.op = op /\ call'.pc = IF op = "unlock" THEN "detach" ELSE "node"
      /\ call'.read = {} /\ call'.ok = FALSE /\ call'.todo = Sequence(op)
  BY <1>1 DEF NoCall
<1>4. call' \in CallSet
  <2> DEFINE pc == IF op = "unlock" THEN "detach" ELSE "node"
             todo == Sequence(op)
  <2>1. call' = [op |-> op, mode |-> Nothing, opening |-> FALSE, ok |-> FALSE, pc |-> pc,
                 todo |-> todo, to |-> Nothing, bank |-> Nothing, handled |-> {}, read |-> {}]
    BY <1>1 DEF NoCall
  <2>2. pc \in Steps
    BY DEF Steps, LockSteps
  <2>3. todo \in Seq(PacketSet)
    BY <1>2
  <2> HIDE DEF pc, todo
  <2> QED
    BY <2>1, <2>2, <2>3 DEF CallSet
<1>5. calls' \in 0..MaxCalls
  <2>1. calls \in 0..MaxCalls /\ MaxCalls \in Nat
    BY SessionAssumption DEF Inv, TypeOK
  <2> QED
    BY <1>1, <2>1
<1>6. node' \in Nat /\ node' <= plugs
  BY <1>1 DEF Inv, TypeOK, Known, PadSet
<1>7. UnknownIsLeftAlone'
  BY <1>1, SameHeard
<1>8. Locks'
  BY <1>1, <1>3 DEF Inv, Locks, IsLocked, NodeAlive
<1>9. driver' \in {"kernel", "none", "us"} /\ acting' \in BOOLEAN
  BY <1>1 DEF Inv, TypeOK
<1> QED
  BY <1>1, <1>2, <1>3, <1>4, <1>5, <1>6, <1>7, <1>8, <1>9, LockStepKeeps
     DEF LockSteps, UnlockSteps, RelockSteps

LEMMA CallIs ==
  ASSUME NEW c \in CallSet
  PROVE  /\ c.todo \in Seq(PacketSet) /\ c.ok \in BOOLEAN
         /\ \A pc \in Steps : [c EXCEPT !.pc = pc] =
              [c EXCEPT !.pc = pc, !.ok = c.ok, !.todo = c.todo]
         /\ \A pc \in Steps, ok \in BOOLEAN : [c EXCEPT !.pc = pc, !.ok = ok] =
              [c EXCEPT !.pc = pc, !.ok = ok, !.todo = c.todo]
BY DEF CallSet

LEMMA DetachKeeps ==
  ASSUME Inv, Detach \/ Claim
  PROVE  Inv'
<1> DEFINE pc == IF call.pc = "detach" THEN "claim" ELSE "packets"
<1>1. /\ call.pc \in {"detach", "claim"} /\ NodeAlive /\ driver' \in {"none", "us"}
      /\ call' = [call EXCEPT !.pc = pc] /\ job' = job /\ Rest /\ UNCHANGED <<pad, node, acting>>
  BY DEF Detach, Claim, Goes
<1>2. pc \in {"claim", "packets"}
  OBVIOUS
<1> HIDE DEF pc
<1>3. /\ call.pc \in LockSteps /\ call.pc \in UnlockSteps /\ pc \in LockSteps /\ pc \in UnlockSteps
      /\ pc \in Steps
  BY <1>1, <1>2 DEF LockSteps, UnlockSteps, Steps
<1>4. call \in CallSet /\ node \in Nat /\ node <= plugs /\ call.todo # <<>>
  BY <1>1, <1>3, LockingIs DEF Inv, Placed
<1>5. /\ call.todo \in Seq(PacketSet) /\ call.ok \in BOOLEAN
      /\ call' = [call EXCEPT !.pc = pc, !.ok = call.ok, !.todo = call.todo]
  BY <1>1, <1>3, <1>4, CallIs
<1>6. call'.pc = pc
  BY <1>1, <1>4 DEF CallSet
<1>7. Locks'
  BY <1>1, <1>2, <1>6 DEF Inv, Locks, IsLocked, NodeAlive
<1> QED
  BY <1>1, <1>3, <1>4, <1>5, <1>7, GoesKeeps

LEMMA GivesKeeps ==
  ASSUME Inv, StepFails \/ ComesUp \/ AwaitEnds
  PROVE  Inv'
<1>1. PICK ok \in BOOLEAN :
        /\ call.pc \in {"detach", "claim", "packets", "await"}
        /\ call' = [call EXCEPT !.pc = "release", !.ok = ok] /\ job' = job /\ Rest
        /\ UNCHANGED <<pad, lockVars>>
        /\ ok => call.pc = "await" /\ ~IsLocked
  BY DEF StepFails, ComesUp, AwaitEnds, Gives
<1>2. UNCHANGED <<driver, node, acting>>
  BY <1>1 DEF lockVars
<1>3. /\ call.pc \in LockSteps /\ call.pc \in UnlockSteps /\ "release" \in LockSteps
      /\ "release" \in UnlockSteps /\ "release" \in Steps
  BY <1>1 DEF LockSteps, UnlockSteps, Steps
<1>4. call \in CallSet /\ driver \in {"kernel", "none", "us"} /\ node \in Nat /\ node <= plugs
  BY <1>3, LockingIs
<1>5. /\ call.todo \in Seq(PacketSet)
      /\ call' = [call EXCEPT !.pc = "release", !.ok = ok, !.todo = call.todo]
  BY <1>1, <1>3, <1>4, CallIs
<1>6. call'.pc = "release" /\ call'.ok = ok
  BY <1>1, <1>4 DEF CallSet
<1>7. ok => ~NodeAlive
  BY <1>1 DEF Inv, Locks
<1>8. Locks'
  BY <1>1, <1>2, <1>6, <1>7 DEF Inv, Locks, IsLocked, NodeAlive
<1> QED
  BY <1>1, <1>2, <1>3, <1>4, <1>5, <1>8, GoesKeeps

LEMMA TailIsSome ==
  ASSUME NEW S, NEW q \in Seq(S), Len(q) > 1
  PROVE  Tail(q) # <<>>
<1>1. Len(q) # 0
  OBVIOUS
<1>2. Len(<<>>) = 0
  OBVIOUS
<1>3. q # <<>>
  BY <1>1, <1>2, Zenon
<1> DEFINE t == Tail(q)
<1>4. Len(t) = Len(q) - 1 /\ Len(q) \in Nat
  BY <1>3
<1> HIDE DEF t
<1>5. Len(t) # 0
  BY <1>4
<1>6. t # <<>>
  BY <1>2, <1>5, Zenon
<1> QED
  BY <1>6 DEF t

LEMMA ReturningKeeps ==
  ASSUME Inv, NodeDenied \/ NodeRefused \/ LockedShows \/ LockedEnds
              \/ (ReportGone /\ FirstPacket)
  PROVE  Inv'
<1>1. PICK ok \in BOOLEAN :
        /\ call.pc \in {"detach"} \cup RelockSteps /\ Returns(ok) /\ Rest
        /\ UNCHANGED <<pad, lockVars>>
        /\ ok => call.pc = "locked" /\ IsLocked
  BY DEF NodeDenied, NodeRefused, LockedShows, LockedEnds, ReportGone, RelockSteps
<1>2. UNCHANGED <<driver, node, acting>>
  BY <1>1 DEF lockVars
<1>3. call.pc \in LockSteps
  BY <1>1 DEF LockSteps, RelockSteps
<1>4. driver \in {"kernel", "none", "us"} /\ (driver # "kernel" => ~IsLocked)
  BY <1>1 DEF Inv, TypeOK, Locks, RelockSteps
<1>5. ok => ~NodeAlive
  BY <1>1, PortsOfTheLocked DEF Inv, Locks, IsLocked
<1> QED
  BY <1>1, <1>2, <1>3, <1>4, <1>5, ReturnsKeeps

LEMMA ReleaseKeeps ==
  ASSUME Inv, Release
  PROVE  Inv'
<1>1. /\ call.pc = "release" /\ Returns(call.ok) /\ driver' = GivenBack
      /\ Rest /\ UNCHANGED <<pad, node, acting>>
  BY DEF Release
<1>2. call.pc \in LockSteps /\ driver \in {"kernel", "none", "us"} /\ call.ok \in BOOLEAN
  BY <1>1 DEF LockSteps, Inv, TypeOK, CallSet
<1>3. driver' \in {"kernel", "none", "us"} /\ (driver' # "kernel" => ~IsLocked)
  BY <1>1, <1>2 DEF GivenBack, Inv, Locks
<1>4. call.ok => ~NodeAlive
  BY <1>1, <1>2, LockingIs DEF Inv, Locks
<1> QED
  BY <1>1, <1>2, <1>3, <1>4, ReturnsKeeps

LEMMA NodeOpensKeeps ==
  ASSUME Inv, NodeOpens
  PROVE  Inv'
<1>1. /\ call.pc = "node" /\ pad # Nothing /\ pad.id \in Models[LockedModel].ports
      /\ node' = pad.plug /\ call' = [call EXCEPT !.pc = "reports"] /\ job' = job
      /\ Rest /\ UNCHANGED <<pad, driver, acting>>
  BY DEF NodeOpens, Goes
<1>2. /\ call.pc \in LockSteps /\ call.pc \notin UnlockSteps /\ "reports" \in LockSteps
      /\ "reports" \notin UnlockSteps /\ "reports" \in Steps
  BY <1>1 DEF LockSteps, UnlockSteps, Steps
<1>3. call \in CallSet /\ driver \in {"kernel", "none", "us"} /\ call.todo # <<>>
  BY <1>1, <1>2, LockingIs DEF Inv, Placed
<1>4. /\ call.todo \in Seq(PacketSet) /\ call.ok \in BOOLEAN
      /\ call' = [call EXCEPT !.pc = "reports", !.ok = call.ok, !.todo = call.todo]
  BY <1>1, <1>2, <1>3, CallIs
<1>5. node' \in Nat /\ node' <= plugs
  BY <1>1 DEF Inv, TypeOK, Known, PadSet
<1>6. call'.pc = "reports"
  BY <1>1, <1>3 DEF CallSet
<1>7. Locks'
  BY <1>1, <1>6 DEF Inv, Locks, IsLocked, NodeAlive
<1> QED
  BY <1>1, <1>2, <1>3, <1>4, <1>5, <1>7, GoesKeeps

LEMMA LeftKeeps ==
  ASSUME Inv, GoneAfterFirst \/ (ReportGone /\ ~FirstPacket)
  PROVE  Inv'
<1> DEFINE pc == IF call.pc = "packets" THEN "await" ELSE "locked"
           todo == IF call.pc = "packets" THEN <<>> ELSE call.todo
<1>1. /\ call.pc \in {"packets", "reports"} /\ ~NodeAlive /\ job' = job /\ Rest
      /\ UNCHANGED <<pad, lockVars>>
      /\ \/ call' = [call EXCEPT !.pc = pc, !.todo = todo]
         \/ call' = [call EXCEPT !.pc = pc] /\ todo = call.todo
  BY DEF GoneAfterFirst, ReportGone, NextAfterUnlock, Goes
<1>2. UNCHANGED <<driver, node, acting>>
  BY <1>1 DEF lockVars
<1>3. /\ pc \in {"await", "locked"} /\ (pc = "await" <=> call.pc = "packets")
      /\ todo \in {<<>>, call.todo}
      /\ pc \notin {"detach", "claim", "packets", "node", "reports"}
  OBVIOUS
<1> HIDE DEF pc, todo
<1>4. /\ call.pc \in LockSteps /\ (call.pc \in UnlockSteps <=> pc \in UnlockSteps)
      /\ pc \in LockSteps /\ pc \in Steps
  BY <1>1, <1>3 DEF LockSteps, UnlockSteps, Steps
<1>5. call \in CallSet /\ driver \in {"kernel", "none", "us"} /\ node \in Nat /\ node <= plugs
  BY <1>4, LockingIs
<1>6. todo \in Seq(PacketSet) /\ call.ok \in BOOLEAN
  <2>1. <<>> \in Seq(PacketSet)
    OBVIOUS
  <2> QED
    BY <1>3, <1>5, <2>1 DEF CallSet
<1>7. /\ call' = [call EXCEPT !.pc = pc, !.ok = call.ok, !.todo = todo]
      /\ call'.pc = pc
  BY <1>1, <1>5 DEF CallSet
<1>8. Locks'
  BY <1>1, <1>2, <1>3, <1>7 DEF Inv, Locks, IsLocked, NodeAlive
<1> QED
  BY <1>1, <1>2, <1>3, <1>4, <1>5, <1>6, <1>7, <1>8, GoesKeeps

\* A packet of the unlock or the relock.
LEMMA PacketKeeps ==
  ASSUME Inv, UnlockPacket \/ Report
  PROVE  Inv'
<1> DEFINE c == IF call.pc = "packets" THEN "unlock" ELSE "relock"
<1>1. /\ call.pc \in {"packets", "reports"} /\ NodeAlive /\ Rest
      /\ UNCHANGED <<job, driver, node>>
      /\ pad' = [pad EXCEPT !.heard = @ \cup {c}] /\ acting' \in BOOLEAN
  BY DEF UnlockPacket, Report
<1>2. \/ call.pc = "packets" /\ IsLocked
      \/ call.pc = "reports" /\ pad.id \in Models[LockedModel].ports
  <2>1. /\ call.pc = "packets" /\ NodeAlive => IsLocked
        /\ call.pc = "reports" /\ NodeAlive => pad.id \in Models[LockedModel].ports
    BY DEF Inv, Locks
  <2> QED
    BY <1>1, <2>1
<1>3. c \in Cmd /\ (c = "unlock" <=> call.pc = "packets") /\ (c = "relock" <=> call.pc = "reports")
  BY <1>1 DEF Cmd
<1> HIDE DEF c
<1>4. call.pc \in LockSteps /\ pad # Nothing /\ pad \in PadSet
  BY <1>1 DEF LockSteps, NodeAlive, Inv, TypeOK
<1>5. /\ session = Nothing /\ call \in CallSet /\ call.op \in {"unlock", "relock"}
      /\ (call.pc \in UnlockSteps <=> call.op = "unlock")
      /\ (call.pc \in RelockSteps <=> call.op = "relock")
      /\ calls \in 0..MaxCalls /\ driver \in {"kernel", "none", "us"} /\ node \in Nat
      /\ node <= plugs /\ \A asked \in call.read : asked[1] = asked[2]
  BY <1>4, LockingIs
<1>6. /\ pad' \in PadSet /\ pad' # Nothing /\ pad'.kind = pad.kind /\ pad'.slide = pad.slide
      /\ pad'.id = pad.id /\ pad'.plug = pad.plug /\ pad'.input = pad.input
      /\ pad'.heard = pad.heard \cup {c}
  BY <1>1, <1>3, <1>4, SomethingIs DEF PadSet
<1>7. /\ call' \in CallSet /\ call'.op = call.op /\ call'.read = call.read
      /\ call.pc = "packets" => call'.pc \in {"packets", "await"}
      /\ call.pc = "reports" => call'.pc \in {"reports", "locked"}
      /\ call'.pc \in {"packets", "reports"} => call'.todo # <<>>
  <2>1. {"packets", "await", "reports", "locked"} \subseteq Steps /\ <<>> \in Seq(PacketSet)
    BY DEF Steps, LockSteps
  <2>2. CASE call.pc = "packets"
    <3>1. UnlockPacket
      BY <2>2 DEF Report
    <3>2. CASE Len(call.todo) > 1
      <4>1. call' = [call EXCEPT !.todo = Tail(@)]
        BY <3>1, <3>2 DEF UnlockPacket
      <4>2. Tail(call.todo) \in Seq(PacketSet)
        <5>1. call.todo \in Seq(PacketSet)
          BY <1>5 DEF CallSet
        <5> QED
          BY <3>2, <5>1
      <4>3. Tail(call.todo) # <<>>
        <5>1. call.todo \in Seq(PacketSet)
          BY <1>5 DEF CallSet
        <5> QED
          BY <3>2, <5>1, TailIsSome
      <4> QED
        BY <1>5, <2>2, <4>1, <4>2, <4>3 DEF CallSet
    <3>3. CASE ~(Len(call.todo) > 1)
      <4>1. call' = [call EXCEPT !.todo = <<>>, !.pc = "await"]
        BY <3>1, <3>3 DEF UnlockPacket, NextAfterUnlock
      <4> QED
        BY <1>5, <2>1, <2>2, <4>1 DEF CallSet
    <3> QED
      BY <3>2, <3>3
  <2>3. CASE call.pc = "reports"
    <3> DEFINE pc == IF Len(call.todo) > 1 THEN "reports" ELSE "locked"
               todo == Tail(call.todo)
    <3>1. call' = [call EXCEPT !.todo = todo, !.pc = pc]
      BY <2>3 DEF UnlockPacket, Report
    <3>2. todo \in Seq(PacketSet)
      <4>1. call.todo \in Seq(PacketSet) /\ call.todo # <<>>
        BY <1>5, <2>3 DEF CallSet, Inv, Placed
      <4> QED
        BY <4>1
    <3>3. pc \in {"reports", "locked"}
      OBVIOUS
    <3>4. pc = "reports" => todo # <<>>
      <4>1. call.todo \in Seq(PacketSet)
        BY <1>5 DEF CallSet
      <4>2. pc = "reports" => Len(call.todo) > 1
        OBVIOUS
      <4>3. Len(call.todo) > 1 => Tail(call.todo) # <<>>
        BY <4>1, TailIsSome
      <4> QED
        BY <4>2, <4>3
    <3> HIDE DEF pc, todo
    <3> QED
      BY <1>5, <2>1, <2>3, <3>1, <3>2, <3>3, <3>4 DEF CallSet
  <2> QED
    BY <1>1, <2>2, <2>3
<1>8. UnknownIsLeftAlone'
  <2>1. CASE IsLocked /\ c = "unlock"
    <3>1. ~Stranger(pad.kind)
      BY <1>4, <2>1, KindAssumption DEF Inv, Strange, IsLocked, PadSet
    <3> QED
      BY <1>6, <2>1, <3>1, LockAssumption
         DEF Inv, UnknownIsLeftAlone, StrangersAreLeftAlone, IsLocked, Stranger, Kind
  <2>2. CASE pad.id \in Models[LockedModel].ports
    <3>1. /\ pad.id \in DOMAIN Ports /\ pad.id # LockedUsb /\ Ports[pad.id].names = LockedModel
          /\ LockedModel # Nothing /\ ~Refused(pad.id)
      BY <2>2, PortsOfTheLocked
    <3>2. ~Stranger(pad.kind)
      BY <1>4, <3>1, KindAssumption DEF Inv, Strange, PadSet
    <3>3. ~Unvalidated(pad.kind)
      BY <1>4, <3>1, KindAssumption DEF Inv, Strange, PadSet
    <3> QED
      BY <1>6, <3>1, <3>2, <3>3
         DEF Inv, UnknownIsLeftAlone, StrangersAreLeftAlone, Stranger, Unvalidated, Kind
  <2> QED
    BY <1>2, <1>3, <2>1, <2>2
<1>9. Locks'
  BY <1>1, <1>2, <1>4, <1>6, <1>7 DEF Inv, Locks, IsLocked, NodeAlive
<1>10. UNCHANGED <<session, cache, job, plugs>> /\ calls' = calls
  BY <1>1 DEF Rest
<1>11. /\ call'.pc \in LockSteps
       /\ call'.pc \in UnlockSteps => call'.op = "unlock"
       /\ call'.pc \in RelockSteps => call'.op = "relock"
       /\ call'.pc \in {"detach", "claim", "packets", "node", "reports"} => call'.todo # <<>>
  BY <1>1, <1>5, <1>7 DEF LockSteps, UnlockSteps, RelockSteps
<1> QED
  BY <1>1, <1>4, <1>5, <1>6, <1>7, <1>8, <1>9, <1>10, <1>11, LockStepKeeps

LEMMA PadLeavesKeeps ==
  ASSUME Inv, PadLeaves
  PROVE  Inv'
<1>1. PICK id \in IF IsLocked THEN Unlocks[pad.kind] ELSE {LockedUsb} :
        pad' = Enumerated(pad.kind, pad.slide, id, plugs + 1)
  BY DEF PadLeaves
<1>2. /\ acting /\ pad # Nothing /\ plugs < MaxPlugs /\ plugs' = plugs + 1
      /\ driver' = "kernel" /\ acting' = FALSE
      /\ UNCHANGED <<session, cache, job, call, calls, node>>
  BY DEF PadLeaves
<1>3. /\ pad \in PadSet /\ pad.kind \in DOMAIN Kinds /\ pad.slide \in DOMAIN Kinds[pad.kind].ids
      /\ pad.id \in Models[LockedModel].ports \cup {LockedUsb}
  BY <1>2 DEF Inv, TypeOK, Locks, PadSet
<1>4. id \in UsbIds
  BY <1>1, <1>3 DEF UsbIds
<1>5. ~Stranger(pad.kind)
  <2>1. Stranger(pad.kind) => pad.id \in Shown(pad.kind)
    BY <1>2 DEF Inv, Strange
  <2> QED
    BY <1>3, <2>1, KindAssumption, PortsOfTheLocked
<1>6. id \in Unlocks[pad.kind] \cup {LockedUsb}
  BY <1>1
<1>7. Arrives(pad.kind, pad.slide, id)
  BY <1>1, <1>2 DEF Arrives
<1>8. /\ pad' \in PadSet /\ pad' # Nothing /\ pad'.slide \in DOMAIN Kinds[pad'.kind].ids
      /\ ~Alive' /\ PausedIsHeld' /\ Known' /\ Locks' /\ Strange' /\ UnknownIsLeftAlone'
      /\ plugs' \in 1..MaxPlugs
  BY <1>2, <1>3, <1>4, <1>5, <1>6, <1>7, ArrivesKeeps
<1>9. TypeOK'
  BY <1>2, <1>8 DEF Inv, TypeOK
<1>10. Placed' /\ Planned' /\ Whole'
  BY <1>2 DEF Inv, Placed, Planned, Whole
<1>11. OnItsBank'
  BY <1>2, <1>8 DEF Inv, OnItsBank
<1>12. InFlight'
  <2>1. ASSUME NEW report, Answers(report)
        PROVE  Answers(report)'
    BY <1>2, <1>8, <2>1 DEF Answers, Waited
  <2> QED
    BY <1>2, <1>8, <2>1 DEF Inv, InFlight
<1> QED
  BY <1>8, <1>9, <1>10, <1>11, <1>12 DEF Inv

LEMMA PadStaysKeeps ==
  ASSUME Inv, PadStays
  PROVE  Inv'
<1>1. acting' = FALSE /\ UNCHANGED <<pad, session, cache, job, call, calls, plugs, driver, node>>
  BY DEF PadStays, sessionVars
<1>2. Alive' <=> Alive
  BY <1>1 DEF Alive
<1>3. TypeOK' /\ Placed' /\ Planned' /\ Whole'
  <2>1. TypeOK'
    BY <1>1 DEF Inv, TypeOK
  <2>2. Placed'
    BY <1>1 DEF Inv, Placed
  <2>3. Planned' /\ Whole'
    BY <1>1 DEF Inv, Planned, Whole
  <2> QED
    BY <2>1, <2>2, <2>3
<1>4. InFlight'
  <2>1. ASSUME NEW report, Answers(report)
        PROVE  Answers(report)'
    BY <1>1, <1>2, <2>1 DEF Answers, Waited, Kind
  <2> QED
    BY <1>1, <1>2, <2>1 DEF Inv, InFlight
<1>5. OnItsBank' /\ PausedIsHeld'
  BY <1>1, <1>2 DEF Inv, OnItsBank, PausedIsHeld, Waited, Kind, First
<1>6. Known'
  BY <1>1, <1>2 DEF Inv, Known, Kind, Refused
<1>7. Locks'
  BY <1>1 DEF Inv, Locks, IsLocked, NodeAlive
<1>8. Strange' /\ UnknownIsLeftAlone'
  BY <1>1, SameHeard
<1> QED
  BY <1>3, <1>4, <1>5, <1>6, <1>7, <1>8 DEF Inv

LEMMA StutterKeeps ==
  ASSUME Inv, UNCHANGED vars
  PROVE  Inv'
<1>1. UNCHANGED <<pad, session, cache, job, call, calls, plugs, driver, node, acting>>
  BY DEF vars, sessionVars, lockVars
<1>2. Alive' <=> Alive
  BY <1>1 DEF Alive
<1>3. TypeOK' /\ Placed' /\ Planned' /\ Whole'
  <2>1. TypeOK'
    BY <1>1 DEF Inv, TypeOK
  <2>2. Placed'
    BY <1>1 DEF Inv, Placed
  <2>3. Planned' /\ Whole'
    BY <1>1 DEF Inv, Planned, Whole
  <2> QED
    BY <2>1, <2>2, <2>3
<1>4. InFlight'
  <2>1. ASSUME NEW report, Answers(report)
        PROVE  Answers(report)'
    BY <1>1, <1>2, <2>1 DEF Answers, Waited, Kind
  <2> QED
    BY <1>1, <1>2, <2>1 DEF Inv, InFlight
<1>5. OnItsBank' /\ PausedIsHeld'
  BY <1>1, <1>2 DEF Inv, OnItsBank, PausedIsHeld, Waited, Kind, First
<1>6. Known'
  BY <1>1, <1>2 DEF Inv, Known, Kind, Refused
<1>7. Locks'
  BY <1>1 DEF Inv, Locks, IsLocked, NodeAlive
<1>8. Strange' /\ UnknownIsLeftAlone'
  BY <1>1, SameHeard
<1> QED
  BY <1>3, <1>4, <1>5, <1>6, <1>7, <1>8 DEF Inv

LEMMA NextKeeps ==
  ASSUME Inv, Next
  PROVE  Inv'
<1>1. NodeDenied \/ NodeRefused \/ LockedShows \/ LockedEnds \/ ReportGone \/ GoneAfterFirst => Inv'
  BY ReturningKeeps, LeftKeeps
<1> QED
  BY <1>1, SessionKeeps, CallLockKeeps, DetachKeeps, GivesKeeps, PacketKeeps, ReleaseKeeps,
     NodeOpensKeeps, PadLeavesKeeps, PadStaysKeeps DEF Next

LEMMA InitHolds ==
  ASSUME Init
  PROVE  Inv
<1>0. PICK k \in DOMAIN Kinds : \E s \in DOMAIN Kinds[k].ids :
        pad = Enumerated(k, s, Kinds[k].ids[s], 1)
  BY DEF Init, SessionInit
<1>1. PICK s \in DOMAIN Kinds[k].ids : pad = Enumerated(k, s, Kinds[k].ids[s], 1)
  BY <1>0
<1>2. /\ plugs = 1 /\ calls = 0 /\ call = NoCall /\ session = Nothing /\ cache = Nothing
      /\ job = Nothing /\ driver = "kernel" /\ node = 0 /\ acting = FALSE
  BY DEF Init, SessionInit
<1>3. Kinds[k].ids[s] \in Shown(k) /\ Kinds[k].ids[s] \in UsbIds
  BY DEF Shown, UsbIds
<1>4. /\ pad \in PadSet /\ pad.kind = k /\ pad.slide = s /\ pad.id = Kinds[k].ids[s]
      /\ pad.plug = 1 /\ pad.input = "runs" /\ pad.heard = {}
  BY <1>1, <1>3, EnumeratedIs
<1>5. /\ call.op = "none" /\ call.mode = Nothing /\ call.pc = "idle" /\ call.ok = FALSE
      /\ call.read = {}
  BY <1>2 DEF NoCall
<1>6. "none" \notin Ops
  BY SessionAssumption DEF ReadOps, WriteOps, JobOps
<1>7. call \in CallSet
  <2>1. <<>> \in Seq(PacketSet) /\ "idle" \in Steps
    BY DEF Steps
  <2> QED
    BY <1>2, <2>1 DEF NoCall, CallSet
<1>8. TypeOK
  <2>1. 0 \in 0..MaxCalls /\ 1 \in 1..MaxPlugs
    <3>1. MaxCalls \in Nat \ {0} /\ MaxPlugs \in Nat \ {0}
      BY SessionAssumption
    <3> QED
      BY <3>1
  <2> QED
    BY <1>2, <1>4, <1>5, <1>6, <1>7, <2>1 DEF TypeOK
<1>9. Placed /\ Planned /\ InFlight /\ OnItsBank /\ Whole
  BY <1>2, <1>5 DEF Placed, Planned, InFlight, OnItsBank, Whole, LockSteps
<1>10. PausedIsHeld /\ Known /\ Locks /\ Strange /\ UnknownIsLeftAlone
  BY <1>2, <1>3, <1>4, <1>5 DEF PausedIsHeld, Known, Locks, Strange, UnknownIsLeftAlone,
                                StrangersAreLeftAlone, Alive
<1> QED
  BY <1>8, <1>9, <1>10 DEF Inv

\* The invariant holds of every behaviour: with it, the state of the transport and of
\* the lock keeps its types (session.rs, lock.rs).
THEOREM TypeCorrect == Spec => []TypeOK
<1>1. Inv /\ [Next]_vars => Inv'
  BY NextKeeps, StutterKeeps
<1>2. Inv => TypeOK
  BY DEF Inv
<1> QED
  BY <1>1, <1>2, InitHolds, PTL DEF Spec

\* No pad is left paused, no job holds a session that is over, and a locked pad that is
\* still there has its driver back (session.rs, Drop; hidraw_device.rs, end_write;
\* lock.rs, send_unlock).
THEOREM HandedBackHolds == Spec => []HandedBack
<1>1. Inv /\ [Next]_vars => Inv'
  BY NextKeeps, StutterKeeps
<1>2. Inv => HandedBack
  <2> SUFFICES ASSUME Inv, call.pc = "idle"
               PROVE  HandedBack
    BY DEF HandedBack, InputIsBack
  <2>1. session = Nothing => pad = Nothing \/ pad.input # "paused"
    BY DEF Inv, PausedIsHeld, Alive
  <2>2. job = Nothing => session = Nothing
    BY DEF Inv, Placed
  <2>3. IsLocked => driver = "kernel"
    BY DEF Inv, Locks
  <2> QED
    BY <2>1, <2>2, <2>3 DEF HandedBack, InputIsBack
<1> QED
  BY <1>1, <1>2, InitHolds, PTL DEF Spec

\* A write that succeeds has every chunk on the pad, a read that succeeds took each from
\* the bank it asked for, and the pad an unlock or a relock succeeded on has left
\* (framing.rs, reply; session.rs, pause; lock.rs, wait_for_port).
THEOREM SuccessHolds == Spec => []SuccessIsThePads
<1>1. Inv /\ [Next]_vars => Inv'
  BY NextKeeps, StutterKeeps
<1>2. Inv => SuccessIsThePads
  BY DEF Inv, Whole, OnItsBank, Locks, SuccessIsThePads, AnswersAreItsOwn
<1> QED
  BY <1>1, <1>2, InitHolds, PTL DEF Spec

\* A pad the app does not know hears no more than it may (session.rs, open; lock.rs,
\* wait_for_port).
THEOREM UnknownHolds == Spec => []UnknownIsLeftAlone
<1>1. Inv /\ [Next]_vars => Inv'
  BY NextKeeps, StutterKeeps
<1>2. Inv => UnknownIsLeftAlone
  BY DEF Inv
<1> QED
  BY <1>1, <1>2, InitHolds, PTL DEF Spec

-------------------------------------------------------------------------------
(***************************************************************************)
(* The bytes of a packet.                                                  *)
(***************************************************************************)
\* What the proofs need of u16::MAX.
LEMMA MaxWordIsLarge == MaxWord \in Int /\ MaxWord > 20480
BY DEF MaxWord

\* Byte i lies in the piece i \div n, when every piece has n bytes.
LEMMA Pieces ==
  ASSUME NEW i \in Nat
  PROVE  /\ i \div 45 \in Nat /\ 45 * (i \div 45) <= i /\ i < 45 * (i \div 45) + 45
         /\ i \div 32 \in Nat /\ 32 * (i \div 32) <= i /\ i < 32 * (i \div 32) + 32
OBVIOUS

\* The chunk of a bank that byte i lies in.
ChunkOf(i, size) ==
  [offset |-> 45 * (i \div 45), size |-> Least(45, size - 45 * (i \div 45))]

LEMMA ChunkOfIsPlanned ==
  ASSUME NEW size \in Word, NEW i \in 0..size - 1
  PROVE  /\ ChunkOf(i, size) \in ProfileChunks(size)
         /\ ChunkOf(i, size).offset \in Int /\ ChunkOf(i, size).size \in Int
         /\ ChunkOf(i, size).offset <= i
         /\ i < ChunkOf(i, size).offset + ChunkOf(i, size).size
<1> DEFINE k == i \div 45
<1>1. i \in Nat /\ size \in Nat /\ i < size /\ size <= MaxWord
  BY MaxWordIsLarge DEF Word
<1>2. k \in Nat /\ 45 * k <= i /\ i < 45 * k + 45
  BY <1>1, Pieces
<1>3. ChunkOf(i, size) = [offset |-> 45 * k, size |-> Least(45, size - 45 * k)]
  BY DEF ChunkOf
<1> HIDE DEF k
<1>4. k \in 0..size /\ 45 * k < size /\ 45 * k <= MaxWord
  BY <1>1, <1>2, MaxWordIsLarge
<1>5. ChunkOf(i, size) \in ProfileChunks(size)
  BY <1>3, <1>4 DEF ProfileChunks, ProfileChunk
<1>6. QED
  BY <1>1, <1>2, <1>3, <1>5 DEF Least

\* plan_profile_chunks cuts every bank a 16-bit size can tell of into chunks that leave
\* no byte out and share none: "(offset, size) chunks of PROFILE_CHUNK bytes and a
\* shorter last one", none of them over the end.
THEOREM ChunksAreThePieces ==
  ASSUME NEW size \in Word
  PROVE  /\ \A i \in 0..size - 1 :
              \E c \in ProfileChunks(size) : c.offset <= i /\ i < c.offset + c.size
         /\ \A c, d \in ProfileChunks(size), i \in 0..size - 1 :
              /\ c.offset <= i /\ i < c.offset + c.size
              /\ d.offset <= i /\ i < d.offset + d.size
              => c = d
         /\ \A c \in ProfileChunks(size) :
              c.offset \in Nat /\ 1 <= c.size /\ c.size <= ProfileChunk /\ c.offset + c.size <= size
<1>1. \A i \in 0..size - 1 :
        \E c \in ProfileChunks(size) : c.offset <= i /\ i < c.offset + c.size
  BY ChunkOfIsPlanned
<1>2. \A c \in ProfileChunks(size) :
        \E k \in 0..size : /\ c = [offset |-> 45 * k, size |-> Least(45, size - 45 * k)]
                           /\ 45 * k < size
  BY DEF ProfileChunks, ProfileChunk
<1>3. \A c, d \in ProfileChunks(size), i \in 0..size - 1 :
        /\ c.offset <= i /\ i < c.offset + c.size
        /\ d.offset <= i /\ i < d.offset + d.size
        => c = d
  <2>1. SUFFICES ASSUME NEW c \in ProfileChunks(size), NEW d \in ProfileChunks(size),
                        NEW i \in 0..size - 1,
                        c.offset <= i, i < c.offset + c.size,
                        d.offset <= i, i < d.offset + d.size
                 PROVE  c = d
    OBVIOUS
  <2>2. PICK j \in 0..size : /\ c = [offset |-> 45 * j, size |-> Least(45, size - 45 * j)]
                             /\ 45 * j < size
    BY <1>2
  <2>3. PICK k \in 0..size : /\ d = [offset |-> 45 * k, size |-> Least(45, size - 45 * k)]
                             /\ 45 * k < size
    BY <1>2
  <2>4. 45 * j <= i /\ i < 45 * j + 45 /\ 45 * k <= i /\ i < 45 * k + 45
    BY <2>1, <2>2, <2>3, MaxWordIsLarge DEF Least, Word
  <2>5. j = k
    BY <2>4, MaxWordIsLarge DEF Word
  <2>6. QED
    BY <2>2, <2>3, <2>5
<1>4. \A c \in ProfileChunks(size) :
        c.offset \in Nat /\ 1 <= c.size /\ c.size <= ProfileChunk /\ c.offset + c.size <= size
  BY <1>2, MaxWordIsLarge DEF Least, ProfileChunk, Word
<1>5. QED
  BY <1>1, <1>3, <1>4

LEMMA WholeChunks ==
  ASSUME NEW len \in Nat, len % 32 = 0
  PROVE  len \div 32 \in Nat /\ len = 32 * (len \div 32)
OBVIOUS

\* The packets of a macro write go to the page of its own macro slot and nowhere else,
\* and between them carry the whole stream: `write_macro_stream` erases that page only.
THEOREM WritesStayInTheirPage ==
  ASSUME NEW macro \in MacroSlot, NEW len \in Nat, StreamIsTaken(len, macro)
  PROVE  /\ \A c \in WriteChunks(len, macro) :
              /\ 0 <= c.offset /\ c.offset <= MaxWord
              /\ FlashBase(macro) <= c.offset
              /\ c.offset + c.size <= TotalLen(len, macro)
              /\ c.offset + c.size <= FlashBase(macro) + MacroPageLen
         /\ \A i \in 0..len - 1 :
              \E c \in WriteChunks(len, macro) :
                c.offset <= FlashBase(macro) + i /\ FlashBase(macro) + i < c.offset + c.size
<1> DEFINE n == len \div 32
<1>1. n \in Nat /\ len = 32 * n /\ len <= 4096
  BY WholeChunks DEF StreamIsTaken, MacroChunk, MacroPageLen
<1> HIDE DEF n
<1>2. WriteChunks(len, macro) = {[offset |-> 4096 * macro + 32 * i, size |-> 32] : i \in 0..n - 1}
  BY DEF WriteChunks, MacroChunk, FlashBase, MacroPageLen, MacroSlot, n
<1>3. macro \in 0..3 /\ FlashBase(macro) = 4096 * macro /\ TotalLen(len, macro) = len + 4096 * macro
  BY DEF MacroSlot, FlashBase, TotalLen, MacroPageLen
<1>4. ASSUME NEW i \in 0..n - 1
      PROVE  /\ 4096 * macro + 32 * i <= MaxWord
             /\ 4096 * macro <= 4096 * macro + 32 * i
             /\ 4096 * macro + 32 * i + 32 <= len + 4096 * macro
             /\ 4096 * macro + 32 * i + 32 <= 4096 * macro + 4096
  BY <1>1, <1>3, MaxWordIsLarge
<1>5. \A c \in WriteChunks(len, macro) :
        /\ 0 <= c.offset /\ c.offset <= MaxWord
        /\ FlashBase(macro) <= c.offset
        /\ c.offset + c.size <= TotalLen(len, macro)
        /\ c.offset + c.size <= FlashBase(macro) + MacroPageLen
  BY <1>2, <1>3, <1>4 DEF MacroPageLen
<1>6. ASSUME NEW i \in 0..len - 1
      PROVE  \E c \in WriteChunks(len, macro) :
               c.offset <= FlashBase(macro) + i /\ FlashBase(macro) + i < c.offset + c.size
  <2> DEFINE k == i \div 32
  <2>1. k \in Nat /\ 32 * k <= i /\ i < 32 * k + 32
    BY <1>1, Pieces
  <2> HIDE DEF k
  <2>2. k \in 0..n - 1
    BY <1>1, <2>1
  <2>3. [offset |-> 4096 * macro + 32 * k, size |-> 32] \in WriteChunks(len, macro)
    BY <1>2, <2>2
  <2>4. QED
    BY <1>1, <1>3, <2>1, <2>3
<1>7. QED
  BY <1>5, <1>6

\* A macro's steps are read from its own page, the last chunk a whole one that may run
\* past the steps but never into the next macro's page.
THEOREM ReadsStayInTheirPage ==
  ASSUME NEW macro \in MacroSlot, NEW steps \in Nat, steps * StepLen <= MacroPageLen
  PROVE  /\ \A c \in ReadChunks(steps, macro) :
              /\ 0 <= c.offset /\ c.offset <= MaxWord
              /\ FlashBase(macro) <= c.offset
              /\ c.offset + c.size <= FlashBase(macro) + MacroPageLen
         /\ \A i \in 0..steps * StepLen - 1 :
              \E c \in ReadChunks(steps, macro) :
                c.offset <= FlashBase(macro) + i /\ FlashBase(macro) + i < c.offset + c.size
<1> DEFINE size == steps * 10
<1>1. size \in Nat /\ size <= 4096 /\ steps * StepLen = size
  BY DEF StepLen, MacroPageLen
<1> HIDE DEF size
<1>2. macro \in 0..3 /\ FlashBase(macro) = 4096 * macro
  BY DEF MacroSlot, FlashBase, MacroPageLen
<1>3. \A c \in ReadChunks(steps, macro) :
        \E j \in Nat : /\ c.offset = 4096 * macro + 32 * j /\ c.size = 32
                       /\ 32 * j < size
  BY <1>1, <1>2 DEF ReadChunks, MacroChunk
<1>4. ASSUME NEW j \in Nat, 32 * j < size
      PROVE  /\ 4096 * macro + 32 * j <= MaxWord
             /\ 4096 * macro <= 4096 * macro + 32 * j
             /\ 4096 * macro + 32 * j + 32 <= 4096 * macro + 4096
  BY <1>1, <1>2, <1>4, MaxWordIsLarge
<1>5. \A c \in ReadChunks(steps, macro) :
        /\ 0 <= c.offset /\ c.offset <= MaxWord
        /\ FlashBase(macro) <= c.offset
        /\ c.offset + c.size <= FlashBase(macro) + MacroPageLen
  BY <1>2, <1>3, <1>4 DEF MacroPageLen
<1>6. ASSUME NEW i \in 0..size - 1
      PROVE  \E c \in ReadChunks(steps, macro) :
               c.offset <= FlashBase(macro) + i /\ FlashBase(macro) + i < c.offset + c.size
  <2> DEFINE k == i \div 32
  <2>1. k \in Nat /\ 32 * k <= i /\ i < 32 * k + 32
    BY <1>1, Pieces
  <2> HIDE DEF k
  <2>2. k \in 0..size /\ 32 * k < size
    BY <1>1, <2>1
  <2>3. /\ k \in 0..steps * StepLen /\ MacroChunk * k < steps * StepLen
        /\ FlashBase(macro) + MacroChunk * k <= MaxWord
    BY <1>1, <1>2, <1>4, <2>1, <2>2 DEF MacroChunk
  <2>4. k \in {j \in 0..steps * StepLen : /\ MacroChunk * j < steps * StepLen
                                         /\ FlashBase(macro) + MacroChunk * j <= MaxWord}
    BY <2>3
  <2>5. [offset |-> FlashBase(macro) + MacroChunk * k, size |-> MacroChunk]
          \in ReadChunks(steps, macro)
    BY <2>4 DEF ReadChunks
  <2>6. QED
    BY <1>1, <1>2, <2>1, <2>5 DEF MacroChunk
<1>7. QED
  BY <1>1, <1>5, <1>6

LEMMA WordIsItsBytes ==
  ASSUME NEW w \in Word
  PROVE  (w % 256) + 256 * (w \div 256) = w
BY MaxWordIsLarge DEF Word

\* Where the frame of a current mode puts byte k of a packet.
Shift(framing) == IF framing = "wrapped" THEN 2 ELSE IF framing = "length" THEN 1 ELSE 0

\* Every frame carries the header of a request and 44 bytes of payload in their order;
\* only a wrapped one loses the last byte of a 45-byte chunk: "A wrapped request loses the
\* last two normal bytes, so a 45-byte payload at 18 keeps 44 bytes."
THEOREM RequestsSurviveTheirFrame ==
  ASSUME NEW framing \in {"plain", "wrapped", "length"}, NEW p \in PacketBytes
  PROVE  /\ \A k \in 1..PayloadAt + 43 : OnWire(framing, p)[k + Shift(framing)] = p[k]
         /\ framing # "wrapped" =>
              OnWire(framing, p)[PayloadAt + 44 + Shift(framing)] = p[PayloadAt + 44]
<1>1. CASE framing = "plain"
  BY <1>1 DEF OnWire, Shift, PayloadAt
<1>2. CASE framing = "wrapped"
  <2>1. \A k \in 1..61 : k + 2 \in 0..63 /\ k + 2 > 2 /\ k + 2 - 2 = k
    OBVIOUS
  <2>2. \A k \in 1..61 : OnWire(framing, p)[k + 2] = p[k]
    BY <1>2, <2>1 DEF OnWire, Position, PacketLen
  <2>3. QED
    BY <1>2, <2>2 DEF Shift, PayloadAt
<1>3. CASE framing = "length"
  <2>1. \A k \in 1..62 : k + 1 \in 0..63 /\ k + 1 > 1 /\ k + 1 - 1 = k
    OBVIOUS
  <2>2. \A k \in 1..62 : OnWire(framing, p)[k + 1] = p[k]
    BY <1>3, <2>1 DEF OnWire, Position, PacketLen
  <2>3. QED
    BY <1>3, <2>2 DEF Shift, PayloadAt
<1>4. QED
  BY <1>1, <1>2, <1>3

\* What a pad reports in the frame of its current mode is read as what it said, up to
\* the byte after the largest payload, when it echoes the command; no other command's.
THEOREM RepliesSurviveTheirFrame ==
  ASSUME NEW framing \in {"plain", "wrapped", "length"}, NEW r \in PacketBytes,
         NEW request \in PacketBytes, r[0] = 2, r[1] = 4
  PROVE  /\ r[4] = request[2] =>
              \A k \in 0..PayloadAt + 44 :
                AsReply(framing, Reported(framing, r), request)[k] = r[k]
         /\ r[4] # request[2] => AsReply(framing, Reported(framing, r), request) = NoReply
<1>1. CASE framing # "wrapped"
  BY <1>1 DEF AsReply, Reported, PayloadAt
<1>2. CASE framing = "wrapped"
  <2> DEFINE raw == Reported(framing, r)
             normal == [k \in Position |-> IF k = 0 THEN 2 ELSE IF k = 1 THEN 4
                                           ELSE IF k = 63 THEN 0 ELSE raw[k + 1]]
  <2>1. raw = [k \in 0..63 |-> IF k = 0 THEN 129 ELSE IF k = 1 THEN 102
                               ELSE IF k = 2 THEN 165 ELSE r[k - 1]]
    BY <1>2 DEF Reported, Position, PacketLen
  <2>2. raw[0] = 129 /\ raw[1] = 102 /\ raw[2] = 165
    BY <2>1
  <2>3. \A k \in 2..62 : raw[k + 1] = r[k]
    <3>1. \A k \in 2..62 : k + 1 \in 0..63 /\ k + 1 > 2 /\ k + 1 - 1 = k
      OBVIOUS
    <3>2. QED
      BY <2>1, <3>1
  <2> HIDE DEF raw
  <2>4. \A k \in 0..62 : normal[k] = r[k]
    BY <2>3 DEF Position, PacketLen
  <2>5. AsReply(framing, raw, request) =
          IF normal[4] = request[2] THEN normal ELSE NoReply
    BY <1>2, <2>2 DEF AsReply
  <2> HIDE DEF normal
  <2>6. normal[4] = r[4]
    BY <2>4
  <2>7. QED
    BY <2>4, <2>5, <2>6 DEF raw, PayloadAt
<1>3. QED
  BY <1>1, <1>2

LEMMA SmallIsWord ==
  ASSUME NEW n \in 0..45
  PROVE  n \in Word
BY MaxWordIsLarge DEF Word

\* Positions of a packet's header.
HeadBytes == {0, 1, 2, 3, 4, 5, 6, 7, 10, 11, 14, 15}

IsChunk(c) == c.size \in 0..45 /\ c.offset \in Word
Tells(q, c, bytes, whole) ==
  /\ WordAt(q, 6) = c.size /\ WordAt(q, 10) = whole /\ WordAt(q, 14) = c.offset
  /\ \A j \in 1..c.size : q[17 + j] = bytes[j]

\* A packet that carries a chunk tells its size, the size of the whole and its offset,
\* holds its bytes from 18 on and leaves the command as it is.
LEMMA CarryingTells ==
  ASSUME NEW p, DOMAIN p = Position, NEW c, IsChunk(c), NEW bytes, NEW whole \in Word
  PROVE  /\ Tells(Carrying(p, c, bytes, whole), c, bytes, whole)
         /\ \A k \in {0, 1, 2, 3, 4, 5} : Carrying(p, c, bytes, whole)[k] = p[k]
<1>0. PICK n \in 0..45, o \in Word : c.size = n /\ c.offset = o
  BY DEF IsChunk
<1> DEFINE f1 == WithWord(p, 6, n)
           f2 == WithWord(f1, 10, whole)
           f3 == WithWord(f2, 14, o)
           f4 == [k \in Position |-> IF k \in 18..18 + n - 1
                                     THEN bytes[k - 18 + 1] ELSE f3[k]]
           q == WithWord(f4, 8, Crc(bytes))
<1>1. q = Carrying(p, c, bytes, whole)
  BY <1>0 DEF Carrying, WithPayload, PayloadAt
<1> HIDE DEF f1, f2, f3, f4, q
<1>2. /\ DOMAIN f1 = Position /\ f1[6] = n % 256 /\ f1[7] = n \div 256
      /\ \A k \in Position : k # 6 /\ k # 7 => f1[k] = p[k]
  BY DEF f1, WithWord, Position, PacketLen
<1>3. /\ DOMAIN f2 = Position /\ f2[10] = whole % 256 /\ f2[11] = whole \div 256
      /\ \A k \in Position : k # 10 /\ k # 11 => f2[k] = f1[k]
  BY <1>2 DEF f2, WithWord, Position, PacketLen
<1>4. /\ DOMAIN f3 = Position /\ f3[14] = o % 256 /\ f3[15] = o \div 256
      /\ \A k \in Position : k # 14 /\ k # 15 => f3[k] = f2[k]
  BY <1>3 DEF f3, WithWord, Position, PacketLen
<1>5. HeadBytes \subseteq Position
  BY DEF HeadBytes, Position, PacketLen
<1>6. DOMAIN f4 = Position
  BY DEF f4
<1>7. \A k \in HeadBytes : f4[k] = f3[k]
  <2>1. \A k \in HeadBytes : k \notin 18..18 + n - 1
    BY DEF HeadBytes
  <2>2. QED
    BY <1>5, <2>1 DEF f4
<1>8. \A j \in 1..n : f4[17 + j] = bytes[j]
  <2>1. \A j \in 1..n : /\ 17 + j \in Position /\ 17 + j \in 18..18 + n - 1
                        /\ 17 + j - 18 + 1 = j
    BY DEF Position, PacketLen
  <2>2. QED
    BY <2>1 DEF f4
<1>9. \A k \in Position : k # 8 /\ k # 9 => q[k] = f4[k]
  BY <1>6 DEF q, WithWord
<1>10. \A k \in HeadBytes : q[k] = f3[k]
  <2>1. \A k \in HeadBytes : k # 8 /\ k # 9
    BY DEF HeadBytes
  <2>2. QED
    BY <1>5, <1>7, <1>9, <2>1
<1>11. q[6] = n % 256 /\ q[7] = n \div 256
  BY <1>2, <1>3, <1>4, <1>5, <1>10 DEF HeadBytes
<1>12. q[10] = whole % 256 /\ q[11] = whole \div 256
  BY <1>3, <1>4, <1>5, <1>10 DEF HeadBytes
<1>13. q[14] = o % 256 /\ q[15] = o \div 256
  BY <1>4, <1>5, <1>10 DEF HeadBytes
<1>14. \A j \in 1..n : q[17 + j] = bytes[j]
  <2>1. TAKE j \in 1..n
  <2>2. 17 + j \in Position /\ 17 + j # 8 /\ 17 + j # 9
    BY DEF Position, PacketLen
  <2>3. QED
    BY <1>8, <1>9, <2>2
<1>15. \A k \in {0, 1, 2, 3, 4, 5} : q[k] = p[k]
  BY <1>2, <1>3, <1>4, <1>5, <1>10 DEF HeadBytes
<1>16. WordAt(q, 6) = n /\ WordAt(q, 10) = whole /\ WordAt(q, 14) = o
  <2>1. n \in Word
    BY SmallIsWord
  <2>2. \A w \in Word : (w % 256) + 256 * (w \div 256) = w
    BY WordIsItsBytes
  <2>3. WordAt(q, 6) = n
    BY <1>11, <2>1, <2>2 DEF WordAt
  <2>4. WordAt(q, 10) = whole
    BY <1>12, <2>2 DEF WordAt
  <2>5. WordAt(q, 14) = o
    BY <1>13, <2>2 DEF WordAt
  <2>6. QED
    BY <2>3, <2>4, <2>5
<1>17. Tells(q, c, bytes, whole)
  BY <1>0, <1>14, <1>16 DEF Tells
<1>18. QED
  BY <1>1, <1>15, <1>17

LEMMA WordsAreInts == \A w \in Word : w \in Int /\ 0 <= w /\ w <= MaxWord
BY MaxWordIsLarge DEF Word

LEMMA InWord ==
  ASSUME NEW v \in Word, NEW w \in Int, 0 <= w, w <= v
  PROVE  w \in Word
BY MaxWordIsLarge DEF Word

LEMMA InChunk ==
  ASSUME NEW n \in Int, 1 <= n, n <= 45
  PROVE  n \in 1..45
OBVIOUS

LEMMA PositionsAreInts ==
  ASSUME NEW n \in Int, NEW i \in 0..n - 1
  PROVE  i \in Int
OBVIOUS

LEMMA ChunksAreRecords ==
  ASSUME NEW size \in Word, NEW c \in ProfileChunks(size)
  PROVE  \E o \in Word, n \in 1..45 : c = [offset |-> o, size |-> n] /\ o + n <= size
<1>1. PICK k \in 0..size : /\ c = [offset |-> 45 * k, size |-> Least(45, size - 45 * k)]
                           /\ 45 * k < size
  BY DEF ProfileChunks, ProfileChunk
<1> DEFINE o == 45 * k
           n == Least(45, size - o)
<1>2. size \in Nat /\ size <= MaxWord
  BY MaxWordIsLarge DEF Word
<1>3. o \in Int /\ 0 <= o /\ o < size
  BY <1>1, <1>2
<1>4. c = [offset |-> o, size |-> n]
  BY <1>1
<1> HIDE DEF o
<1>5. n \in Int /\ 1 <= n /\ n <= 45 /\ o + n <= size
  BY <1>2, <1>3 DEF Least
<1> HIDE DEF n
<1>6. o <= size
  BY <1>2, <1>3
<1>7. o \in Word
  BY <1>3, <1>6, InWord
<1>8. n \in 1..45
  BY <1>5, InChunk
<1>9. QED
  BY <1>4, <1>5, <1>7, <1>8

LEMMA SliceIsOfTheBank ==
  ASSUME NEW bank, NEW c, NEW j \in 1..c.size
  PROVE  Slice(bank, c)[j] = bank[c.offset + j - 1]
BY DEF Slice

\* What the packet of a chunk tells and holds.
LEMMA BankPacketTells ==
  ASSUME NEW size \in Word, NEW bank, NEW c \in ProfileChunks(size)
  PROVE  Tells(WriteRequest(c, Slice(bank, c), size), c, Slice(bank, c), size)
<1>1. DOMAIN Header(1, 0) = Position
  BY DEF Header
<1>2. IsChunk(c)
  <2>1. PICK o \in Word, n \in 1..45 : c = [offset |-> o, size |-> n]
    BY ChunksAreRecords
  <2>2. c.offset = o /\ c.size = n
    BY <2>1
  <2>3. n \in 0..45
    OBVIOUS
  <2>4. QED
    BY <2>2, <2>3 DEF IsChunk
<1>3. QED
  BY <1>1, <1>2, CarryingTells DEF WriteRequest

\* A bank write carries every byte of the bank, at its place, and no packet carries
\* another byte there: a pad that stores what the packets hold has the bank
\* (plan_profile_chunks, write_profile_chunk).
THEOREM BankIsCarried ==
  ASSUME NEW size \in Word, NEW bank \in [0..size - 1 -> Byte], NEW i \in 0..size - 1
  PROVE  /\ \E p \in BankPackets(bank, size) :
              WordAt(p, 14) <= i /\ i < WordAt(p, 14) + WordAt(p, 6)
         /\ \A p \in BankPackets(bank, size) :
              WordAt(p, 14) <= i /\ i < WordAt(p, 14) + WordAt(p, 6)
                => p[PayloadAt + (i - WordAt(p, 14))] = bank[i]
<1>1. i \in Int
  BY WordsAreInts, PositionsAreInts
<1>2. PICK c \in ProfileChunks(size) : c.offset <= i /\ i < c.offset + c.size
  BY ChunksAreThePieces
<1>3. WriteRequest(c, Slice(bank, c), size) \in BankPackets(bank, size)
  BY DEF BankPackets
<1>4. ASSUME NEW d \in ProfileChunks(size), NEW p,
             p = WriteRequest(d, Slice(bank, d), size)
      PROVE  /\ WordAt(p, 14) = d.offset /\ WordAt(p, 6) = d.size
             /\ \A j \in 1..d.size : p[17 + j] = bank[d.offset + j - 1]
  <2>1. Tells(p, d, Slice(bank, d), size)
    BY <1>4, BankPacketTells
  <2>2. \A j \in 1..d.size : Slice(bank, d)[j] = bank[d.offset + j - 1]
    BY SliceIsOfTheBank
  <2> DEFINE bytes == Slice(bank, d)
  <2>3. Tells(p, d, bytes, size) /\ \A j \in 1..d.size : bytes[j] = bank[d.offset + j - 1]
    BY <2>1, <2>2
  <2> HIDE DEF bytes
  <2>4. QED
    BY <2>3 DEF Tells
<1>5. \E p \in BankPackets(bank, size) :
        WordAt(p, 14) <= i /\ i < WordAt(p, 14) + WordAt(p, 6)
  BY <1>2, <1>3, <1>4
<1>6. ASSUME NEW p \in BankPackets(bank, size),
             WordAt(p, 14) <= i, i < WordAt(p, 14) + WordAt(p, 6)
      PROVE  p[PayloadAt + (i - WordAt(p, 14))] = bank[i]
  <2>1. PICK d \in ProfileChunks(size) : p = WriteRequest(d, Slice(bank, d), size)
    BY DEF BankPackets
  <2>2. PICK u \in Word, m \in 1..45 : d = [offset |-> u, size |-> m]
    BY ChunksAreRecords
  <2>3. d.offset = u /\ d.size = m
    BY <2>2
  <2>4. u \in Int /\ m \in Int
    BY WordsAreInts
  <2>5. /\ WordAt(p, 14) = u /\ WordAt(p, 6) = m
        /\ \A k \in 1..m : p[17 + k] = bank[u + k - 1]
    BY <1>4, <2>1, <2>3
  <2>6. u <= i /\ i < u + m
    BY <1>6, <2>5
  <2> DEFINE j == i - u + 1
  <2>7. j \in 1..m /\ 17 + j = 18 + (i - u) /\ u + j - 1 = i
    BY <1>1, <2>4, <2>6
  <2> HIDE DEF j
  <2>8. p[17 + j] = bank[u + j - 1]
    BY <2>5, <2>7
  <2>9. QED
    BY <2>5, <2>7, <2>8 DEF PayloadAt
<1>7. QED
  BY <1>5, <1>6

\* What a read puts together is the bank, when every chunk's reply is taken (it echoes
\* the offset and the size asked for) and a reply of a chunk holds the bank's bytes there.
THEOREM ReadIsTheBank ==
  ASSUME NEW size \in Word, NEW bank \in [0..size - 1 -> Byte], NEW answer,
         \A c \in ProfileChunks(size) :
           /\ UploadIsOf(answer[c.offset], c)
           /\ \A j \in 0..c.size - 1 : answer[c.offset][PayloadAt + j] = bank[c.offset + j]
  PROVE  Assembled(answer, size) = bank
<1>1. ASSUME NEW i \in 0..size - 1
      PROVE  PayloadOf(answer[45 * (i \div 45)])[i - 45 * (i \div 45) + 1] = bank[i]
  <2> DEFINE o == 45 * (i \div 45)
             c == ChunkOf(i, size)
             r == answer[o]
  <2>1. c \in ProfileChunks(size) /\ c.offset <= i /\ i < c.offset + c.size
    BY ChunkOfIsPlanned
  <2>2. c.offset = o /\ c.size \in Int /\ o \in Int
    BY ChunkOfIsPlanned DEF ChunkOf
  <2> HIDE DEF c, o
  <2>3. WordAt(r, 6) = c.size /\ \A j \in 0..c.size - 1 : r[18 + j] = bank[o + j]
    BY <2>1, <2>2 DEF UploadIsOf, PayloadAt
  <2> HIDE DEF r
  <2> DEFINE j == i - o
  <2>4. i \in Int
    BY WordsAreInts, PositionsAreInts
  <2>5. j \in 0..c.size - 1 /\ j + 1 \in 1..c.size /\ 18 + (j + 1) - 1 = 18 + j /\ o + j = i
    BY <2>1, <2>2, <2>4
  <2>6. PayloadOf(r)[j + 1] = r[18 + j]
    BY <2>3, <2>5 DEF PayloadOf, PayloadAt
  <2>7. PayloadOf(r)[j + 1] = bank[i]
    BY <2>3, <2>5, <2>6
  <2>8. QED
    BY <2>7 DEF r, o
<1>2. Assembled(answer, size) =
        [i \in 0..size - 1 |-> PayloadOf(answer[45 * (i \div 45)])[i - 45 * (i \div 45) + 1]]
  BY DEF Assembled, ProfileChunk
<1>3. QED
  BY <1>1, <1>2
===============================================================================
