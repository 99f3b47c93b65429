--------------------------------- MODULE Wire ---------------------------------
(***************************************************************************)
(* The config protocol on the wire: which chunks a bank and a macro page   *)
(* are moved in, the 64-byte packets that ask for them, how each current   *)
(* mode frames them, and which reports are taken for their answers.        *)
(* A packet is a function from byte positions to bytes.                    *)
(***************************************************************************)
EXTENDS Integers

CONSTANT
  Crc(_)        \* the CRC-16/MODBUS of a run of bytes

PacketLen == 64
PayloadAt == 18
ProfileChunk == 45
MacroChunk == 32
MacroPageLen == 4096
StepLen == 10
Byte == 0..255
MaxWord == 65535
Word == 0..MaxWord
MacroSlot == 0..3
Position == 0..PacketLen - 1
PacketBytes == [Position -> Byte]
NoReply == [none |-> TRUE]
Least(a, b) == IF a < b THEN a ELSE b

(***************************************************************************)
(* Chunks                                                                  *)
(***************************************************************************)
\* plan_profile_chunks: an offset past 16 bits is left out
ProfileChunks(size) ==
  {[offset |-> ProfileChunk * k, size |-> Least(ProfileChunk, size - ProfileChunk * k)] :
     k \in {j \in 0..size : ProfileChunk * j < size /\ ProfileChunk * j <= MaxWord}}

FlashBase(macro) == macro * MacroPageLen
TotalLen(len, macro) == len + FlashBase(macro)

\* check_macro_stream
StreamIsTaken(len, macro) ==
  /\ len > 0
  /\ len % MacroChunk = 0
  /\ len <= MacroPageLen
  /\ FlashBase(macro) <= MaxWord
  /\ TotalLen(len, macro) <= MaxWord

WriteChunks(len, macro) ==
  {[offset |-> FlashBase(macro) + MacroChunk * i, size |-> MacroChunk] :
     i \in 0..(len \div MacroChunk) - 1}

\* stream_chunks: whole chunks up to the one the last step ends in
ReadChunks(steps, macro) ==
  {[offset |-> FlashBase(macro) + MacroChunk * i, size |-> MacroChunk] :
     i \in {j \in 0..steps * StepLen :
              /\ MacroChunk * j < steps * StepLen
              /\ FlashBase(macro) + MacroChunk * j <= MaxWord}}

(***************************************************************************)
(* Requests, in the normal layout                                          *)
(***************************************************************************)
WordAt(p, at) == p[at] + 256 * p[at + 1]
WithWord(p, at, w) == [p EXCEPT ![at] = w % 256, ![at + 1] = w \div 256]
Header(cmd, sub) ==
  [k \in Position |-> IF k = 0 THEN 129 ELSE IF k = 1 THEN 4
                      ELSE IF k = 2 THEN cmd ELSE IF k = 3 THEN sub ELSE 0]

\* The payload of `n` bytes at 18 and its CRC at 8.
WithPayload(p, bytes, n) ==
  WithWord([k \in Position |->
              IF k \in PayloadAt..PayloadAt + n - 1 THEN bytes[k - PayloadAt + 1] ELSE p[k]],
           8, Crc(bytes))

\* The size of chunk c, the size of the whole and the chunk's offset, and its bytes.
Carrying(p, c, bytes, whole) ==
  WithPayload(WithWord(WithWord(WithWord(p, 6, c.size), 10, whole), 14, c.offset),
              bytes, c.size)

Filler(n) == [i \in 1..n |-> 204]
OfSlot(p, slot, modeByte) == [p EXCEPT ![4] = slot - 1, ![5] = modeByte]

StartConfig == Header(0, 1)
SlotSelect(value) == [Header(20, 0) EXCEPT ![4] = value, ![8] = 255, ![9] = 255]
QueryStatus == Header(7, 0)
InputStream(resume) == [QueryStatus EXCEPT ![4] = IF resume THEN 1 ELSE 0]
Apply(argument) == WithWord(Header(6, 0), 4, argument)
UploadRequest(c, size) == Carrying(Header(2, 0), c, Filler(c.size), size)
WriteRequest(c, bytes, size) == Carrying(Header(1, 0), c, bytes, size)
EraseMacro(slot, modeByte, macro) ==
  WithWord(WithWord(OfSlot(Header(4, 1), slot, modeByte), 6, MacroPageLen),
           14, FlashBase(macro))
WriteMacro(slot, modeByte, c, bytes, whole) ==
  Carrying(OfSlot(Header(3, 1), slot, modeByte), c, bytes, whole)
ReadMacro(slot, modeByte, c, whole) ==
  Carrying(OfSlot(Header(2, 1), slot, modeByte), c, Filler(c.size), whole)

\* The packets write_full_profile sends of a bank, a function from offsets to bytes.
Slice(bank, c) == [i \in 1..c.size |-> bank[c.offset + i - 1]]
BankPackets(bank, size) ==
  {WriteRequest(c, Slice(bank, c), size) : c \in ProfileChunks(size)}

(***************************************************************************)
(* Framing                                                                 *)
(***************************************************************************)
\* Framing::request
OnWire(framing, p) ==
  IF framing = "plain" THEN p
  ELSE IF framing = "wrapped"
  THEN [k \in Position |-> IF k = 0 THEN 1 ELSE IF k = 1 THEN 102 ELSE IF k = 2 THEN 170
                           ELSE p[k - 2]]
  ELSE [k \in Position |-> IF k = 0 THEN p[0] ELSE IF k = 1 THEN Least(17 + p[6], 62)
                           ELSE p[k - 1]]

\* How a pad frames a normal reply in a report of 64 bytes.
Reported(framing, r) ==
  IF framing = "wrapped"
  THEN [k \in Position |-> IF k = 0 THEN 129 ELSE IF k = 1 THEN 102 ELSE IF k = 2 THEN 165
                           ELSE r[k - 1]]
  ELSE r

\* Framing::reply: the report in the normal layout, if it answers `request`
AsReply(framing, raw, request) ==
  LET normal == IF framing = "wrapped"
                THEN [k \in Position |-> IF k = 0 THEN 2 ELSE IF k = 1 THEN 4
                                         ELSE IF k = 63 THEN 0 ELSE raw[k + 1]]
                ELSE raw
      headed == IF framing = "wrapped" THEN raw[0] = 129 /\ raw[1] = 102 /\ raw[2] = 165
                ELSE raw[0] = 2 /\ raw[1] = 4
  IN  IF headed /\ normal[4] = request[2] THEN normal ELSE NoReply

(***************************************************************************)
(* Answers                                                                 *)
(***************************************************************************)
HeadIs(r, third) == r[0] = 2 /\ r[1] = 4 /\ r[2] \in third
CommandIsDone(r, cmd) == HeadIs(r, {4}) /\ r[4] = cmd
WriteIsDone(r, c) ==
  CommandIsDone(r, 1) /\ WordAt(r, 6) = c.size /\ WordAt(r, 14) = c.offset
EraseIsDone(r) == HeadIs(r, {4, 5}) /\ r[4] = 4 /\ WordAt(r, 6) = MacroPageLen
WriteMacroIsDone(r) == HeadIs(r, {4, 5}) /\ r[4] = 3
HasBytes(r, n) == PayloadAt + n <= PacketLen
UploadIsOf(r, c) ==
  /\ CommandIsDone(r, 2)
  /\ WordAt(r, 14) = c.offset
  /\ WordAt(r, 6) = c.size
  /\ HasBytes(r, c.size)
ReadMacroIsOf(r, c, whole) ==
  /\ CommandIsDone(r, 2)
  /\ r[5] = 1
  /\ WordAt(r, 10) = whole
  /\ WordAt(r, 14) = c.offset
  /\ HasBytes(r, WordAt(r, 6))
PayloadOf(r) == [i \in 1..WordAt(r, 6) |-> r[PayloadAt + i - 1]]

\* read_blob_chunks: the payloads one after another, byte i in the chunk it lies in
Assembled(answer, size) ==
  [i \in 0..size - 1 |->
     LET o == ProfileChunk * (i \div ProfileChunk)
     IN  PayloadOf(answer[o])[i - o + 1]]

\* What decode_firmware_version makes of a START_CONFIG reply.
FirmwareVersion(r) ==
  [major |-> WordAt(r, 18) \div 100, minor |-> WordAt(r, 18) % 100, beta |-> r[20]]
===============================================================================
