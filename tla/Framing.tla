--------------------------------- MODULE Framing ---------------------------------
(***************************************************************************)
(* From a packet to a frame and back: the size limits and the checksum of  *)
(* finalizePacketToFrame() and handleFrame(), byte by byte, with a medium  *)
(* that changes up to eight bits in a row of a frame.                      *)
(*                                                                         *)
(* A frame is a sequence of bytes; beyond its end, the receiver's buffer   *)
(* holds zeros.  The receiver has address Me.                              *)
(***************************************************************************)
EXTENDS Naturals, Sequences

CONSTANTS Dests,     \* destinations of packets
          Payloads,  \* their payloads
          Sensitive  \* the places of a frame whose bits the medium changes

MAX_MAKERNET_FRAME_LENGTH == 25
NUM_PORTS == 16
ADDR_UNASSIGNED == 0
ADDR_BROADCAST == 255
Me == 2
HeaderSize == 4  \* sizeof(Packet)

Byte == 0..255

ASSUME ConstantAssumption == /\ Dests \subseteq Byte /\ Payloads \subseteq Seq(Byte)
                             /\ \A payload \in Payloads : Len(payload) \in Byte

VARIABLES stage,  \* where the frame is
          sent,   \* the packet, as header and payload
          wire,   \* the bytes that travel
          routed  \* what handleFrame() has passed to routePacket()

vars == <<stage, sent, wire, routed>>

BytesOnly(f) == \A k \in 1..Len(f) : f[k] \in Byte

TypeOK == /\ stage \in {"idle", "travelling", "received"}
          /\ BytesOnly(sent) /\ BytesOnly(wire) /\ BytesOnly(routed)
          /\ Len(wire) \in {0, Len(sent) + 1}

Init == stage = "idle" /\ sent = <<>> /\ wire = <<>> /\ routed = <<>>

-------------------------------------------------------------------------------
(* crc8_ccitt_update() for all values of inCrc ^ inData, and               *)
(* calculateCRC().                                                         *)
BitValues == {1, 2, 4, 8, 16, 32, 64, 128}

Bit(d, v) == (d \div v) % 2

Xor(a, b) == LET x(v) == v * ((Bit(a, v) + Bit(b, v)) % 2)
             IN  x(1) + x(2) + x(4) + x(8) + x(16) + x(32) + x(64) + x(128)

Shift(d) == IF d >= 128 THEN Xor(2 * d - 256, 7) ELSE 2 * d

CrcTable == [d \in Byte |-> Shift(Shift(Shift(Shift(Shift(Shift(Shift(Shift(d))))))))]

CrcOf(bytes, n) ==
  LET crc[k \in 0..n] == IF k = 0 THEN 0 ELSE CrcTable[Xor(crc[k - 1], bytes[k])]
  IN  crc[n]

HeaderCRC(bytes) == CrcOf(bytes, HeaderSize)  \* mutant: the payload is left out
CalculateCRC(bytes) == CrcOf(bytes, Len(bytes))

(* finalizePacketToFrame(): its errors, and the frame.                     *)
Finalizes(p) == p[4] < MAX_MAKERNET_FRAME_LENGTH - 1 /\ p[1] # ADDR_UNASSIGNED

SentBare(p) == p  \* mutant: no checksum
FrameOf(p) == Append(p, CalculateCRC(p))

Send ==
  /\ stage = "idle" /\ stage' = "travelling"
  /\ \E dest \in Dests, payload \in Payloads :
        /\ sent' = <<dest, 1, 1, Len(payload)>> \o payload
        /\ Finalizes(sent')
        /\ wire' = FrameOf(sent')
  /\ UNCHANGED routed

(* The medium changes the bits of pattern, from the bit of value v in byte *)
(* i of the frame down: some of them in that byte, the rest in the next.   *)
Upper(pattern, v) == pattern \div (128 \div v)
Lower(pattern, v) == (pattern * 2 * v) % 256

Burst(i, v, pattern) ==
  [k \in 1..Len(wire) |-> CASE k = i -> Xor(wire[k], Upper(pattern, v))
                            [] k = i + 1 -> Xor(wire[k], Lower(pattern, v))
                            [] OTHER -> wire[k]]

Damage ==
  /\ stage = "travelling" /\ wire = FrameOf(sent)
  /\ \E i \in 1..Len(wire), v \in BitValues, pattern \in 128..255 :
        /\ wire' = Burst(i, v, pattern)
        /\ \A k \in 1..Len(wire) : wire'[k] = wire[k] \/ k \in Sensitive
  /\ UNCHANGED <<stage, sent, routed>>

(* handleFrame(): what it drops, and what it routes.                       *)
Buffer == [i \in 1..(MAX_MAKERNET_FRAME_LENGTH + 256) |-> IF i <= Len(wire) THEN wire[i] ELSE 0]

SizeFitsFrame(n) == HeaderSize + n + 1 < 24  \* mutant: off by one
SizeFits(n) == n < MAX_MAKERNET_FRAME_LENGTH - 1 - HeaderSize

ForMe(dest) == dest = ADDR_BROADCAST \/ dest = Me

Packed == SubSeq(Buffer, 1, HeaderSize + Buffer[4])

Checks(p) == CalculateCRC(p) = Buffer[Len(p) + 1]

Accepts == /\ ForMe(Buffer[1])
           /\ Buffer[3] < NUM_PORTS
           /\ SizeFits(Buffer[4])
           /\ Checks(Packed)

Receive ==
  /\ stage = "travelling" /\ stage' = "received"
  /\ routed' = IF Accepts THEN Packed ELSE <<>>
  /\ UNCHANGED <<sent, wire>>

Again ==
  /\ stage = "received" /\ stage' = "idle"
  /\ sent' = <<>> /\ wire' = <<>> /\ routed' = <<>>

Next == Send \/ Damage \/ Receive \/ Again

Spec == Init /\ [][Next]_vars

-------------------------------------------------------------------------------
(* Properties.                                                             *)

(* What is routed is what was sent, or nothing: the checksum catches every *)
(* change of up to eight bits in a row, wherever it is in the frame but in *)
(* the size, from which the place of the checksum follows (Network.cpp     *)
(* 307-347, 444-452; Util.cpp 19-42).                                      *)
Intact == routed \in {<<>>, sent}

(* finalizePacketToFrame() is "range checking the packet. Returns full    *)
(* size of the frame if the packet is OK" (Network.cpp 421-422): what it   *)
(* lets out and nothing changes is routed at the other end, if it is for   *)
(* this node (Network.cpp 309-347, 424-455).  True of payloads of up to 19 *)
(* bytes; the receiver drops larger ones.                                  *)
FinalizedIsRouted ==
  stage = "received" /\ wire = FrameOf(sent) /\ ForMe(sent[1]) => routed = sent

-------------------------------------------------------------------------------
(* What the documents promise and TLC refutes (the README names the        *)
(* instances).                                                             *)

(* handleFrame() is there to "boundary check everything and ensure it is a *)
(* valid packet so that no further data validation is needed upstream"     *)
(* (Network.cpp 295-296): not even where the size is changed does anything *)
(* get through but what was sent.                                          *)
ValidPacketsOnly == routed # <<>> => routed = sent
===============================================================================
