----------------------------- MODULE VoicePacket -----------------------------
(***************************************************************************)
(* The header transmit_frame puts before an encrypted frame, with the      *)
(* byte order functions of net_utils.hpp it uses.  A byte has Byte values, *)
(* 256 in the code; the library is built for a little endian machine.      *)
(***************************************************************************)
EXTENDS Integers, SequencesExt

CONSTANT Byte

ASSUME ByteAssumption == Byte \in Nat \ {0, 1}

Values16 == Byte * Byte           \* how many values _sequence has
Values32 == Values16 * Values16   \* and _timestamp and _ssrc

(* The bytes of such integers in memory.                                   *)
InMemory16(value) == <<value % Byte, (value \div Byte) % Byte>>
InMemory32(value) == InMemory16(value % Values16) \o InMemory16(value \div Values16)

KeepsOrder(bytes) == bytes
to_big_endian(bytes) == Reverse(bytes)

push_back(payload, bytes) == payload \o bytes

(* Version and payload type, sequence, timestamp, ssrc.                    *)
Header(sequence, timestamp, ssrc) ==
  LET start == push_back(push_back(<<>>, <<"0x80">>), <<"0x78">>)
      seq == push_back(start, to_big_endian(InMemory16(sequence)))
      time == push_back(seq, to_big_endian(InMemory32(timestamp)))
  IN push_back(time, to_big_endian(InMemory32(ssrc)))

(* What a reader of the header finds from its i-th byte on: RTP has the    *)
(* most significant byte first.                                            *)
Read16(header, i) == header[i] * Byte + header[i + 1]
Read32(header, i) == Read16(header, i) * Values16 + Read16(header, i + 2)

SequenceIn(header) == Read16(header, 3)
TimestampIn(header) == Read32(header, 5)
SsrcIn(header) == Read32(header, 9)
=============================================================================
