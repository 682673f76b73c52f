------------------------------ MODULE ModbusRtu ------------------------------
(***************************************************************************)
(* The Modbus RTU codec: the CRC at the end of a frame and the length of a *)
(* response, told from its first bytes.  A frame is a sequence of bytes.   *)
(***************************************************************************)
EXTENDS Naturals, Sequences, SequencesExt

Byte == 0..255

\* Go's ^ on unsigned numbers.
Xor[a, b \in Nat] ==
  IF a = 0 \/ b = 0 THEN a + b ELSE ((a + b) % 2) + 2 * Xor[a \div 2, b \div 2]

\* One of the eight shifts that CRC16 makes per byte; 40961 is 0xA001.
ShiftBit(crc) ==
  IF crc % 2 = 1 THEN Xor[crc \div 2, 40961] ELSE crc \div 2

\* The remainder CRC16 has after the bytes of a payload.
Remainder(payload) ==
  FoldLeft(LAMBDA crc, value : FoldLeft(LAMBDA c, bit : ShiftBit(c), Xor[crc, value],
                                        <<0, 1, 2, 3, 4, 5, 6, 7>>),
           65535, payload)

\* CRC16: the low byte goes first.
CRC16(payload) == LET crc == Remainder(payload) IN <<crc % 256, crc \div 256>>

AppendCRC(payload) == payload \o CRC16(payload)

\* Faulty variant: only the low byte is compared.
ValidateLowByte(frame) ==
  /\ Len(frame) >= 2
  /\ CRC16(SubSeq(frame, 1, Len(frame) - 2))[1] = frame[Len(frame) - 1]

ValidateCRC(frame) ==
  /\ Len(frame) >= 2
  /\ CRC16(SubSeq(frame, 1, Len(frame) - 2)) = SubSeq(frame, Len(frame) - 1, Len(frame))

\* Answers to reads carry a byte count, those to writes (5 and above, except
\* 23) do not.
IsRead(function) == function < 5 \/ function = 23

\* Faulty variant: 23 is taken for a write, which its number suggests.
LengthOf23AsWrite(data) ==
  IF Len(data) < 2 THEN 0
  ELSE CASE data[2] >= 128 -> 5
         [] data[2] \in 5..127 -> 8
         [] OTHER -> IF Len(data) < 3 THEN 0 ELSE 3 + data[3] + 2

\* The length of the response that begins with data, 0 while that is not yet
\* known.  3 + 255 + 2 is below maxFrameSize, so no length is refused.
ExpectedResponseLength(data) ==
  IF Len(data) < 2 THEN 0
  ELSE CASE data[2] >= 128 -> 5
         [] data[2] < 128 /\ ~IsRead(data[2]) -> 8
         [] OTHER -> IF Len(data) < 3 THEN 0 ELSE 3 + data[3] + 2
=============================================================================
