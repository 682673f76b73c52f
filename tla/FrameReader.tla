----------------------------- MODULE FrameReader -----------------------------
(***************************************************************************)
(* How the two transports that carry bare RTU frames find the frames in a  *)
(* stream of bytes.  Nothing in the stream marks where a frame begins: the *)
(* length comes from its first bytes, and the RTU-over-TCP transport keeps *)
(* what it read beyond a frame for the next call, while the serial one     *)
(* never reads beyond it and flushes its input before each request.  The   *)
(* bytes arrive in pieces of any size; noise may flip a bit or swallow a   *)
(* byte, the device may send a frame of its own, and a deadline may pass   *)
(* in the middle of a frame whose rest comes later.  The names are the     *)
(* component's own: ExecutorProofs extends this module and Executor.       *)
(***************************************************************************)
EXTENDS ModbusRtu, FiniteSetsExt

CONSTANTS
  MaxCalls,   \* bound: requests
  MaxNoise,   \* bound: flipped bits and lost bytes
  MaxFaults,  \* bound: frames too many and early deadlines
  FlipBits    \* the bits of a byte that noise may flip

ASSUME ReaderAssumption ==
  /\ MaxCalls \in Nat /\ MaxNoise \in Nat /\ MaxFaults \in Nat
  /\ FlipBits \subseteq 0..7

VARIABLES
  kind,      \* the transport
  reader,    \* the driver: between calls, in readFrameLocked, or failed
  owed,      \* requests the device has not answered
  wire,      \* bytes under way
  input,     \* bytes that have arrived and are not read
  buffer,    \* the bytes of readFrameLocked, between calls transport.pending
  sent,      \* history: frames the device sent
  returned,  \* history: frames SendRTU returned
  calls,     \* history: requests so far
  noise,     \* flipped bits and lost bytes so far
  faults,    \* frames too many and early deadlines so far
  spoiled    \* history: the current call met a fault, its own or an older one's

readerVars ==
  <<kind, reader, owed, wire, input, buffer, sent, returned, calls, noise, faults, spoiled>>

Kinds == {"modbusrtutcp", "modbusserial"}

\* What a device may answer to its n-th request: to a read, to a write, to a
\* combined read and write, and with an exception.
Answers ==
  [n \in 1..MaxCalls |->
    {AppendCRC(p) : p \in {<<1, 3, 2, 0, n>>, <<1, 16, 0, n, 0, 1>>, <<1, 23, 2, n, 0>>,
                           <<1, 131, n>>}}]

ReaderTypeOK ==
  /\ kind \in Kinds
  /\ reader \in {"idle", "reading", "failed"}
  /\ owed \in 0..MaxCalls /\ calls \in 0..MaxCalls
  /\ noise \in 0..MaxNoise /\ faults \in 0..MaxFaults
  /\ \A bytes \in {wire, input, buffer} : bytes \in Seq(Byte)
  /\ \A frames \in {sent, returned} : \A i \in DOMAIN frames : frames[i] \in Seq(Byte)
  /\ spoiled \in BOOLEAN

ReaderInit ==
  /\ kind \in Kinds
  /\ reader = "idle"
  /\ owed = 0 /\ calls = 0 /\ noise = 0 /\ faults = 0
  /\ wire = <<>> /\ input = <<>> /\ buffer = <<>>
  /\ sent = <<>> /\ returned = <<>>
  /\ spoiled = FALSE

-----------------------------------------------------------------------------
(* The transports.                                                         *)

\* ResetInputBuffer of the serial transport; there is nothing like it on TCP.
ResetInput(bytes) == IF kind = "modbusserial" THEN <<>> ELSE bytes

\* SendRTU up to the end of the write.
SendRTU ==
  /\ reader = "idle" /\ calls < MaxCalls
  /\ reader' = "reading"
  /\ calls' = calls + 1
  /\ owed' = owed + 1
  /\ input' = ResetInput(input)
  /\ spoiled' = (owed > 0 \/ wire # <<>> \/ buffer # <<>> \/ ResetInput(input) # <<>>)
  /\ UNCHANGED <<kind, wire, buffer, sent, returned, noise, faults>>

\* An error ends the attempt: the RTU-over-TCP transport connects anew for the
\* next one, a retry or a call of the next driver, and the connection and what
\* is on it are gone; on a serial line only the port is closed.  After a wrong CRC
\* it is the handler that closes the driver, without reading on it again: the
\* failed line ends the batch.
Fail ==
  /\ reader' = "failed"
  /\ input' = <<>> /\ buffer' = <<>>
  /\ IF kind = "modbusserial"
     THEN UNCHANGED <<wire, owed>>
     ELSE wire' = <<>> /\ owed' = 0

\* The next attempt or driver.
NextDriver ==
  /\ reader = "failed"
  /\ reader' = "idle"
  /\ UNCHANGED <<kind, owed, wire, input, buffer, sent, returned, calls, noise, faults, spoiled>>

\* A frame is complete: the RTU-over-TCP reader takes it off a longer buffer.
Complete == ExpectedResponseLength(buffer) \in 1..Len(buffer)

\* Faulty variant: the last byte of the frame is kept as well.
RestOffByOne(length) == SubSeq(buffer, length, Len(buffer))

\* What stays in transport.pending.
Rest(length) == SubSeq(buffer, length + 1, Len(buffer))

\* readFrameLocked returns, and SendRTU checks the CRC of what it returned.
ReturnFrame ==
  /\ reader = "reading" /\ Complete
  /\ LET length == ExpectedResponseLength(buffer)
         frame == SubSeq(buffer, 1, length)
     IN  IF ValidateCRC(frame)
         THEN /\ returned' = Append(returned, frame)
              /\ buffer' = Rest(length)
              /\ reader' = "idle"
              /\ UNCHANGED <<owed, wire, input>>
         ELSE Fail /\ UNCHANGED returned
  /\ UNCHANGED <<kind, sent, calls, noise, faults, spoiled>>

\* How many bytes one Read asks for: on TCP a whole buffer, on a serial line the
\* header first and then the rest of this frame.
ReadSize ==
  LET expected == ExpectedResponseLength(buffer)
  IN  CASE kind = "modbusrtutcp" -> Len(input)
        [] kind = "modbusserial" /\ expected > 0 -> expected - Len(buffer)
        [] kind = "modbusserial" /\ expected = 0 -> IF Len(buffer) < 2 THEN 2 - Len(buffer) ELSE 1

\* One Read of readFrameLocked: as many of the bytes that have arrived.
Read ==
  /\ reader = "reading" /\ ~Complete /\ input # <<>>
  /\ LET n == Min({ReadSize, Len(input)})
     IN  /\ buffer' = buffer \o SubSeq(input, 1, n)
         /\ input' = SubSeq(input, n + 1, Len(input))
  /\ UNCHANGED <<kind, reader, owed, wire, sent, returned, calls, noise, faults, spoiled>>

\* The deadline passes: nothing more will come, or what comes is late.
Timeout ==
  /\ reader = "reading" /\ ~Complete
  /\ Fail
  /\ \/ input = <<>> /\ wire = <<>> /\ owed = 0 /\ UNCHANGED <<faults, spoiled>>
     \/ faults < MaxFaults /\ faults' = faults + 1 /\ spoiled' = TRUE
  /\ UNCHANGED <<kind, sent, returned, calls, noise>>

-----------------------------------------------------------------------------
(* The device and the line.                                                *)

Answer ==
  /\ owed > 0
  /\ owed' = owed - 1
  /\ \E f \in Answers[calls - owed + 1] : wire' = wire \o f /\ sent' = Append(sent, f)
  /\ UNCHANGED <<kind, reader, input, buffer, returned, calls, noise, faults, spoiled>>

\* Bytes arrive; while the port is closed they are lost.
Arrive ==
  /\ wire # <<>>
  /\ \E n \in 1..Len(wire) :
       /\ input' = IF reader = "failed" THEN <<>> ELSE input \o SubSeq(wire, 1, n)
       /\ wire' = SubSeq(wire, n + 1, Len(wire))
  /\ UNCHANGED <<kind, reader, owed, buffer, sent, returned, calls, noise, faults, spoiled>>

\* A bit is flipped or a byte is swallowed on the way.
Noise ==
  /\ noise < MaxNoise
  /\ noise' = noise + 1
  /\ spoiled' = TRUE
  /\ \E i \in DOMAIN wire :
       \/ \E b \in FlipBits : wire' = [wire EXCEPT ![i] = Xor[wire[i], 2 ^ b]]
       \/ wire' = RemoveAt(wire, i)
  /\ UNCHANGED <<kind, reader, owed, input, buffer, sent, returned, calls, faults>>

\* The device sends its last frame once more.
Repeat ==
  /\ sent # <<>> /\ reader # "failed"
  /\ faults < MaxFaults
  /\ faults' = faults + 1
  /\ spoiled' = TRUE
  /\ wire' = wire \o Last(sent) /\ sent' = Append(sent, Last(sent))
  /\ UNCHANGED <<kind, reader, owed, input, buffer, returned, calls, noise>>

Done == reader # "reading" /\ calls = MaxCalls /\ wire = <<>> /\ owed = 0 /\ UNCHANGED readerVars

ReaderNext ==
  \/ SendRTU \/ NextDriver \/ ReturnFrame \/ Read \/ Timeout
  \/ Answer \/ Arrive \/ Noise \/ Repeat \/ Done

ReaderSpec == ReaderInit /\ [][ReaderNext]_readerVars

-----------------------------------------------------------------------------
(* Properties.                                                             *)

\* What SendRTU returns is, byte for byte, a frame the device sent; frames come
\* in the order they were sent and none comes twice, however the stream is cut,
\* damaged or abandoned in the middle of a frame.
ReturnsSentFrames ==
  \E place \in [DOMAIN returned -> DOMAIN sent] :
    /\ \A i \in DOMAIN returned : returned[i] = sent[place[i]]
    /\ \A i, j \in DOMAIN returned : i < j => place[i] < place[j]

\* A call fails only for a reason: without noise, a frame too many, an early
\* deadline or the remains of one, the reader finds the frame and never waits
\* for a byte that is not part of it.
FailsOnlyIfSpoiled == reader = "failed" => spoiled

\* The reader consumes its frame and nothing but its frame: what is left over
\* after an undisturbed call would be taken for the beginning of the next answer.
ConsumesWholeFrame ==
  reader = "idle" /\ calls > 0 /\ ~spoiled => wire = <<>> /\ input = <<>> /\ buffer = <<>>
=============================================================================
