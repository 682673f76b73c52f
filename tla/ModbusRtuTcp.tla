---------------------------- MODULE ModbusRtuTcp -----------------------------
(***************************************************************************)
(* The RTU-over-TCP transport: raw RTU frames carry no transaction id, so  *)
(* an answer belongs to a request only by its place in the stream.  One    *)
(* read may bring several frames; those after the first are kept in        *)
(* pending for the next exchange.                                          *)
(***************************************************************************)
EXTENDS TcpLink

VARIABLE pending  \* frames read beyond the one returned

TypeOK == LinkTypeOK /\ pending \in Seq(Frames)

Init == LinkInit /\ pending = <<>>

\* connectLocked and closeLocked empty the buffer.
KeepPending == pending' = IF conn /\ conn' THEN pending ELSE <<>>

\* ValidateCRC: there is nothing else to tell an answer by.
ValidateCRC(f) == f.good

\* readFrameLocked: the first frame of the buffer, or of a read that brings n.
ReadFrame ==
  /\ pc = "read"
  /\ \E n \in IF pending = <<>> THEN 1..Len(inbox) ELSE {0} :
       LET buffer == pending \o SubSeq(inbox, 1, n)
           frame == Head(buffer)
       IN  /\ pending' = Tail(buffer)
           /\ inbox' = SubSeq(inbox, n + 1, Len(inbox))
           /\ failed' = ~ValidateCRC(frame)
           /\ answer' = [answer EXCEPT ![call] =
                           IF ValidateCRC(frame) THEN frame.call ELSE 0]
  /\ pc' = "idle"
  /\ UNCHANGED <<conn, sent, todo, callVars, ctxDone, lateWrites, strays>>

InternalSend ==
  \/ (Redial \/ Retry \/ WriteFrame \/ IOFails) /\ KeepPending
  \/ ReadFrame

Transport == InternalSend \/ (Dial /\ KeepPending)

\* Connect and Close of the transport, and the calls between them.
Use == ((Connect \/ CloseDriver) /\ KeepPending) \/ (SendRTU /\ UNCHANGED pending)

-----------------------------------------------------------------------------
(* Properties.                                                             *)

\* From a device that never sends a frame of its own accord every response
\* answers the request of its own call: each retry has a connection of its
\* own, and no call follows a failed one, whose answer may still be under way.
AnswersOwnRequest == strays = 0 => Matched
=============================================================================
