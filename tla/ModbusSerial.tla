---------------------------- MODULE ModbusSerial -----------------------------
(***************************************************************************)
(* The serial transport.  There is no connection to close behind a failed  *)
(* request: the line, and a device that has not answered yet, outlive the  *)
(* port, so what separates one request from the next is ResetInputBuffer.  *)
(* A request is written once and nothing is retried.  The model goes on    *)
(* with the driver of the next cloud request on the same line.             *)
(***************************************************************************)
EXTENDS TcpLink

VARIABLE flushed  \* history: the state of the line at the last ResetInputBuffer

\* What the flush cannot remove: a frame still to come, or a later stray one.
LineState == [strays |-> strays, owed |-> todo # <<>>]

TypeOK == LinkTypeOK /\ flushed \in [strays : 0..MaxStrays, owed : BOOLEAN]

Init == LinkInit /\ flushed = LineState

ClosePort == conn' = FALSE /\ inbox' = <<>> /\ sent' = {}

\* closeAfterError and the error return of SendRTU.
CloseAfterError == ClosePort /\ Fails

\* The port is there or is opened, which a done context prevents.
OpenPort == (conn \/ ~ctxDone) /\ conn' = TRUE

\* Faulty variant: the input is not flushed.
PrepareNoFlush ==
  /\ pc = "dial"
  /\ OpenPort
  /\ pc' = "write"
  /\ flushed' = LineState
  /\ UNCHANGED <<inbox, sent, todo, callVars, ctxDone, failed, history>>

\* SendRTU up to the write.  A failed SetReadTimeout or ResetInputBuffer is
\* returned without closing the port.
Prepare ==
  /\ pc = "dial"
  /\ \/ /\ OpenPort
        /\ pc' = "write"
        /\ inbox' = <<>>
        /\ flushed' = LineState
        /\ UNCHANGED failed
     \/ OpenPort /\ Fails /\ UNCHANGED <<inbox, flushed>>
     \/ ~conn /\ Fails /\ UNCHANGED <<conn, inbox, flushed>>
  /\ UNCHANGED <<sent, todo, callVars, ctxDone, history>>

\* writeAll and Drain.  The device may have the whole request although one of
\* them failed.
WriteRequest ==
  LET reached == Append(todo, [call |-> call, tag |-> tag, live |-> TRUE])
  IN  /\ pc = "write"
      /\ \/ pc' = "read" /\ todo' = reached /\ UNCHANGED <<conn, inbox, sent, failed>>
         \/ CloseAfterError /\ todo' \in {todo, reached}
      /\ lateWrites' = lateWrites + (IF ctxDone THEN 1 ELSE 0)
      /\ UNCHANGED <<callVars, ctxDone, answer, strays, flushed>>

\* readFrameLocked fails: a timeout, a read error, a frame whose length is out
\* of range, or a done context, which is tested before every read and once more
\* before a complete frame is returned.
ReadFails ==
  /\ pc = "read"
  /\ CloseAfterError
  /\ UNCHANGED <<todo, callVars, ctxDone, history, flushed>>

\* readFrameLocked returns a frame; a wrong CRC leaves the port open.
ReadFrame ==
  /\ pc = "read" /\ inbox # <<>> /\ ~ctxDone
  /\ Finish(Head(inbox), Head(inbox).good)
  /\ UNCHANGED flushed

Transport == Prepare \/ WriteRequest \/ ReadFails \/ ReadFrame

\* The deferred driver.Close, after any of the lines: they belong to one request
\* or to several.
Close ==
  /\ pc = "idle"
  /\ pc' = "closed"
  /\ ClosePort
  /\ UNCHANGED <<todo, callVars, ctxDone, failed, history, flushed>>

\* factory.New for the next cloud request.
NextDriver ==
  /\ pc = "closed" /\ call < MaxCalls
  /\ pc' = "new"
  /\ ctxDone' = FALSE /\ failed' = FALSE
  /\ UNCHANGED <<conn, inbox, sent, todo, callVars, history, flushed>>

Use == ((Connect \/ SendRTU) /\ UNCHANGED flushed) \/ Close \/ NextDriver

-----------------------------------------------------------------------------
(* Properties.                                                             *)

\* The frame that a call returned answers that call, unless something the flush
\* could not remove came in after it: the device still owed the answer to an
\* earlier, abandoned request (of this driver or of the one before), or sent a
\* frame of its own.
AnswersOwnRequest ==
  pc = "idle" /\ call > 0 /\ flushed = [strays |-> strays, owed |-> FALSE]
    => answer[call] \in {0, call}
=============================================================================
