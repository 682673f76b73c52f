------------------------------ MODULE ModbusTcp ------------------------------
(***************************************************************************)
(* The Modbus TCP transport: one write and one read per connection         *)
(* attempt, and a transaction id that is tested once, after the retry      *)
(* loop.  A frame that fails the test fails the call, not the attempt.     *)
(***************************************************************************)
EXTENDS TcpLink

TypeOK == LinkTypeOK

Init == LinkInit

\* Faulty variant: the transaction id is not compared.
ParseResponseAnyId(f) == f.good

\* ParseResponse: length, transaction id, exception code.
ParseResponse(f) == f.good /\ f.tag = tag

\* readFrameLocked succeeds: internalSendLocked is done.
ReadFrame ==
  /\ pc = "read" /\ inbox # <<>>
  /\ Finish(Head(inbox), ParseResponse(Head(inbox)))

InternalSend == Redial \/ Retry \/ WriteFrame \/ IOFails \/ ReadFrame

Transport == Dial \/ InternalSend

-----------------------------------------------------------------------------
(* Properties.                                                             *)

\* As for Solarman V5: a response answers the request of its own call, or of one
\* so old that its transaction id has come round again.
AnswersOwnRequest == MatchedByTag
=============================================================================
