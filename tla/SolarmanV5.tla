----------------------------- MODULE SolarmanV5 ------------------------------
(***************************************************************************)
(* The Solarman V5 transport: within one connection attempt the request is *)
(* written again whenever a frame with another sequence number is read.    *)
(* sequenceAttempts is a constant and the context is not tested between    *)
(* these writes.                                                           *)
(***************************************************************************)
EXTENDS TcpLink

CONSTANT SeqAttempts  \* sequenceAttempts

VARIABLE resends  \* sequenceAttempt of exchangeLocked

TypeOK == LinkTypeOK /\ resends \in 0..(SeqAttempts - 1)

Init == LinkInit /\ resends = 0

\* Faulty variant: whatever came after the last attempt is the answer.
ParseFrameTrusting(f) == f.good

\* ParseFrame: markers, length, control code, sequence and serial number.
ParseFrame(f) == f.good /\ f.tag = tag

\* Faulty variant: the sequence attempts are not counted.
ReadFrameUncounted ==
  /\ pc = "read" /\ inbox # <<>>
  /\ IF Head(inbox).tag = tag
     THEN Finish(Head(inbox), ParseFrame(Head(inbox))) /\ UNCHANGED resends
     ELSE /\ pc' = "write"
          /\ inbox' = Tail(inbox)
          /\ UNCHANGED <<conn, sent, todo, callVars, ctxDone, failed, history, resends>>

\* exchangeLocked after a frame was read: done on a matching sequence number
\* or after the last attempt, else the request is written again.
ReadFrame ==
  /\ pc = "read" /\ inbox # <<>>
  /\ IF Head(inbox).tag = tag \/ resends = SeqAttempts - 1
     THEN Finish(Head(inbox), ParseFrame(Head(inbox))) /\ UNCHANGED resends
     ELSE /\ pc' = "write"
          /\ inbox' = Tail(inbox)
          /\ resends' = resends + 1
          /\ UNCHANGED <<conn, sent, todo, callVars, ctxDone, failed, history>>

\* Each connection attempt starts a new exchange.
Exchange == (Dial \/ Redial) /\ resends' = 0

Transport ==
  \/ Exchange
  \/ (Retry \/ WriteFrame \/ IOFails) /\ UNCHANGED resends
  \/ ReadFrame

-----------------------------------------------------------------------------
(* Properties.                                                             *)

\* A response that SendRTU returns answers the request it sent: a late, doubled
\* or unsolicited frame is never returned as another call's answer, unless that
\* call is so old that its sequence number has come round again.
AnswersOwnRequest == MatchedByTag
=============================================================================
