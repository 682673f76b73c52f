------------------------------- MODULE Driver --------------------------------
(***************************************************************************)
(* The driver of one cloud request: the factory selects the transport by   *)
(* the configured kind, and the request's Modbus lines go through it.  The *)
(* four transports share TcpLink's state; resends, pending and flushed are *)
(* state of one transport each and stay as they are with the others.       *)
(***************************************************************************)
EXTENDS TcpLink

CONSTANT SeqAttempts  \* sequenceAttempts of Solarman V5

ASSUME DriverAssumption == SeqAttempts \in Nat \ {0}

VARIABLES
  kind,     \* config.Plant.Driver
  resends,  \* SolarmanV5: sequenceAttempt of exchangeLocked
  pending,  \* ModbusRtuTcp: frames read beyond the one returned
  flushed   \* ModbusSerial: history of the last ResetInputBuffer

vars == <<linkVars, kind, resends, pending, flushed>>

Solarman == INSTANCE SolarmanV5
Tcp      == INSTANCE ModbusTcp
RtuTcp   == INSTANCE ModbusRtuTcp
Serial   == INSTANCE ModbusSerial

Kinds == {"solarmanv5", "modbustcp", "modbusrtutcp", "modbusserial"}

TypeOK ==
  kind \in Kinds /\ Solarman!TypeOK /\ Tcp!TypeOK /\ RtuTcp!TypeOK /\ Serial!TypeOK

\* factory.New.  The serial transport has no sequence numbers.
Init ==
  /\ kind \in Kinds
  /\ Solarman!Init /\ Tcp!Init /\ RtuTcp!Init /\ Serial!Init
  /\ kind = "modbusserial" => tag = 0

\* SendRTU of the selected transport.
SendRTUWith ==
  \/ kind = "solarmanv5" /\ Solarman!Transport /\ UNCHANGED <<pending, flushed>>
  \/ kind = "modbustcp" /\ Tcp!Transport /\ UNCHANGED <<resends, pending, flushed>>
  \/ kind = "modbusrtutcp" /\ RtuTcp!Transport /\ UNCHANGED <<resends, flushed>>
  \/ kind = "modbusserial" /\ Serial!Transport /\ UNCHANGED <<resends, pending>>

\* Connect and Close of the selected transport and the calls between them.
Use ==
  \/ kind = "modbusrtutcp" /\ RtuTcp!Use /\ UNCHANGED <<resends, flushed>>
  \/ kind = "modbusserial" /\ Serial!Use /\ UNCHANGED <<resends, pending>>
  \/ /\ kind \in {"solarmanv5", "modbustcp"}
     /\ Caller /\ UNCHANGED <<resends, pending, flushed>>

Environment == (Cancel \/ Device \/ Closed) /\ UNCHANGED <<resends, pending, flushed>>

Next == (SendRTUWith \/ Use \/ Environment) /\ UNCHANGED kind

Spec == Init /\ [][Next]_vars

\* Deadlines fire, dials end and the caller goes on.
FairSpec ==
  Spec /\ WF_vars(SendRTUWith /\ UNCHANGED kind) /\ WF_vars(Use /\ UNCHANGED kind)

-----------------------------------------------------------------------------
(* Properties.                                                             *)

\* A response that SendRTU returns answers the request of that very call, in
\* spite of late, spoiled and doubled answers; unsolicited frames excepted where
\* the transport has nothing to tell them by.
AnswersOwnRequest ==
  /\ kind = "solarmanv5" => Solarman!AnswersOwnRequest
  /\ kind = "modbustcp" => Tcp!AnswersOwnRequest
  /\ kind = "modbusrtutcp" => RtuTcp!AnswersOwnRequest
  /\ kind = "modbusserial" => Serial!AnswersOwnRequest

\* A cancelled call writes no more than what is left of one exchange: what
\* bounds the time a request goes on after the supervisor cancelled it.
CancelStops == lateWrites <= IF kind = "solarmanv5" THEN SeqAttempts ELSE 1

\* Retries and resends do not pile up answers: between calls a connection and
\* the buffer hold no more frames than the device sent beyond its duty.
BacklogBounded ==
  kind # "modbusserial" /\ pc = "idle" /\ ~failed => Len(pending) + Backlog <= strays

\* Every call returns, whatever the device does.
CallsReturn == (pc = "dial") ~> (pc = "idle")
=============================================================================
