------------------------------ MODULE Executor -------------------------------
(***************************************************************************)
(* The driver facade and its executor: the operations of a driver, called  *)
(* by any goroutines, go through one token to the transport, and the local *)
(* helpers keep a minimum delay after the last local request that was      *)
(* answered.  The transport takes any time, fails or never returns.        *)
(* Clocks count ticks and stop at the largest value that matters.          *)
(***************************************************************************)
EXTENDS Naturals, FiniteSets

CONSTANTS
  Callers,    \* goroutines that use the driver
  ReadDelay,  \* readDelay
  WriteDelay  \* writeDelay

ASSUME ExecutorAssumption ==
  ReadDelay \in Nat /\ WriteDelay \in Nat /\ ReadDelay <= WriteDelay

VARIABLES
  pc,         \* where each caller is in execute
  op,         \* the operation it called
  ctxDone,    \* its context is done
  token,      \* executor.token holds the token
  lastSend,   \* ticks since executor.lastSend; WriteDelay if that is zero
  timer,      \* ticks left of clock.Wait
  sinceWrite  \* history: ticks since a local write last ended well

vars == <<pc, op, ctxDone, token, lastSend, timer, sinceWrite>>

\* Connect is a raw operation without a request.
Ops == {"raw", "read", "write", "close"}

RecordSend(o) == o \in {"read", "write"}

MinimumDelay(o) == CASE o = "read" -> ReadDelay [] o = "write" -> WriteDelay [] OTHER -> 0

TypeOK ==
  /\ pc \in [Callers -> {"idle", "queued", "delayed", "sending"}]
  /\ op \in [Callers -> Ops]
  /\ ctxDone \in [Callers -> BOOLEAN]
  /\ token \in BOOLEAN
  /\ lastSend \in 0..WriteDelay
  /\ timer \in 0..WriteDelay
  /\ sinceWrite \in 0..WriteDelay

Init ==
  /\ pc = [c \in Callers |-> "idle"]
  /\ op = [c \in Callers |-> "raw"]
  /\ ctxDone = [c \in Callers |-> FALSE]
  /\ token = TRUE
  /\ lastSend = WriteDelay
  /\ timer = 0
  /\ sinceWrite = WriteDelay

-----------------------------------------------------------------------------
\* An operation enters execute.  Too many registers, or a context that is done
\* already, are refused at once.
Call(c) ==
  /\ pc[c] = "idle"
  /\ pc' = [pc EXCEPT ![c] = "queued"]
  /\ \E o \in Ops : op' = [op EXCEPT ![c] = o]
  /\ UNCHANGED <<ctxDone, token, lastSend, timer, sinceWrite>>

\* Close has the background context.
Cancel(c) ==
  /\ pc[c] # "idle" /\ op[c] # "close" /\ ~ctxDone[c]
  /\ ctxDone' = [ctxDone EXCEPT ![c] = TRUE]
  /\ UNCHANGED <<pc, op, token, lastSend, timer, sinceWrite>>

\* execute returns to its caller, whose next context is a new one.
Return(c) ==
  /\ pc' = [pc EXCEPT ![c] = "idle"]
  /\ op' = [op EXCEPT ![c] = "raw"]
  /\ ctxDone' = [ctxDone EXCEPT ![c] = FALSE]

\* Faulty variant: the token is awaited without the context.
GiveUpNever(c) == FALSE /\ UNCHANGED vars

\* Faulty variant: the deferred return of the token comes before the select.
GiveUpReturnsToken(c) ==
  /\ pc[c] = "queued" /\ ctxDone[c]
  /\ Return(c)
  /\ token' = TRUE
  /\ UNCHANGED <<lastSend, timer, sinceWrite>>

\* select: the context is done before the token is there, or with it.
GiveUp(c) ==
  /\ pc[c] = "queued" /\ ctxDone[c]
  /\ Return(c)
  /\ UNCHANGED <<token, lastSend, timer, sinceWrite>>

\* What is left of the minimum delay.
Remaining(o) ==
  IF RecordSend(o) /\ lastSend < MinimumDelay(o) THEN MinimumDelay(o) - lastSend ELSE 0

\* select: the token; then the delay of a local helper, if any is left.
TakeToken(c) ==
  /\ pc[c] = "queued" /\ token
  /\ token' = FALSE
  /\ timer' = Remaining(op[c])
  /\ pc' = [pc EXCEPT ![c] = IF timer' > 0 THEN "delayed" ELSE "sending"]
  /\ UNCHANGED <<op, ctxDone, lastSend, sinceWrite>>

\* Faulty variant: the error of a cancelled wait is ignored.
DelayEndsAnyhow(c) ==
  /\ pc[c] = "delayed" /\ (timer = 0 \/ ctxDone[c])
  /\ pc' = [pc EXCEPT ![c] = "sending"]
  /\ timer' = 0
  /\ UNCHANGED <<op, ctxDone, token, lastSend, sinceWrite>>

\* clock.Wait ends with its timer, or with the context: then nothing is sent.
DelayEnds(c) ==
  /\ pc[c] = "delayed"
  /\ \/ timer = 0 /\ pc' = [pc EXCEPT ![c] = "sending"] /\ UNCHANGED <<op, ctxDone, token, timer>>
     \/ ctxDone[c] /\ Return(c) /\ token' = TRUE /\ timer' = 0
  /\ UNCHANGED <<lastSend, sinceWrite>>

\* send returns a response that ParseResponse accepts; the time is recorded for
\* the local helpers.
SendSucceeds(c) ==
  /\ pc[c] = "sending"
  /\ Return(c)
  /\ token' = TRUE
  /\ lastSend' = IF RecordSend(op[c]) THEN 0 ELSE lastSend
  /\ sinceWrite' = IF op[c] = "write" THEN 0 ELSE sinceWrite
  /\ UNCHANGED timer

\* Faulty variant: the token is given back by hand, after a success only.
SendFailsKeepsToken(c) ==
  /\ pc[c] = "sending"
  /\ Return(c)
  /\ UNCHANGED <<token, lastSend, timer, sinceWrite>>

\* send returns an error, a Modbus exception included, or panics: the token
\* comes back and no time is recorded.
SendFails(c) ==
  /\ pc[c] = "sending"
  /\ Return(c)
  /\ token' = TRUE
  /\ UNCHANGED <<lastSend, timer, sinceWrite>>

Later(t) == IF t < WriteDelay THEN t + 1 ELSE t

Tick ==
  /\ lastSend' = Later(lastSend)
  /\ sinceWrite' = Later(sinceWrite)
  /\ timer' = IF timer > 0 THEN timer - 1 ELSE 0
  /\ UNCHANGED <<pc, op, ctxDone, token>>

Execute(c) == GiveUp(c) \/ TakeToken(c) \/ DelayEnds(c)

Send(c) == SendSucceeds(c) \/ SendFails(c)

Next == Tick \/ \E c \in Callers : Call(c) \/ Cancel(c) \/ Execute(c) \/ Send(c)

Spec == Init /\ [][Next]_vars

(* Clocks advance, goroutines are scheduled, and a channel serves the       *)
(* goroutines that wait for the token in their order, so none is passed     *)
(* over for ever.  Nothing is assumed of the transport.                     *)
FairSpec ==
  /\ Spec
  /\ WF_vars(Tick)
  /\ \A c \in Callers :
       WF_vars(GiveUp(c)) /\ WF_vars(DelayEnds(c)) /\ SF_vars(TakeToken(c))

-----------------------------------------------------------------------------
(* Properties.                                                             *)

\* Calls of any goroutines never overlap in the transport.
NeverOverlap == Cardinality({c \in Callers : pc[c] = "sending"}) <= 1

Sends(c) == pc[c] # "sending" /\ pc'[c] = "sending"

\* The inverter's memory is spared: a local write begins no sooner than
\* WriteDelay after the last one that succeeded, whatever reads, raw requests,
\* failed, cancelled and concurrent calls come between the two.
WritesSpaced ==
  [][\A c \in Callers : Sends(c) /\ op[c] = "write" => sinceWrite >= WriteDelay]_vars

\* A caller whose context is done is let go, though another call hangs in the
\* transport: it returns or, if it got the token, is in the transport itself.
CancelledLetGo ==
  \A c \in Callers :
    (ctxDone[c] /\ pc[c] \in {"queued", "delayed"}) ~> (pc[c] \in {"idle", "sending"})

\* No call waits for ever unless the transport keeps one for ever.
QueueMoves ==
  (\A c \in Callers : []<>(pc[c] # "sending")) => \A c \in Callers : []<>(pc[c] = "idle")
=============================================================================
