------------------------------- MODULE TcpLink -------------------------------
(***************************************************************************)
(* What the transports have in common: the calls of one driver             *)
(* (the Modbus lines of one cloud request, in order, up to the first       *)
(* failure), the connection, the retry loop of internalSendLocked and the  *)
(* device at the other end.  The device answers on the connection the      *)
(* request came by; it may drop or spoil an answer, repeat an earlier one, *)
(* send frames of its own, and execute a request whose connection is gone. *)
(* Every read or write may fail, and every wait may end, at any time.      *)
(***************************************************************************)
EXTENDS Naturals, Sequences, FiniteSets

CONSTANTS
  MaxCalls,     \* bound: Modbus lines in a request
  MaxAttempts,  \* connectionAttempts
  Tags,         \* number of sequence numbers (transaction ids)
  MaxStrays     \* bound: repeated and unsolicited frames

ASSUME LinkAssumption ==
  /\ MaxCalls \in Nat
  /\ MaxAttempts \in Nat \ {0}
  /\ Tags \in Nat /\ Tags > 1
  /\ MaxStrays \in Nat

VARIABLES
  conn,        \* the transport has a connection
  inbox,       \* frames of this connection not yet read
  sent,        \* answers the device has sent on this connection
  todo,        \* requests the device has not yet executed
  pc,          \* where the transport is
  call,        \* number of the current call
  attempt,     \* connection attempt of the current call
  tag,         \* the sequence generator's last value
  ctxDone,     \* the request's context is cancelled
  failed,      \* Connect or a call returned an error
  answer,      \* the call that the frame each call returned is an answer to
  lateWrites,  \* frames the current call wrote after the cancellation
  strays       \* repeated and unsolicited frames so far

callVars == <<call, attempt, tag>>
history == <<answer, lateWrites, strays>>
linkVars == <<conn, inbox, sent, todo, pc, callVars, ctxDone, failed, history>>

Calls == 1..MaxCalls
Frames == [call : 0..MaxCalls, tag : 0..(Tags - 1), good : BOOLEAN]
Orders == [call : Calls, tag : 0..(Tags - 1), live : BOOLEAN]
PCs == {"new", "idle", "dial", "redial", "write", "read", "wait", "closed"}

LinkTypeOK ==
  /\ conn \in BOOLEAN /\ ctxDone \in BOOLEAN /\ failed \in BOOLEAN
  /\ inbox \in Seq(Frames) /\ sent \subseteq Frames
  /\ todo \in Seq(Orders)
  /\ pc \in PCs
  /\ call \in 0..MaxCalls
  /\ attempt \in 0..MaxAttempts
  /\ tag \in 0..(Tags - 1)
  /\ answer \in [Calls -> 0..MaxCalls]
  /\ lateWrites \in Nat
  /\ strays \in 0..MaxStrays

\* The generator's first value is random and not zero.
LinkInit ==
  /\ conn = FALSE /\ inbox = <<>> /\ sent = {} /\ todo = <<>>
  /\ pc = "new"
  /\ call = 0 /\ attempt = 0 /\ tag \in 0..(Tags - 2)
  /\ ctxDone = FALSE /\ failed = FALSE
  /\ answer = [c \in Calls |-> 0]
  /\ lateWrites = 0 /\ strays = 0

-----------------------------------------------------------------------------
(* The caller.                                                             *)

Cancel ==
  /\ ~ctxDone /\ pc # "closed"
  /\ ctxDone' = TRUE
  /\ UNCHANGED <<conn, inbox, sent, todo, pc, callVars, failed, history>>

\* connectLocked succeeds: there is a connection, or a new one is dialed,
\* which a done context prevents.
ConnectLocked ==
  \/ conn /\ UNCHANGED <<conn, inbox, sent>>
  \/ ~conn /\ ~ctxDone /\ conn' = TRUE /\ inbox' = <<>> /\ sent' = {}

\* driver.Connect.
Connect ==
  /\ pc = "new"
  /\ pc' = "idle"
  /\ \/ ConnectLocked /\ UNCHANGED failed
     \/ failed' = TRUE /\ UNCHANGED <<conn, inbox, sent>>
  /\ UNCHANGED <<todo, callVars, ctxDone, history>>

\* Faulty variant: the batch goes on after a failed line.
SendRTUAfterFailure ==
  /\ pc = "idle" /\ ~ctxDone /\ call < MaxCalls
  /\ pc' = "dial"
  /\ call' = call + 1
  /\ lateWrites' = 0
  /\ UNCHANGED <<conn, inbox, sent, todo, attempt, tag, ctxDone, failed, answer,
                 strays>>

\* The next line: the batch stops at a failed one, and the executor does not
\* start a call whose context is done.
SendRTU ==
  /\ pc = "idle" /\ ~failed /\ ~ctxDone /\ call < MaxCalls
  /\ pc' = "dial"
  /\ call' = call + 1
  /\ lateWrites' = 0
  /\ UNCHANGED <<conn, inbox, sent, todo, attempt, tag, ctxDone, failed, answer,
                 strays>>

\* The deferred driver.Close after the last line or the first failure.
CloseDriver ==
  /\ pc = "idle" /\ (failed \/ ctxDone \/ call = MaxCalls)
  /\ pc' = "closed"
  /\ conn' = FALSE /\ inbox' = <<>> /\ sent' = {}
  /\ todo' = [i \in DOMAIN todo |-> [todo[i] EXCEPT !.live = FALSE]]
  /\ UNCHANGED <<callVars, ctxDone, failed, history>>

-----------------------------------------------------------------------------
(* SendRTU and internalSendLocked.                                         *)

Fails == pc' = "idle" /\ failed' = TRUE

\* connectLocked at the head of SendRTU, where a failure is not retried, and
\* the next sequence number.
Dial ==
  /\ pc = "dial"
  /\ \/ /\ ConnectLocked
        /\ pc' = "write" /\ attempt' = 1
        /\ tag' = (tag + 1) % Tags
        /\ UNCHANGED failed
     \/ /\ ~conn /\ Fails
        /\ UNCHANGED <<conn, inbox, sent, attempt, tag>>
  /\ UNCHANGED <<todo, call, ctxDone, history>>

\* Faulty variant: the failed connection is used for the next attempt.
AttemptFailsKeepsConnection ==
  /\ \/ (ctxDone \/ attempt = MaxAttempts) /\ Fails
     \/ /\ ~ctxDone /\ attempt < MaxAttempts
        /\ pc' = "wait" /\ UNCHANGED failed
  /\ UNCHANGED <<conn, inbox, sent, todo, callVars, ctxDone, history>>

\* An attempt failed.  A cancelled call and the last attempt return the error
\* and leave the connection as it is; otherwise it is closed for a retry.
AttemptFails ==
  /\ \/ /\ ctxDone \/ attempt = MaxAttempts
        /\ Fails
        /\ UNCHANGED <<conn, inbox, sent, todo>>
     \/ /\ ~ctxDone /\ attempt < MaxAttempts
        /\ pc' = "wait"
        /\ conn' = FALSE /\ inbox' = <<>> /\ sent' = {}
        /\ todo' = [i \in DOMAIN todo |-> [todo[i] EXCEPT !.live = FALSE]]
        /\ UNCHANGED failed
  /\ UNCHANGED <<callVars, ctxDone, history>>

\* Faulty variant: the attempts are not counted.
RetryUncounted ==
  /\ pc = "wait"
  /\ \/ pc' = "redial" /\ UNCHANGED failed
     \/ ctxDone /\ Fails
  /\ UNCHANGED <<conn, inbox, sent, todo, callVars, ctxDone, history>>

\* waitContext(retryDelay): the timer (even when the context is done as well)
\* or the cancellation.
Retry ==
  /\ pc = "wait"
  /\ \/ pc' = "redial" /\ attempt' = attempt + 1 /\ UNCHANGED failed
     \/ ctxDone /\ Fails /\ UNCHANGED attempt
  /\ UNCHANGED <<conn, inbox, sent, todo, call, tag, ctxDone, history>>

Redial ==
  /\ pc = "redial"
  /\ \/ /\ ConnectLocked
        /\ pc' = "write"
        /\ UNCHANGED <<todo, callVars, ctxDone, failed, history>>
     \/ ~conn /\ AttemptFails

\* writeFrameLocked succeeds.
WriteFrame ==
  /\ pc = "write"
  /\ pc' = "read"
  /\ todo' = Append(todo, [call |-> call, tag |-> tag, live |-> TRUE])
  /\ lateWrites' = lateWrites + (IF ctxDone THEN 1 ELSE 0)
  /\ UNCHANGED <<conn, inbox, sent, callVars, ctxDone, failed, answer, strays>>

\* A write error or timeout, or a read error, timeout or end of stream.
IOFails == pc \in {"write", "read"} /\ AttemptFails

\* The frame f was read: SendRTU returns it, or the error it was rejected with.
\* Either way the connection stays.
Finish(f, accepted) ==
  /\ pc' = "idle"
  /\ failed' = (failed \/ ~accepted)
  /\ answer' = [answer EXCEPT ![call] = IF accepted THEN f.call ELSE 0]
  /\ inbox' = Tail(inbox)
  /\ UNCHANGED <<conn, sent, todo, callVars, ctxDone, lateWrites, strays>>

Caller == Connect \/ SendRTU \/ CloseDriver
Attempts == Dial \/ Redial \/ Retry \/ WriteFrame \/ IOFails

-----------------------------------------------------------------------------
(* The device, gateway or dongle.                                          *)

\* The device executes a request and answers it, well or badly, or not at all.
DeviceExecutes ==
  /\ todo # <<>>
  /\ todo' = Tail(todo)
  /\ \/ UNCHANGED <<inbox, sent>>
     \/ /\ conn /\ Head(todo).live
        /\ \E g \in BOOLEAN :
             LET f == [call |-> Head(todo).call, tag |-> Head(todo).tag, good |-> g]
             IN  inbox' = Append(inbox, f) /\ sent' = sent \cup {f}
  /\ UNCHANGED <<conn, pc, callVars, ctxDone, failed, answer, lateWrites, strays>>

\* A frame nobody asked for: an earlier answer again, or one of the device's own
\* that is not a valid answer.
DeviceBabbles ==
  /\ conn /\ strays < MaxStrays
  /\ strays' = strays + 1
  /\ \E f \in sent \cup {[call |-> 0, tag |-> t, good |-> FALSE] : t \in 0..(Tags - 1)} :
       inbox' = Append(inbox, f)
  /\ UNCHANGED <<conn, sent, todo, pc, callVars, ctxDone, failed, answer, lateWrites>>

Device == DeviceExecutes \/ DeviceBabbles

Closed == pc = "closed" /\ todo = <<>> /\ UNCHANGED linkVars

-----------------------------------------------------------------------------
(* What the properties of the transports are made of.                      *)

\* Every frame returned to a caller answers the request of that very call.
Matched == \A c \in Calls : answer[c] \in {0, c}

\* It does, or it answers a call that drew the same number a full round before.
MatchedByTag == \A c \in Calls : answer[c] \in {0, c} \/ answer[c] + Tags <= c

\* Answers that this connection still owes or has not handed out.
Backlog == Len(inbox) + Cardinality({i \in DOMAIN todo : todo[i].live})
=============================================================================
