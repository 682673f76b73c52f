--------------------------- MODULE KeepaliveProofs ---------------------------
(***************************************************************************)
(* Proofs about Keepalive and MqttClient for every interval and backoff.   *)
(***************************************************************************)
EXTENDS Keepalive, TLAPS

(***************************************************************************)
(* The inductive invariant.  A token tells where the loop is; a session    *)
(* that is being dialed, or that has no subscription yet, is one the loop  *)
(* is connecting, or one it gave up connecting because it was cancelled.   *)
(***************************************************************************)
TokenPlace ==
  /\ token = "connect" => pc = "connecting" /\ session = "dialing"
  /\ token = "subscribe" => pc = "subscribing"
  /\ token = "publish" => pc = "publishing" /\ subscribed
  /\ token \in {"ok", "failed"} => pc \in {"connecting", "subscribing", "publishing"}
  /\ pc = "connecting" => token \in {"connect", "ok", "failed"}
  /\ pc = "subscribing" => token \in {"subscribe", "ok", "failed"}

GivenUp == pc = "noconnection" /\ stop

SessionPlace ==
  /\ subscribed => session = "up"
  /\ session = "dialing" => token = "connect" \/ GivenUp
  /\ session = "up" /\ ~subscribed =>
       \/ pc = "connecting" /\ token = "ok"
       \/ pc = "subscribing" /\ token \in {"subscribe", "failed"}
       \/ GivenUp
  /\ pc = "returned" => session = "none"
  /\ pc = "dial" => session = "none"
  /\ pc \in {"connecting", "noconnection"} => ~subscribed
  /\ pc = "subscribing" /\ token # "ok" => ~subscribed

(***************************************************************************)
(* The time since the last dial, with what is left of a wait, makes up the *)
(* distance that two dials keep.                                           *)
(***************************************************************************)
DialPaced ==
  /\ elapsed <= sinceDial
  /\ pc = "waiting" => timer + sinceDial >= Shorter
  /\ pc = "head" => stop \/ sinceDial >= Shorter

IInv == TypeOK /\ TokenPlace /\ SessionPlace /\ DialPaced

-----------------------------------------------------------------------------
\* The two bounds of the clocks.
LEMMA Bounds ==
  /\ Horizon \in Nat /\ Shorter \in Nat
  /\ Shorter <= Interval /\ Shorter <= Backoff
  /\ Interval <= Horizon /\ Backoff <= Horizon
BY KeepaliveAssumption DEF Horizon, Shorter

\* The deferred Disconnect keeps the types.
LEMMA ReturnTypes == TypeOK /\ Return => TypeOK'
<1> SUFFICES ASSUME TypeOK, Return
             PROVE  TypeOK'
  OBVIOUS
<1>1. ClientTypeOK'
  BY DEF TypeOK, Return, Disconnect, ClientTypeOK, Pending
<1>2. timer' = timer /\ elapsed' = elapsed /\ sinceDial' = sinceDial
  BY DEF Return, clockVars
<1>3. stop' \in BOOLEAN /\ pc' = "returned"
  BY DEF Return, TypeOK
<1> QED
  BY <1>1, <1>2, <1>3 DEF TypeOK

\* Every step keeps the types.
LEMMA TypeStep == TypeOK /\ [Next]_vars => TypeOK'
<1> SUFFICES ASSUME TypeOK, [Next]_vars
             PROVE  TypeOK'
  OBVIOUS
<1> USE Bounds, KeepaliveAssumption DEF TypeOK, ClientTypeOK, Pending
<1>1. CASE Cancel
  BY <1>1 DEF Cancel, clockVars, clientVars
<1>2. CASE WorkerDisconnects
  BY <1>2 DEF WorkerDisconnects, Disconnect, clockVars, clientVars
<1>3. CASE LoopHead
  BY <1>3, ReturnTypes DEF LoopHead, clockVars, clientVars
<1>4. CASE StartConnect
  BY <1>4 DEF StartConnect, Dial, clockVars, clientVars
<1>5. CASE Connecting
  BY <1>5 DEF Connecting, WaitToken, Request, clockVars, clientVars
<1>6. CASE Subscribing
  BY <1>6 DEF Subscribing, WaitToken, SubscribeFails, clockVars, clientVars
<1>7. CASE NoConnection
  BY <1>7, ReturnTypes DEF NoConnection, clockVars, clientVars
<1>8. CASE Heartbeat
  BY <1>8 DEF Heartbeat, Request, clockVars, clientVars
<1>9. CASE Publishing
  BY <1>9 DEF Publishing, WaitToken, clockVars, clientVars
<1>10. CASE Rest
  BY <1>10, ReturnTypes DEF Rest, clockVars, clientVars
<1>11. CASE WaitEnds
  BY <1>11 DEF WaitEnds, clockVars, clientVars
<1>12. CASE Outside(Broker)
  BY <1>12 DEF Outside, Broker, ConnAck, ConnRefused, SubAck, SubRefused, PubAck, ConnectionLost, Disconnect, clockVars, clientVars
<1>13. CASE Tick
  BY <1>13 DEF Tick, Later, clockVars, clientVars
<1>14. CASE UNCHANGED vars
  BY <1>14 DEF vars, clockVars, clientVars
<1> QED
  BY <1>1, <1>2, <1>3, <1>4, <1>5, <1>6, <1>7, <1>8, <1>9, <1>10, <1>11, <1>12, <1>13, <1>14 DEF Next, Run, Returned

\* Every step keeps token and session where the loop can account for them.
LEMMA PlaceStep ==
  TypeOK /\ TokenPlace /\ SessionPlace /\ [Next]_vars => TokenPlace' /\ SessionPlace'
<1> SUFFICES ASSUME TypeOK, TokenPlace, SessionPlace, [Next]_vars
             PROVE  TokenPlace' /\ SessionPlace'
  OBVIOUS
<1> USE DEF TypeOK, ClientTypeOK, Pending, TokenPlace, SessionPlace, GivenUp
<1>1. CASE Cancel
  BY <1>1 DEF Cancel, clockVars, clientVars
<1>2. CASE WorkerDisconnects
  BY <1>2 DEF WorkerDisconnects, Disconnect, clockVars, clientVars
<1>3. CASE LoopHead
  BY <1>3 DEF LoopHead, Return, Disconnect, clockVars, clientVars
<1>4. CASE StartConnect
  BY <1>4 DEF StartConnect, Dial, clockVars, clientVars
<1>5. CASE Connecting
  BY <1>5 DEF Connecting, WaitToken, Request, clockVars, clientVars
<1>6. CASE Subscribing
  BY <1>6 DEF Subscribing, WaitToken, SubscribeFails, clockVars, clientVars
<1>7. CASE NoConnection
  BY <1>7 DEF NoConnection, Return, Disconnect, clockVars, clientVars
<1>8. CASE Heartbeat
  BY <1>8 DEF Heartbeat, Request, clockVars, clientVars
<1>9. CASE Publishing
  BY <1>9 DEF Publishing, WaitToken, clockVars, clientVars
<1>10. CASE Rest
  BY <1>10 DEF Rest, Return, Disconnect, clockVars, clientVars
<1>11. CASE WaitEnds
  BY <1>11 DEF WaitEnds, clockVars, clientVars
<1>12. CASE Outside(Broker)
  BY <1>12 DEF Outside, Broker, ConnAck, ConnRefused, SubAck, SubRefused, PubAck, ConnectionLost, Disconnect, clockVars, clientVars
<1>13. CASE Tick
  BY <1>13 DEF Tick, Later, clockVars, clientVars
<1>14. CASE UNCHANGED vars
  BY <1>14 DEF vars, clockVars, clientVars
<1> QED
  BY <1>1, <1>2, <1>3, <1>4, <1>5, <1>6, <1>7, <1>8, <1>9, <1>10, <1>11, <1>12, <1>13, <1>14 DEF Next, Run, Returned

\* Every step keeps the distance between dials.
LEMMA PaceStep == TypeOK /\ DialPaced /\ [Next]_vars => DialPaced'
<1> SUFFICES ASSUME TypeOK, DialPaced, [Next]_vars
             PROVE  DialPaced'
  OBVIOUS
<1> USE Bounds, KeepaliveAssumption DEF TypeOK, DialPaced
<1>1. CASE Cancel
  BY <1>1 DEF Cancel, clockVars, clientVars
<1>2. CASE WorkerDisconnects
  BY <1>2 DEF WorkerDisconnects, Disconnect, clockVars, clientVars
<1>3. CASE LoopHead
  BY <1>3 DEF LoopHead, Return, Disconnect, clockVars, clientVars
<1>4. CASE StartConnect
  BY <1>4 DEF StartConnect, Dial, clockVars, clientVars
<1>5. CASE Connecting
  BY <1>5 DEF Connecting, WaitToken, Request, clockVars, clientVars
<1>6. CASE Subscribing
  BY <1>6 DEF Subscribing, WaitToken, SubscribeFails, clockVars, clientVars
<1>7. CASE NoConnection
  BY <1>7 DEF NoConnection, Return, Disconnect, clockVars, clientVars
<1>8. CASE Heartbeat
  BY <1>8 DEF Heartbeat, Request, clockVars, clientVars
<1>9. CASE Publishing
  BY <1>9 DEF Publishing, WaitToken, clockVars, clientVars
<1>10. CASE Rest
  BY <1>10 DEF Rest, Return, Disconnect, clockVars, clientVars
<1>11. CASE WaitEnds
  BY <1>11 DEF WaitEnds, clockVars, clientVars
<1>12. CASE Outside(Broker)
  BY <1>12 DEF Outside, Broker, ConnAck, ConnRefused, SubAck, SubRefused, PubAck, ConnectionLost, Disconnect, clockVars, clientVars
<1>13. CASE Tick
  BY <1>13 DEF Tick, Later, clockVars, clientVars
<1>14. CASE UNCHANGED vars
  BY <1>14 DEF vars, clockVars, clientVars
<1> QED
  BY <1>1, <1>2, <1>3, <1>4, <1>5, <1>6, <1>7, <1>8, <1>9, <1>10, <1>11, <1>12, <1>13, <1>14 DEF Next, Run, Returned

\* The inductive invariant.
LEMMA Invariance == Spec => []IInv
<1>1. Init => IInv
  <2> SUFFICES ASSUME Init
               PROVE  IInv
    OBVIOUS
  <2>1. TypeOK
    <3>1. ClientTypeOK
      BY DEF Init, ClientInit, ClientTypeOK
    <3>2. timer \in 0..Horizon /\ elapsed \in 0..Horizon /\ sinceDial \in 0..Horizon
      BY Bounds DEF Init
    <3> QED
      BY <3>1, <3>2 DEF Init, TypeOK
  <2>2. TokenPlace /\ SessionPlace
    BY DEF Init, ClientInit, TokenPlace, SessionPlace
  <2>3. DialPaced
    BY Bounds, KeepaliveAssumption DEF Init, DialPaced
  <2> QED
    BY <2>1, <2>2, <2>3 DEF IInv
<1>2. IInv /\ [Next]_vars => IInv'
  BY TypeStep, PlaceStep, PaceStep DEF IInv
<1> QED
  BY <1>1, <1>2, PTL DEF Spec

\* A heartbeat is under way only in a session in which the broker sends the
\* plant's requests: a session without a subscription does not outlive Connect.
THEOREM BeatsSubscribed == Spec => []SubscribedWhileBeating
<1>1. IInv => SubscribedWhileBeating
  BY DEF IInv, TokenPlace, SubscribedWhileBeating
<1> QED
  BY <1>1, Invariance, PTL

\* For every interval and backoff, two passes that connect begin at least the
\* shorter of the two apart.
THEOREM DialsSpaced == Spec => NoDialStorm
<1>1. IInv /\ [Next]_vars => [pc = "head" /\ pc' = "dial" => sinceDial >= Shorter]_vars
  <2> SUFFICES ASSUME IInv, Next, pc = "head", pc' = "dial"
               PROVE  sinceDial >= Shorter
    OBVIOUS
  <2>1. LoopHead
    BY DEF Next, Cancel, WorkerDisconnects, Run, StartConnect, Connecting, Subscribing,
           NoConnection, Heartbeat, Publishing, Rest, WaitEnds, Outside, Tick, Returned, vars
  <2>2. ~stop
    BY <2>1 DEF LoopHead, Return
  <2> QED
    BY <2>2 DEF IInv, DialPaced
<1> QED
  BY <1>1, Invariance, PTL DEF Spec, NoDialStorm
-----------------------------------------------------------------------------
\* Where the loop leaves a dial, by its end or its failure, the keeper has dialed;
\* everything else it does is a dial, an exit, a lost session or nothing.
LEMMA KeeperStepTaken ==
  IInv /\ [Next]_vars => [Keeper!KeeperStep(stop)]_(Keeper!keeperVars)
<1> SUFFICES ASSUME IInv, [Next]_vars
             PROVE  Keeper!KeeperStep(stop) \/ UNCHANGED Keeper!keeperVars
  OBVIOUS
<1> USE DEF IInv, TypeOK, ClientTypeOK, Pending, TokenPlace, SessionPlace, GivenUp,
            Keeper!KeeperStep, Keeper!keeperVars, Keeper!KeeperDials, Keeper!KeeperDialed,
            Keeper!KeeperExits, Keeper!SessionDropped
<1>1. CASE Cancel
  BY <1>1 DEF Cancel, clockVars, clientVars
<1>2. CASE WorkerDisconnects
  BY <1>2 DEF WorkerDisconnects, Disconnect, clockVars, clientVars
<1>3. CASE LoopHead
  BY <1>3 DEF LoopHead, Return, Disconnect, clockVars, clientVars
<1>4. CASE StartConnect
  BY <1>4 DEF StartConnect, Dial, clockVars, clientVars
<1>5. CASE Connecting
  BY <1>5 DEF Connecting, WaitToken, Request, clockVars, clientVars
<1>6. CASE Subscribing
  BY <1>6 DEF Subscribing, WaitToken, SubscribeFails, clockVars, clientVars
<1>7. CASE NoConnection
  BY <1>7 DEF NoConnection, Return, Disconnect, clockVars, clientVars
<1>8. CASE Heartbeat
  BY <1>8 DEF Heartbeat, Request, clockVars, clientVars
<1>9. CASE Publishing
  BY <1>9 DEF Publishing, WaitToken, clockVars, clientVars
<1>10. CASE Rest
  BY <1>10 DEF Rest, Return, Disconnect, clockVars, clientVars
<1>11. CASE WaitEnds
  BY <1>11 DEF WaitEnds, clockVars, clientVars
<1>12. CASE Outside(Broker)
  BY <1>12 DEF Outside, Broker, ConnAck, ConnRefused, SubAck, SubRefused, PubAck, ConnectionLost, Disconnect, clockVars, clientVars
<1>13. CASE Tick
  BY <1>13 DEF Tick, clockVars, clientVars
<1>14. CASE UNCHANGED vars
  BY <1>14 DEF vars, clockVars, clientVars
<1> QED
  BY <1>1, <1>2, <1>3, <1>4, <1>5, <1>6, <1>7, <1>8, <1>9, <1>10, <1>11, <1>12, <1>13, <1>14
     DEF Next, Run, Returned

\* The keepalive loop over its MQTT client implements the contract on which the
\* plant worker is built, for every interval and backoff.
THEOREM LoopKeepsSession == Spec => ImplementsKeeper
<1>1. Init => Keeper!KeeperStart
  BY DEF Init, ClientInit, Keeper!KeeperStart
<1> QED
  BY <1>1, KeeperStepTaken, Invariance, PTL DEF Spec, ImplementsKeeper
=============================================================================
