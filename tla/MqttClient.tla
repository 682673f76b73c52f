----------------------------- MODULE MqttClient ------------------------------
(***************************************************************************)
(* The MQTT client of one plant: Client over the paho library.  Connect    *)
(* dials and then subscribes; each operation of the library returns a      *)
(* token that waitToken awaits together with the context.  Of the broker,  *)
(* the network and the library the model says only what the client can     *)
(* see: a token is fulfilled or fails, and a session may end at any time.  *)
(* A session starts without subscriptions, and the library neither         *)
(* reconnects nor subscribes by itself.                                    *)
(***************************************************************************)

VARIABLES
  session,     \* the library's connection: none, dialing or up
  subscribed,  \* the broker sends this session the plant's requests
  token        \* the operation under way, or its result

clientVars == <<session, subscribed, token>>

Pending == {"connect", "subscribe", "publish"}

ClientTypeOK ==
  /\ session \in {"none", "dialing", "up"}
  /\ subscribed \in BOOLEAN
  /\ token \in Pending \cup {"none", "ok", "failed"}

ClientInit == session = "none" /\ subscribed = FALSE /\ token = "none"

-----------------------------------------------------------------------------
(* Client.                                                                 *)

\* backend.Connect, with which Client.Connect begins.
Dial == session' = "dialing" /\ token' = "connect" /\ UNCHANGED subscribed

\* backend.Subscribe and backend.Publish of a library without a session fail.
Request(what) ==
  /\ token' = IF session = "up" THEN what ELSE "failed"
  /\ UNCHANGED <<session, subscribed>>

\* waitToken ends with the token; with a done context it takes what the token
\* has and gives up an operation that is still under way.
WaitToken(ctxDone, result) ==
  \/ token = result
  \/ result = "failed" /\ ctxDone /\ token \in Pending

\* backend.Disconnect ends the session or the dialing, and the operation.
Disconnect ==
  /\ session' = "none" /\ subscribed' = FALSE
  /\ token' = IF token \in Pending THEN "failed" ELSE token

\* Faulty variant: the session without a subscription is kept.
SubscribeFailsKeepsSession == token' = "none" /\ UNCHANGED <<session, subscribed>>

\* Client.Connect gives up a session it cannot subscribe in.
SubscribeFails == session' = "none" /\ subscribed' = FALSE /\ token' = "none"

-----------------------------------------------------------------------------
(* The library, the network and the broker.                                *)

ConnAck ==
  /\ session = "dialing"
  /\ session' = "up" /\ subscribed' = FALSE
  /\ token' = IF token = "connect" THEN "ok" ELSE token

ConnRefused ==
  /\ session = "dialing"
  /\ session' = "none"
  /\ token' = IF token = "connect" THEN "failed" ELSE token
  /\ UNCHANGED subscribed

SubAck ==
  /\ session = "up" /\ token = "subscribe"
  /\ subscribed' = TRUE /\ token' = "ok"
  /\ UNCHANGED session

\* The subscription fails in a session that stays.
SubRefused ==
  /\ session = "up" /\ token = "subscribe"
  /\ token' = "failed"
  /\ UNCHANGED <<session, subscribed>>

PubAck ==
  /\ session = "up" /\ token = "publish"
  /\ token' = "ok"
  /\ UNCHANGED <<session, subscribed>>

\* The session ends, and with it what was under way.
ConnectionLost == session = "up" /\ Disconnect

Broker == ConnAck \/ ConnRefused \/ SubAck \/ SubRefused \/ PubAck \/ ConnectionLost
=============================================================================
