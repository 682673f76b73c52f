------------------------------ MODULE Keepalive ------------------------------
(***************************************************************************)
(* KeepaliveLoop.Run: the loop that keeps one plant's MQTT session up.  A  *)
(* pass of the loop connects if there is no session, publishes an empty    *)
(* heartbeat and waits for the rest of the interval; a failed connect is   *)
(* followed by the reconnect backoff.  Connecting, publishing and waiting  *)
(* take any time, the broker may end the session at any time, and the      *)
(* plant worker may cancel the context and disconnect the client at any    *)
(* time.  Clocks count ticks and stop at the largest value that matters.   *)
(***************************************************************************)
EXTENDS Naturals, MqttClient

CONSTANTS
  Interval,  \* KeepaliveInterval
  Backoff    \* reconnectBackoff(): production or debug

ASSUME KeepaliveAssumption == Interval \in Nat \ {0} /\ Backoff \in Nat \ {0}

VARIABLES
  pc,        \* where Run is
  stop,      \* ctx is cancelled
  timer,     \* ticks left of the wait Run is in
  elapsed,   \* ticks since cycleStart
  sinceDial  \* history: ticks since the last pass that connected began

clockVars == <<timer, elapsed, sinceDial>>

vars == <<pc, stop, clockVars, clientVars>>

Horizon == IF Backoff > Interval THEN Backoff ELSE Interval
Shorter == IF Backoff < Interval THEN Backoff ELSE Interval

TypeOK ==
  /\ ClientTypeOK
  /\ pc \in {"head", "dial", "connecting", "subscribing", "noconnection", "beat",
             "publishing", "rest", "waiting", "returned"}
  /\ stop \in BOOLEAN
  /\ timer \in 0..Horizon /\ elapsed \in 0..Horizon /\ sinceDial \in 0..Horizon

Init ==
  /\ ClientInit
  /\ pc = "head"
  /\ stop = FALSE
  /\ timer = 0 /\ elapsed = 0
  /\ sinceDial = Horizon

-----------------------------------------------------------------------------
Cancel ==
  /\ ~stop
  /\ stop' = TRUE
  /\ UNCHANGED <<pc, clockVars, clientVars>>

\* The plant worker disconnects the client once it has cancelled the context.
WorkerDisconnects ==
  /\ stop /\ pc # "returned"
  /\ Disconnect
  /\ UNCHANGED <<pc, stop, clockVars>>

\* Faulty variant: Disconnect is not deferred.
ReturnKeepsSession ==
  /\ stop
  /\ pc' = "returned"
  /\ UNCHANGED <<stop, clockVars, clientVars>>

\* Run returns; the deferred Disconnect ends the session.
Return ==
  /\ stop
  /\ pc' = "returned"
  /\ Disconnect
  /\ UNCHANGED <<stop, clockVars>>

\* The head of the loop: the context, cycleStart, and whether to connect.
LoopHead ==
  /\ pc = "head"
  /\ \/ Return
     \/ /\ ~stop
        /\ elapsed' = 0
        /\ \/ session = "up" /\ pc' = "beat" /\ UNCHANGED sinceDial
           \/ session # "up" /\ pc' = "dial" /\ sinceDial' = 0
        /\ UNCHANGED <<stop, timer, clientVars>>

StartConnect ==
  /\ pc = "dial"
  /\ Dial
  /\ pc' = "connecting"
  /\ UNCHANGED <<stop, clockVars>>

\* The connect of the library ends: subscribeCurrent, or the error.
Connecting ==
  /\ pc = "connecting"
  /\ \/ WaitToken(stop, "ok") /\ Request("subscribe") /\ pc' = "subscribing"
     \/ WaitToken(stop, "failed") /\ token' = "none" /\ pc' = "noconnection"
        /\ UNCHANGED <<session, subscribed>>
  /\ UNCHANGED <<stop, clockVars>>

\* The subscription ends.  A session that was lost since then counts as a
\* failed connect.
Subscribing ==
  /\ pc = "subscribing"
  /\ \/ /\ WaitToken(stop, "ok") /\ token' = "none"
        /\ pc' = IF session = "up" THEN "beat" ELSE "noconnection"
        /\ UNCHANGED <<session, subscribed>>
     \/ WaitToken(stop, "failed") /\ SubscribeFails /\ pc' = "noconnection"
  /\ UNCHANGED <<stop, clockVars>>

\* Faulty variant: a failed connect is tried again at once.
NoConnectionNoBackoff ==
  /\ pc = "noconnection"
  /\ \/ Return
     \/ ~stop /\ pc' = "head" /\ UNCHANGED <<stop, clockVars, clientVars>>

\* Connect failed: Run returns if it was cancelled, else the backoff starts.
\* (Without an error the wait itself ends at once when it was cancelled.)
NoConnection ==
  /\ pc = "noconnection"
  /\ \/ Return
     \/ ~stop /\ pc' = "waiting" /\ timer' = Backoff
        /\ UNCHANGED <<stop, elapsed, sinceDial, clientVars>>

\* Faulty variant: a heartbeat without a session ends the loop.
HeartbeatFatal ==
  /\ pc = "beat"
  /\ \/ session = "up" /\ Request("publish") /\ pc' = "publishing"
     \/ session # "up" /\ pc' = "returned" /\ UNCHANGED clientVars
  /\ UNCHANGED <<stop, clockVars>>

\* PublishContext of the heartbeat; without a session it fails at once.
Heartbeat ==
  /\ pc = "beat"
  /\ \/ session = "up" /\ Request("publish") /\ pc' = "publishing"
     \/ session # "up" /\ pc' = "rest" /\ UNCHANGED clientVars
  /\ UNCHANGED <<stop, clockVars>>

\* The heartbeat is acknowledged or fails; a failure is only logged.
Publishing ==
  /\ pc = "publishing"
  /\ \E result \in {"ok", "failed"} : WaitToken(stop, result)
  /\ token' = "none"
  /\ pc' = "rest"
  /\ UNCHANGED <<stop, clockVars, session, subscribed>>

\* After the heartbeat: return, wait for the rest of the interval, or go on at
\* once if the pass took longer than that.
Rest ==
  /\ pc = "rest"
  /\ \/ Return
     \/ /\ ~stop
        /\ \/ elapsed < Interval /\ pc' = "waiting" /\ timer' = Interval - elapsed
           \/ elapsed >= Interval /\ pc' = "head" /\ UNCHANGED timer
        /\ UNCHANGED <<stop, elapsed, sinceDial, clientVars>>

\* clock.Wait ends with its timer or the cancellation.
WaitEnds ==
  /\ pc = "waiting" /\ (timer = 0 \/ stop)
  /\ pc' = "head" /\ timer' = 0
  /\ UNCHANGED <<stop, elapsed, sinceDial, clientVars>>

Later(t) == IF t < Horizon THEN t + 1 ELSE t

Tick ==
  /\ pc # "returned"
  /\ timer' = IF timer > 0 THEN timer - 1 ELSE 0
  /\ elapsed' = Later(elapsed)
  /\ sinceDial' = Later(sinceDial)
  /\ UNCHANGED <<pc, stop, clientVars>>

Run ==
  \/ LoopHead \/ StartConnect \/ Connecting \/ Subscribing \/ NoConnection
  \/ Heartbeat \/ Publishing \/ Rest \/ WaitEnds

\* What the broker and the network do leaves the loop where it is.
Outside(event) == event /\ UNCHANGED <<pc, stop, clockVars>>

Returned == pc = "returned" /\ UNCHANGED vars

Next == Cancel \/ WorkerDisconnects \/ Run \/ Outside(Broker) \/ Tick \/ Returned

Spec == Init /\ [][Next]_vars

(* The goroutine is scheduled, clocks advance, an operation of the library   *)
(* ends (it fails all of them when the connection breaks), and a broker that *)
(* is asked again and again accepts a connection and a subscription in the   *)
(* end.  Nothing is assumed of lost sessions.                                *)
FairSpec ==
  /\ Spec
  /\ WF_vars(Tick) /\ WF_vars(Run)
  /\ WF_vars(Outside(ConnAck \/ ConnRefused)) /\ SF_vars(Outside(ConnAck))
  /\ WF_vars(Outside(SubAck \/ SubRefused)) /\ SF_vars(Outside(SubAck))
  /\ WF_vars(Outside(PubAck))

-----------------------------------------------------------------------------
(* Properties.                                                             *)

\* The broker is never hammered: two passes that connect begin at least an
\* interval or a backoff apart, whatever mixture of refused connects, refused
\* subscriptions and lost sessions happens.
NoDialStorm == [][pc = "head" /\ pc' = "dial" => sinceDial >= Shorter]_vars

\* A plant that shows itself alive can be reached: while a heartbeat is under way
\* in a session, the broker sends that session the plant's requests.
SubscribedWhileBeating == token = "publish" => subscribed

\* A plant is never given up: unless it is stopped or its sessions are lost again
\* and again, heartbeats go on being acknowledged.
KeepsBeating ==
  \/ []<><<Outside(PubAck)>>_vars
  \/ []<><<Outside(ConnectionLost)>>_vars
  \/ <>stop

\* Run returns after a cancellation, whatever it was waiting for, and leaves no
\* session behind, although the worker disconnects the client meanwhile.
StopReturns == stop ~> [](pc = "returned" /\ session = "none")

Keeper ==
  INSTANCE SessionKeeper WITH
    life <- CASE pc = "returned" -> "exited"
              [] pc \in {"dial", "connecting"} \/ (pc = "subscribing" /\ token # "ok") -> "connecting"
              [] OTHER -> "loop",
    connected <- session = "up" /\ subscribed

\* The loop over its client is the lifecycle goroutine on which the plant worker
\* is built: it dials, comes up, loses its session and ends only as SessionKeeper
\* says, whatever the broker answers and whenever the worker disconnects.
ImplementsKeeper ==
  Keeper!KeeperStart /\ [][Keeper!KeeperStep(stop)]_(Keeper!keeperVars)
=============================================================================
