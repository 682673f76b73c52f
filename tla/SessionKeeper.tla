---------------------------- MODULE SessionKeeper ----------------------------
(***************************************************************************)
(* What the plant worker may rely on of the goroutine that keeps its MQTT  *)
(* session: it dials only while its context is alive and there is no       *)
(* session, a session comes up only as the end of a dial, the goroutine    *)
(* ends only when its context is done, and it ends without a session.      *)
(* PlantWorker is built on these steps, and Keepalive implements them.     *)
(***************************************************************************)

VARIABLES
  life,      \* the goroutine: none, loop, connecting or exited
  connected  \* the client has a session in which requests arrive

keeperVars == <<life, connected>>

KeeperStart == life = "loop" /\ connected = FALSE

\* The loop finds no session and calls client.Connect.
KeeperDials(ctxDone) ==
  /\ life = "loop" /\ ~connected /\ ~ctxDone
  /\ life' = "connecting"
  /\ UNCHANGED connected

\* Connect and the subscription complete, or fail; completion is preferred
\* over a cancellation that happened meanwhile.
KeeperDialed ==
  /\ life = "connecting"
  /\ life' = "loop"
  /\ connected' \in BOOLEAN

\* Run notices the cancelled context; its deferred Disconnect ends the session.
KeeperExits(ctxDone) ==
  /\ life \in {"loop", "connecting"} /\ ctxDone
  /\ life' = "exited"
  /\ connected' = FALSE

\* The broker, the network or the worker ends the session.
SessionDropped == connected /\ connected' = FALSE /\ UNCHANGED life

KeeperStep(ctxDone) ==
  KeeperDials(ctxDone) \/ KeeperDialed \/ KeeperExits(ctxDone) \/ SessionDropped
=============================================================================
