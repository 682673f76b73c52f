----------------------------- MODULE PlantWorker -----------------------------
(***************************************************************************)
(* One plant worker of the supervisor: the goroutine that runs runPlant    *)
(* and runPlantCycle, the MQTT lifecycle goroutine it starts in every      *)
(* cycle, and the goroutines that the MQTT client starts, one per cloud    *)
(* request.  A cycle owns a fresh client, request gate, request handler    *)
(* (with its serialization token), request context and panic channel;      *)
(* requests of an earlier cycle may still run while a later one serves.    *)
(*                                                                         *)
(* Time is counted in ticks.  A timer fires at its duration or later; the  *)
(* only upper bound on time is CancelLag, the longest a driver transaction *)
(* goes on after its context is cancelled.                                 *)
(***************************************************************************)
EXTENDS Naturals, FiniteSets, SessionKeeper

CONSTANTS
  Requests,       \* cloud requests, each delivered at most once
  ShutdownGrace,  \* Options.ShutdownGrace
  Backoff,        \* reconnect backoff: production or debug
  CancelLag,      \* ticks a cancelled driver transaction may still take
  MaxFaults       \* bound: panics, failed steps and dropped connections

ASSUME ConstantsAssumption ==
  /\ ShutdownGrace \in Nat
  /\ Backoff \in Nat
  /\ CancelLag \in Nat
  /\ MaxFaults \in Nat

VARIABLES
  stop,       \* ctx of runPlant is cancelled
  pc,         \* where the worker goroutine is
  cycle,      \* number of cycles whose setup succeeded
  cycleErr,   \* the last cycle returned an error
  result,     \* what runPlant returned
  timer,      \* ticks left of the wait the worker is in
  cycleDone,  \* cycleCtx of the current cycle is cancelled
  accepting,  \* the current cycle's request gate is open
  cancelled,  \* requestCtx of the current cycle is cancelled
  panicked,   \* the current cycle's panicSignal holds a value
  phase,      \* where each request's goroutine is
  owner,      \* the cycle each request was delivered to
  lag,        \* ticks a cancelled transaction may still take
  outcome,    \* how each request ended
  faults      \* faults so far

workerVars  == <<pc, cycle, cycleErr, result, timer>>
sessionVars == <<life, connected, cycleDone>>
gateVars    == <<accepting, cancelled, panicked>>
requestVars == <<phase, owner, lag, outcome>>
vars == <<stop, workerVars, sessionVars, gateVars, requestVars, faults>>

Serving == {"serve", "dropSession", "joinLifecycle"}
Draining == {"drainRestart", "drainShutdown"}
PCs == {"head", "setup"} \cup Serving \cup Draining
         \cup {"afterCycle", "backoff", "persist", "returned"}
Phases == {"idle", "spawned", "waiting", "executing", "answered", "finished"}
Outcomes == {"none", "rejected", "abandoned", "discarded", "panicked",
             "answered", "lost"}

TypeOK ==
  /\ stop \in BOOLEAN
  /\ pc \in PCs
  /\ cycle \in Nat
  /\ cycleErr \in BOOLEAN
  /\ result \in {"none", "ok", "error"}
  /\ timer \in Nat
  /\ life \in {"none", "loop", "connecting", "exited"}
  /\ connected \in BOOLEAN
  /\ cycleDone \in BOOLEAN
  /\ accepting \in BOOLEAN
  /\ cancelled \in BOOLEAN
  /\ panicked \in BOOLEAN
  /\ phase \in [Requests -> Phases]
  /\ owner \in [Requests -> Nat]
  /\ lag \in [Requests -> 0..CancelLag]
  /\ outcome \in [Requests -> Outcomes]
  /\ faults \in 0..MaxFaults

-----------------------------------------------------------------------------
(* What a request goroutine sees of the cycle it belongs to.               *)

\* requestCtx of r's cycle is done: every return of runPlantCycle cancels it.
CtxDone(r) == owner[r] < cycle \/ cancelled

\* Requests inside the gate (begin() succeeded, done() not yet called).
Active(c) == {r \in Requests :
                owner[r] = c /\ phase[r] \in {"waiting", "executing", "answered"}}

\* The holders of the serialization token of cycle c's handler.
Holders(c) == {r \in Requests :
                 owner[r] = c /\ phase[r] \in {"executing", "answered"}}

\* Requests with a driver transaction open on the plant's inverter.
OnDevice == {r \in Requests : phase[r] = "executing"}

Fault == faults < MaxFaults /\ faults' = faults + 1

-----------------------------------------------------------------------------
Init ==
  /\ stop = FALSE
  /\ pc = "head"
  /\ cycle = 0
  /\ cycleErr = FALSE
  /\ result = "none"
  /\ timer = 0
  /\ life = "none"
  /\ connected = FALSE
  /\ cycleDone = TRUE
  /\ accepting = FALSE
  /\ cancelled = TRUE
  /\ panicked = FALSE
  /\ phase = [r \in Requests |-> "idle"]
  /\ owner = [r \in Requests |-> 0]
  /\ lag = [r \in Requests |-> 0]
  /\ outcome = [r \in Requests |-> "none"]
  /\ faults = 0

(* Process shutdown: a signal, a service stop or Supervisor.Shutdown.      *)
Shutdown ==
  /\ ~stop
  /\ stop' = TRUE
  /\ UNCHANGED <<workerVars, sessionVars, gateVars, requestVars, faults>>

-----------------------------------------------------------------------------
(* The worker goroutine.                                                   *)

\* The cancel function of requestCtx: transactions now have CancelLag to stop.
CancelRequests ==
  /\ cancelled' = TRUE
  /\ lag' = [r \in Requests |->
               IF ~cancelled /\ owner[r] = cycle /\ phase[r] = "executing"
               THEN CancelLag ELSE lag[r]]

\* The loop condition of runPlant.
LoopHead ==
  /\ pc = "head"
  /\ pc' = IF stop THEN "persist" ELSE "setup"
  /\ UNCHANGED <<stop, cycle, cycleErr, result, timer, sessionVars, gateVars,
                 requestVars, faults>>

\* Loading state, or building the client, handler or lifecycle, fails.
SetupFails ==
  /\ pc = "setup"
  /\ Fault
  /\ pc' = "afterCycle"
  /\ cycleErr' = TRUE
  /\ UNCHANGED <<stop, cycle, result, timer, sessionVars, gateVars, requestVars>>

\* A new client, gate, handler, panic channel and lifecycle goroutine.
SetupCycle ==
  /\ pc = "setup"
  /\ pc' = "serve"
  /\ cycle' = cycle + 1
  /\ cycleErr' = FALSE
  /\ life' = "loop"
  /\ connected' = FALSE
  /\ cycleDone' = FALSE
  /\ accepting' = TRUE
  /\ cancelled' = FALSE
  /\ panicked' = FALSE
  /\ UNCHANGED <<stop, result, timer, requestVars, faults>>

\* select: the lifecycle goroutine ended although nobody asked it to.
OnLifecycleDone ==
  /\ pc = "serve" /\ life = "exited"
  /\ life' = "none"
  /\ accepting' = FALSE
  /\ timer' = ShutdownGrace
  /\ \/ /\ stop
        /\ pc' = "drainShutdown"
        /\ UNCHANGED <<cycleErr, cancelled, lag>>
     \/ /\ ~stop
        /\ pc' = "drainRestart"
        /\ cycleErr' = TRUE
        /\ CancelRequests
  /\ UNCHANGED <<stop, cycle, result, connected, cycleDone, panicked,
                 phase, owner, outcome, faults>>

\* Faulty variant: the requests are cancelled before the session is dropped.
OnPanicCancelsFirst ==
  /\ pc = "serve" /\ panicked
  /\ panicked' = FALSE /\ accepting' = FALSE
  /\ cycleDone' = TRUE /\ cycleErr' = TRUE
  /\ pc' = "dropSession"
  /\ CancelRequests
  /\ UNCHANGED <<stop, cycle, result, timer, life, connected,
                 phase, owner, outcome, faults>>

\* Faulty variant: cancelCycle is forgotten.
OnPanicKeepsLifecycle ==
  /\ pc = "serve" /\ panicked
  /\ panicked' = FALSE /\ accepting' = FALSE
  /\ cycleErr' = TRUE
  /\ pc' = "dropSession"
  /\ UNCHANGED <<stop, cycle, result, timer, sessionVars, cancelled,
                 requestVars, faults>>

\* select: a request handler panicked.
OnPanic ==
  /\ pc = "serve" /\ panicked
  /\ panicked' = FALSE
  /\ accepting' = FALSE
  /\ cycleDone' = TRUE
  /\ cycleErr' = TRUE
  /\ pc' = "dropSession"
  /\ UNCHANGED <<stop, cycle, result, timer, life, connected, cancelled,
                 requestVars, faults>>

\* select: shutdown.
OnShutdown ==
  /\ pc = "serve" /\ stop
  /\ accepting' = FALSE
  /\ cycleDone' = TRUE
  /\ pc' = "dropSession"
  /\ UNCHANGED <<stop, cycle, cycleErr, result, timer, life, connected,
                 cancelled, panicked, requestVars, faults>>

\* client.Disconnect() by the worker.
DropSession ==
  /\ pc = "dropSession"
  /\ connected' = FALSE
  /\ pc' = "joinLifecycle"
  /\ UNCHANGED <<stop, cycle, cycleErr, result, timer, life, cycleDone,
                 gateVars, requestVars, faults>>

\* <-lifecycleDone, then cancel at once (panic) or only after the grace.
JoinLifecycle ==
  /\ pc = "joinLifecycle" /\ life = "exited"
  /\ life' = "none"
  /\ timer' = ShutdownGrace
  /\ \/ /\ cycleErr
        /\ pc' = "drainRestart"
        /\ CancelRequests
     \/ /\ ~cycleErr
        /\ pc' = "drainShutdown"
        /\ UNCHANGED <<cancelled, lag>>
  /\ UNCHANGED <<stop, cycle, cycleErr, result, connected, cycleDone,
                 accepting, panicked, phase, owner, outcome, faults>>

\* Faulty variant: no deferred cancelRequests.
FinishDrainKeepsContext ==
  /\ pc \in Draining
  /\ Active(cycle) = {} \/ timer = 0
  /\ pc' = "afterCycle"
  /\ timer' = 0
  /\ cycleDone' = TRUE
  /\ UNCHANGED <<stop, cycle, cycleErr, result, life, connected,
                 gateVars, requestVars, faults>>

\* Faulty variant: the wait for the in-flight requests has no timeout.
FinishDrainWaitsForAll ==
  /\ pc \in Draining
  /\ Active(cycle) = {}
  /\ pc' = "afterCycle"
  /\ timer' = 0
  /\ cycleDone' = TRUE
  /\ CancelRequests
  /\ UNCHANGED <<stop, cycle, cycleErr, result, life, connected,
                 accepting, panicked, phase, owner, outcome, faults>>

\* Faulty variant: an expired grace period is reported as a cycle error.
FinishDrainReportsTimeout ==
  /\ pc \in Draining
  /\ Active(cycle) = {} \/ timer = 0
  /\ cycleErr' = (cycleErr \/ Active(cycle) # {})
  /\ pc' = "afterCycle"
  /\ timer' = 0
  /\ cycleDone' = TRUE
  /\ CancelRequests
  /\ UNCHANGED <<stop, cycle, result, life, connected,
                 accepting, panicked, phase, owner, outcome, faults>>

\* requests.wait(grace) returns, drained or timed out; runPlantCycle returns
\* and its deferred calls cancel both contexts.
FinishDrain ==
  /\ pc \in Draining
  /\ Active(cycle) = {} \/ timer = 0
  /\ pc' = "afterCycle"
  /\ timer' = 0
  /\ cycleDone' = TRUE
  /\ CancelRequests
  /\ UNCHANGED <<stop, cycle, cycleErr, result, life, connected,
                 accepting, panicked, phase, owner, outcome, faults>>

\* Faulty variant: the next cycle starts without a backoff.
AfterCycleNoBackoff ==
  /\ pc = "afterCycle"
  /\ pc' = IF stop THEN "persist" ELSE "head"
  /\ UNCHANGED <<stop, cycle, cycleErr, result, timer, sessionVars, gateVars,
                 requestVars, faults>>

\* Back in runPlant: stop, or wait before the next cycle.
AfterCycle ==
  /\ pc = "afterCycle"
  /\ \/ stop /\ pc' = "persist" /\ UNCHANGED <<cycleErr, timer>>
     \/ ~stop /\ pc' = "backoff" /\ timer' = Backoff /\ cycleErr' = FALSE
  /\ UNCHANGED <<stop, cycle, result, sessionVars, gateVars, requestVars, faults>>

\* deps.wait(ctx, backoff): the timer or the cancellation.
FinishBackoff ==
  /\ pc = "backoff"
  /\ \/ timer = 0 /\ pc' = "head"
     \/ stop /\ pc' = "persist"
  /\ timer' = 0
  /\ UNCHANGED <<stop, cycle, cycleErr, result, sessionVars, gateVars,
                 requestVars, faults>>

\* persistPlantState; runPlant joins its error with the last cycle's.
Persist ==
  /\ pc = "persist"
  /\ pc' = "returned"
  /\ \/ result' = (IF cycleErr THEN "error" ELSE "ok") /\ UNCHANGED faults
     \/ result' = "error" /\ Fault
  /\ UNCHANGED <<stop, cycle, cycleErr, timer, sessionVars, gateVars, requestVars>>

Worker ==
  \/ LoopHead \/ SetupFails \/ SetupCycle
  \/ OnLifecycleDone \/ OnPanic \/ OnShutdown
  \/ DropSession \/ JoinLifecycle \/ FinishDrain
  \/ AfterCycle \/ FinishBackoff \/ Persist

-----------------------------------------------------------------------------
(* The lifecycle goroutine: KeepaliveLoop.Run takes SessionKeeper's steps.  *)

\* cycleCtx is a child of the worker's context.
CycleCtxDone == cycleDone \/ stop

LifecycleDial ==
  /\ KeeperDials(CycleCtxDone)
  /\ UNCHANGED <<stop, workerVars, cycleDone, gateVars, requestVars, faults>>

LifecycleDialed ==
  /\ KeeperDialed
  /\ UNCHANGED <<stop, workerVars, cycleDone, gateVars, requestVars, faults>>

\* Faulty variant: Run returns without its deferred Disconnect.
LifecycleExitKeepsSession ==
  /\ life \in {"loop", "connecting"} /\ CycleCtxDone
  /\ life' = "exited"
  /\ UNCHANGED <<stop, workerVars, connected, cycleDone, gateVars, requestVars,
                 faults>>

LifecycleExit ==
  /\ KeeperExits(CycleCtxDone)
  /\ UNCHANGED <<stop, workerVars, cycleDone, gateVars, requestVars, faults>>

\* Run panics, or its clock fails; the deferred Disconnect still happens.
LifecycleFails ==
  /\ life \in {"loop", "connecting"}
  /\ Fault
  /\ life' = "exited"
  /\ connected' = FALSE
  /\ UNCHANGED <<stop, workerVars, cycleDone, gateVars, requestVars>>

\* The broker or the network ends the session.
ConnectionLost ==
  /\ SessionDropped
  /\ Fault
  /\ UNCHANGED <<stop, workerVars, cycleDone, gateVars, requestVars>>

Lifecycle == LifecycleDial \/ LifecycleDialed \/ LifecycleExit \/ LifecycleFails

-----------------------------------------------------------------------------
(* The request goroutines: the subscription callback and Handle.           *)

\* The MQTT client starts a goroutine for a message on the toDevice topic.
Deliver(r) ==
  /\ phase[r] = "idle" /\ connected
  /\ phase' = [phase EXCEPT ![r] = "spawned"]
  /\ owner' = [owner EXCEPT ![r] = cycle]
  /\ UNCHANGED <<stop, workerVars, sessionVars, gateVars, lag, outcome, faults>>

Ends(r, how) ==
  /\ phase' = [phase EXCEPT ![r] = "finished"]
  /\ outcome' = [outcome EXCEPT ![r] = how]

\* requestGate.begin of the cycle the request was delivered to.
Begin(r) ==
  /\ phase[r] = "spawned"
  /\ IF owner[r] = cycle /\ accepting
     THEN phase' = [phase EXCEPT ![r] = "waiting"] /\ UNCHANGED outcome
     ELSE Ends(r, "rejected")
  /\ UNCHANGED <<stop, workerVars, sessionVars, gateVars, owner, lag, faults>>

\* Handle sees its context done before it has the token.
Abandon(r) ==
  /\ phase[r] = "waiting" /\ CtxDone(r)
  /\ Ends(r, "abandoned")
  /\ UNCHANGED <<stop, workerVars, sessionVars, gateVars, owner, lag, faults>>

\* Handle takes the token; a done context keeps the driver off the inverter
\* (Connect and every transaction test it first), leaving an error response.
TakeToken(r) ==
  /\ phase[r] = "waiting" /\ Holders(owner[r]) = {}
  /\ phase' = [phase EXCEPT ![r] = IF CtxDone(r) THEN "answered" ELSE "executing"]
  /\ UNCHANGED <<stop, workerVars, sessionVars, gateVars, owner, lag, outcome,
                 faults>>

\* Handle takes the token and gives it back: undecodable or empty payload, or
\* a log level that cannot be persisted.  Nothing is published.
Discard(r) ==
  /\ phase[r] = "waiting" /\ Holders(owner[r]) = {}
  /\ Ends(r, "discarded")
  /\ UNCHANGED <<stop, workerVars, sessionVars, gateVars, owner, lag, faults>>

\* execute returns; the driver is closed.
FinishTransaction(r) ==
  /\ phase[r] = "executing"
  /\ phase' = [phase EXCEPT ![r] = "answered"]
  /\ UNCHANGED <<stop, workerVars, sessionVars, gateVars, owner, lag, outcome,
                 faults>>

\* The handler panics: driver closed, token returned, panic recovered into the
\* cycle's one-element channel.  Nobody reads the channel of an ended cycle.
HandlerPanics(r) ==
  /\ phase[r] \in {"executing", "answered"}
  /\ Fault
  /\ Ends(r, "panicked")
  /\ panicked' = (panicked \/ owner[r] = cycle)
  /\ UNCHANGED <<stop, workerVars, sessionVars, accepting, cancelled, owner, lag>>

\* PublishContext on the client of the request's cycle, then Handle returns.
Respond(r) ==
  /\ phase[r] = "answered"
  /\ Ends(r, IF owner[r] = cycle /\ connected THEN "answered" ELSE "lost")
  /\ UNCHANGED <<stop, workerVars, sessionVars, gateVars, owner, lag, faults>>

Request(r) ==
  \/ Deliver(r) \/ Begin(r) \/ Abandon(r) \/ TakeToken(r) \/ Discard(r)
  \/ FinishTransaction(r) \/ HandlerPanics(r) \/ Respond(r)

-----------------------------------------------------------------------------
Overdue == {r \in OnDevice : CtxDone(r) /\ lag[r] = 0}

\* Time passes, never beyond the lag of a cancelled transaction.
Tick ==
  /\ Overdue = {}
  /\ timer > 0 \/ \E r \in OnDevice : lag[r] > 0
  /\ timer' = IF timer > 0 THEN timer - 1 ELSE 0
  /\ lag' = [r \in Requests |-> IF lag[r] > 0 THEN lag[r] - 1 ELSE 0]
  /\ UNCHANGED <<stop, pc, cycle, cycleErr, result, sessionVars, gateVars,
                 phase, owner, outcome, faults>>

\* The worker has returned; the process may exit.
Terminated == pc = "returned" /\ UNCHANGED vars

Next ==
  \/ Shutdown
  \/ Worker
  \/ Lifecycle
  \/ ConnectionLost
  \/ \E r \in Requests : Request(r)
  \/ Tick
  \/ Terminated

Spec == Init /\ [][Next]_vars

(* The Go scheduler runs the worker and the lifecycle goroutine, timers     *)
(* fire, and a cancelled transaction stops (the transports bound their      *)
(* retries).  Nothing else is assumed of the request goroutines.            *)
Fairness ==
  /\ WF_vars(LoopHead)
  /\ WF_vars(SetupCycle)
  /\ WF_vars(OnLifecycleDone \/ OnPanic \/ OnShutdown)
  /\ WF_vars(DropSession)
  /\ WF_vars(JoinLifecycle)
  /\ WF_vars(FinishDrain)
  /\ WF_vars(AfterCycle)
  /\ WF_vars(FinishBackoff)
  /\ WF_vars(Persist)
  /\ WF_vars(LifecycleDialed)
  /\ WF_vars(LifecycleExit)
  /\ WF_vars(Tick)
  /\ \A r \in Requests : WF_vars(CtxDone(r) /\ FinishTransaction(r))

FairSpec == Spec /\ Fairness

-----------------------------------------------------------------------------
(* Properties.                                                             *)

\* Two requests never have a driver transaction open on the plant's inverter
\* at the same time, not even when a request of a timed-out cycle is still
\* being cancelled while a restarted worker already serves.
OneTransaction == \A r, s \in OnDevice : r = s

\* The MQTT session and its lifecycle goroutine end with the cycle: when the
\* worker is draining, backing off or gone there is neither, so a restarted
\* worker never competes with its predecessor for the same MQTT client id.
SessionEndsWithCycle ==
  pc \notin Serving => life = "none" /\ ~connected

\* No transaction begins between two cycles or once the worker has returned:
\* a request that passed the gate before it closed cannot reach the inverter
\* after runPlantCycle has given up waiting for it.
QuietBetweenCycles ==
  [][\A r \in Requests :
       phase[r] = "waiting" /\ phase'[r] = "executing"
         => pc \in Serving \cup {"drainShutdown"}]_vars

\* A request whose context was cancelled never publishes a response: the
\* cancelled transaction's error text does not reach the cloud as an answer.
CancelledNeverAnswers ==
  [][\A r \in Requests :
       outcome[r] # "answered" /\ outcome'[r] = "answered" => ~CtxDone(r)]_vars

\* A worker that met no fault returns without an error, whatever requests were
\* in flight when it was stopped.
CleanExit == pc = "returned" /\ faults = 0 => result = "ok"

\* Once shutdown is requested the worker returns, even if request goroutines
\* never finish and whatever branch of the select it takes.
ShutdownCompletes == stop ~> (pc = "returned")

\* After a handler panic the worker drops its session and serves a new cycle,
\* unless it is stopped; the panic signal is never left unread while serving.
PanicRestarts ==
  \A c \in 1..MaxFaults :
    (panicked /\ pc = "serve" /\ cycle = c) ~> (cycle > c \/ stop)

\* Stopping the worker does not lose the response of a request that finishes
\* within the grace period.
GraceKeepsResponses ==
  faults = 0 => \A r \in Requests : outcome[r] = "lost" => CtxDone(r)
=============================================================================
