-------------------------- MODULE PlantWorkerProofs --------------------------
(***************************************************************************)
(* Proofs about PlantWorker for every set of requests, every grace period, *)
(* backoff and cancellation lag, and any number of faults.                 *)
(***************************************************************************)
EXTENDS PlantWorker, TLAPS

(***************************************************************************)
(* The structural invariant: which contexts and sessions are alive at      *)
(* which point of the worker, and who may hold a serialization token.      *)
(***************************************************************************)
OwnersKnown == \A r \in Requests : owner[r] <= cycle

TokenExclusive ==
  \A r, s \in Requests :
    /\ phase[r] \in {"executing", "answered"}
    /\ phase[s] \in {"executing", "answered"}
    /\ owner[r] = owner[s]
    => r = s

ContextFollowsWorker ==
  /\ pc \in Serving => ~cancelled
  /\ pc \notin Serving \cup {"drainShutdown"} => cancelled

SessionFollowsLifecycle == life \in {"none", "exited"} => ~connected

GraceOnlyOnStop ==
  /\ pc = "drainShutdown" => stop
  /\ pc \in {"dropSession", "joinLifecycle"} => stop \/ cycleErr

Structure ==
  /\ TypeOK
  /\ OwnersKnown
  /\ TokenExclusive
  /\ ContextFollowsWorker
  /\ SessionFollowsLifecycle
  /\ SessionEndsWithCycle
  /\ GraceOnlyOnStop

(***************************************************************************)
(* The timing invariant.  A transaction that outlives its cycle has used   *)
(* up part of its CancelLag during the drain and the backoff, so nothing   *)
(* is left of it when the next cycle is set up.                            *)
(***************************************************************************)
DeviceCurrent == \A r \in OnDevice : owner[r] = cycle

DeviceQuiet == pc \in {"head", "setup"} => OnDevice = {}

LagSpent ==
  /\ pc = "drainRestart" =>
       \A r \in OnDevice : lag[r] + ShutdownGrace <= CancelLag + timer
  /\ pc = "afterCycle" =>
       stop \/ \A r \in OnDevice : lag[r] + ShutdownGrace <= CancelLag
  /\ pc = "backoff" =>
       \A r \in OnDevice : lag[r] + ShutdownGrace + Backoff <= CancelLag + timer

Timing == DeviceCurrent /\ DeviceQuiet /\ LagSpent

(***************************************************************************)
(* Blame: as long as nothing has failed, no cycle has an error, and the    *)
(* lifecycle goroutine ends under a serving worker only on a stop.  The    *)
(* worker cancels cycleCtx only when it leaves "serve", so Run sees it     *)
(* done there only through the process's context.                          *)
(***************************************************************************)
Blameless ==
  faults = 0 =>
    /\ ~cycleErr /\ ~panicked
    /\ pc = "serve" => ~cycleDone /\ (life = "exited" => stop)
    /\ pc = "returned" => result = "ok"

-----------------------------------------------------------------------------
\* A fault stays within the bound on faults.
LEMMA FaultType ==
  ASSUME TypeOK, Fault PROVE faults' \in 0..MaxFaults
<1> faults \in 0..MaxFaults /\ MaxFaults \in Nat
  BY ConstantsAssumption DEF TypeOK
<1> QED
  BY DEF Fault

\* Type correctness of the worker, its lifecycle and its requests.
LEMMA TypeStep == TypeOK /\ [Next]_vars => TypeOK'
<1> SUFFICES ASSUME TypeOK, [Next]_vars PROVE TypeOK'
  OBVIOUS
<1> USE ConstantsAssumption DEF TypeOK, PCs, Serving, Draining, Phases, Outcomes,
        workerVars, sessionVars, gateVars, requestVars
<1>1. CASE Shutdown
  BY <1>1 DEF Shutdown
<1>2. CASE LoopHead
  BY <1>2 DEF LoopHead
<1>3. CASE SetupFails
  <2>1. faults' \in 0..MaxFaults
    BY <1>3, FaultType DEF SetupFails
  <2>2. QED
    BY <1>3, <2>1, Zenon DEF SetupFails
<1>4. CASE SetupCycle
  <2>1. cycle' \in Nat
    BY <1>4 DEF SetupCycle
  <2>2. QED
    BY <1>4, <2>1, Zenon DEF SetupCycle
<1>5. CASE OnLifecycleDone
  <2>1. timer' \in Nat /\ lag' \in [Requests -> 0..CancelLag]
    BY <1>5 DEF OnLifecycleDone, CancelRequests
  <2>2. QED
    BY <1>5, <2>1, Zenon DEF OnLifecycleDone, CancelRequests
<1>6. CASE OnPanic
  BY <1>6 DEF OnPanic
<1>7. CASE OnShutdown
  BY <1>7 DEF OnShutdown
<1>8. CASE DropSession
  BY <1>8 DEF DropSession
<1>9. CASE JoinLifecycle
  <2>1. timer' \in Nat /\ lag' \in [Requests -> 0..CancelLag]
    BY <1>9 DEF JoinLifecycle, CancelRequests
  <2>2. QED
    BY <1>9, <2>1, Zenon DEF JoinLifecycle, CancelRequests
<1>10. CASE FinishDrain
  BY <1>10 DEF FinishDrain, CancelRequests
<1>11. CASE AfterCycle
  BY <1>11 DEF AfterCycle
<1>12. CASE FinishBackoff
  BY <1>12 DEF FinishBackoff
<1>13. CASE Persist
  BY <1>13 DEF Persist, Fault
<1>14. CASE LifecycleDial
  BY <1>14 DEF LifecycleDial, KeeperDials
<1>15. CASE LifecycleDialed
  BY <1>15 DEF LifecycleDialed, KeeperDialed
<1>16. CASE LifecycleExit
  BY <1>16 DEF LifecycleExit, KeeperExits
<1>17. CASE LifecycleFails
  <2>1. faults' \in 0..MaxFaults
    BY <1>17, FaultType DEF LifecycleFails
  <2>2. QED
    BY <1>17, <2>1, Zenon DEF LifecycleFails
<1>18. CASE ConnectionLost
  <2>1. faults' \in 0..MaxFaults
    BY <1>18, FaultType DEF ConnectionLost, SessionDropped
  <2>2. /\ connected' \in BOOLEAN
        /\ UNCHANGED <<stop, workerVars, life, cycleDone, gateVars, requestVars>>
    BY <1>18, Zenon DEF ConnectionLost, SessionDropped
  <2>3. QED
    BY <2>1, <2>2
<1>19. ASSUME NEW r \in Requests, Request(r) PROVE TypeOK'
  <2>1. CASE Deliver(r)
    BY <2>1 DEF Deliver
  <2>2. CASE Begin(r)
    BY <2>2 DEF Begin, Ends
  <2>3. CASE Abandon(r)
    BY <2>3 DEF Abandon, Ends
  <2>4. CASE TakeToken(r)
    BY <2>4 DEF TakeToken
  <2>5. CASE Discard(r)
    BY <2>5 DEF Discard, Ends
  <2>6. CASE FinishTransaction(r)
    BY <2>6 DEF FinishTransaction
  <2>7. CASE HandlerPanics(r)
    <3>1. phase' \in [Requests -> Phases] /\ outcome' \in [Requests -> Outcomes]
      BY <2>7 DEF HandlerPanics, Ends
    <3>2. faults' \in 0..MaxFaults
      BY <2>7, FaultType DEF HandlerPanics
    <3>3. panicked' \in BOOLEAN
      BY <2>7, Zenon DEF HandlerPanics
    <3>4. UNCHANGED <<stop, workerVars, sessionVars, accepting, cancelled, owner, lag>>
      BY <2>7, Zenon DEF HandlerPanics
    <3>5. QED
      BY <3>1, <3>2, <3>3, <3>4
  <2>8. CASE Respond(r)
    BY <2>8 DEF Respond, Ends
  <2>9. QED
    BY <1>19, <2>1, <2>2, <2>3, <2>4, <2>5, <2>6, <2>7, <2>8 DEF Request
<1>20. CASE Tick
  BY <1>20 DEF Tick
<1>21. CASE UNCHANGED vars
  BY <1>21 DEF vars
<1>22. QED
  BY <1>1, <1>2, <1>3, <1>4, <1>5, <1>6, <1>7, <1>8, <1>9, <1>10, <1>11, <1>12,
     <1>13, <1>14, <1>15, <1>16, <1>17, <1>18, <1>19, <1>20, <1>21
     DEF Next, Worker, Lifecycle, Terminated

\* The initial state is well typed.
LEMMA InitType == Init => TypeOK
<1> SUFFICES ASSUME Init PROVE TypeOK
  OBVIOUS
<1>1. /\ cycle \in Nat /\ timer \in Nat /\ faults \in 0..MaxFaults
      /\ owner \in [Requests -> Nat] /\ lag \in [Requests -> 0..CancelLag]
  BY ConstantsAssumption DEF Init
<1>2. phase \in [Requests -> Phases] /\ outcome \in [Requests -> Outcomes]
  BY DEF Init, Phases, Outcomes
<1>3. QED
  BY <1>1, <1>2, Zenon DEF Init, TypeOK, PCs

\* Every behaviour of the worker keeps its variables in their types.
THEOREM TypeCorrect == Spec => []TypeOK
<1> QED
  BY InitType, TypeStep, PTL DEF Spec

-----------------------------------------------------------------------------
\* The worker's own steps and the session's keep contexts, session and stop in
\* line with the point the worker is at.
LEMMA PhaseStep ==
  ASSUME TypeOK, ContextFollowsWorker, SessionFollowsLifecycle,
         SessionEndsWithCycle, GraceOnlyOnStop, [Next]_vars
  PROVE  (/\ ContextFollowsWorker
          /\ SessionFollowsLifecycle
          /\ SessionEndsWithCycle
          /\ GraceOnlyOnStop)'
<1> USE DEF TypeOK, ContextFollowsWorker, SessionFollowsLifecycle,
        SessionEndsWithCycle, GraceOnlyOnStop, Serving, Draining,
        workerVars, sessionVars, gateVars
<1>1. CASE Shutdown
  BY <1>1 DEF Shutdown
<1>2. CASE LoopHead
  BY <1>2 DEF LoopHead
<1>3. CASE SetupFails
  BY <1>3 DEF SetupFails
<1>4. CASE SetupCycle
  BY <1>4 DEF SetupCycle
<1>5. CASE OnLifecycleDone
  BY <1>5 DEF OnLifecycleDone, CancelRequests
<1>6. CASE OnPanic
  BY <1>6 DEF OnPanic
<1>7. CASE OnShutdown
  BY <1>7 DEF OnShutdown
<1>8. CASE DropSession
  BY <1>8 DEF DropSession
<1>9. CASE JoinLifecycle
  BY <1>9 DEF JoinLifecycle, CancelRequests
<1>10. CASE FinishDrain
  BY <1>10 DEF FinishDrain, CancelRequests
<1>11. CASE AfterCycle
  BY <1>11 DEF AfterCycle
<1>12. CASE FinishBackoff
  BY <1>12 DEF FinishBackoff
<1>13. CASE Persist
  BY <1>13 DEF Persist
<1>14. CASE LifecycleDial
  BY <1>14 DEF LifecycleDial, KeeperDials
<1>15. CASE LifecycleDialed
  BY <1>15 DEF LifecycleDialed, KeeperDialed
<1>16. CASE LifecycleExit
  BY <1>16 DEF LifecycleExit, KeeperExits
<1>17. CASE LifecycleFails
  BY <1>17 DEF LifecycleFails
<1>18. CASE ConnectionLost
  BY <1>18 DEF ConnectionLost, SessionDropped
<1>19. ASSUME NEW r \in Requests, Request(r)
       PROVE  UNCHANGED <<stop, workerVars, sessionVars, cancelled>>
  BY <1>19 DEF Request, Deliver, Begin, Abandon, TakeToken, Discard,
     FinishTransaction, HandlerPanics, Respond
<1>20. CASE Tick
  BY <1>20 DEF Tick
<1>21. CASE UNCHANGED vars
  BY <1>21 DEF vars
<1>22. CASE \E r \in Requests : Request(r)
  BY <1>22, <1>19
<1>23. QED
  BY <1>1, <1>2, <1>3, <1>4, <1>5, <1>6, <1>7, <1>8, <1>9, <1>10, <1>11, <1>12, <1>13, <1>14, <1>15, <1>16, <1>17, <1>18, <1>20, <1>21, <1>22
     DEF Next, Worker, Lifecycle, Terminated

\* Only TakeToken adds a holder, and only when its cycle's token is free; a
\* request changes its cycle only when it is delivered.
LEMMA TokenStep ==
  ASSUME TypeOK, OwnersKnown, TokenExclusive, [Next]_vars
  PROVE  (OwnersKnown /\ TokenExclusive)'
<1> USE DEF TypeOK, OwnersKnown, TokenExclusive, requestVars, workerVars
<1>1. CASE \E r \in Requests : Request(r)
  <2> PICK r \in Requests : Request(r)
    BY <1>1
  <2>1. CASE Deliver(r)
    BY <2>1 DEF Deliver
  <2>2. CASE Begin(r) \/ Abandon(r) \/ Discard(r) \/ HandlerPanics(r) \/ Respond(r)
    BY <2>2 DEF Begin, Abandon, Discard, HandlerPanics, Respond, Ends
  <2>3. CASE TakeToken(r)
    BY <2>3 DEF TakeToken, Holders
  <2>4. CASE FinishTransaction(r)
    BY <2>4 DEF FinishTransaction
  <2>5. QED
    BY <2>1, <2>2, <2>3, <2>4 DEF Request
<1>2. CASE SetupCycle
  BY <1>2 DEF SetupCycle
<1>3. CASE Worker /\ ~SetupCycle
  BY <1>3 DEF Worker, LoopHead, SetupFails, OnLifecycleDone, OnPanic, OnShutdown,
     DropSession, JoinLifecycle, FinishDrain, AfterCycle, FinishBackoff, Persist
<1>4. CASE Shutdown \/ Lifecycle \/ ConnectionLost \/ Tick \/ UNCHANGED vars
  BY <1>4 DEF Shutdown, Lifecycle, LifecycleDial, LifecycleDialed, LifecycleExit,
     LifecycleFails, ConnectionLost, Tick, vars
<1>5. QED
  BY <1>1, <1>2, <1>3, <1>4 DEF Next, Terminated

\* The structural invariant is inductive.
LEMMA StructureInvariant == Spec => []Structure
<1>1. Init => Structure
  <2> SUFFICES ASSUME Init PROVE Structure
    OBVIOUS
  <2>1. TypeOK
    BY InitType
  <2>2. OwnersKnown /\ TokenExclusive
    BY DEF Init, OwnersKnown, TokenExclusive
  <2>3. /\ ContextFollowsWorker /\ SessionFollowsLifecycle
        /\ SessionEndsWithCycle /\ GraceOnlyOnStop
    BY DEF Init, ContextFollowsWorker, SessionFollowsLifecycle,
       SessionEndsWithCycle, GraceOnlyOnStop, Serving
  <2>4. QED
    BY <2>1, <2>2, <2>3 DEF Structure
<1>2. Structure /\ [Next]_vars => Structure'
  BY TypeStep, PhaseStep, TokenStep DEF Structure
<1>3. QED
  BY <1>1, <1>2, PTL DEF Spec

\* When the worker drains, backs off or is gone, its MQTT session and lifecycle
\* goroutine are gone too (runPlantCycle joins Run, whose deferred Disconnect
\* ends a session that came up late).
THEOREM SessionEnds == Spec => []SessionEndsWithCycle
<1>1. Structure => SessionEndsWithCycle
  BY DEF Structure
<1>2. QED
  BY <1>1, StructureInvariant, PTL

\* No driver transaction begins while the worker drains after a failure, backs
\* off or has returned: every way out of a cycle has cancelled requestCtx.
THEOREM QuietOutsideCycles == Spec => QuietBetweenCycles
<1>1. Structure /\ [Next]_vars =>
        [\A r \in Requests :
           phase[r] = "waiting" /\ phase'[r] = "executing"
             => pc \in Serving \cup {"drainShutdown"}]_vars
  <2> SUFFICES ASSUME Structure, [Next]_vars, NEW r \in Requests,
                      phase[r] = "waiting", phase'[r] = "executing"
               PROVE  ~cancelled
    BY DEF Structure, ContextFollowsWorker
  <2> PICK s \in Requests : Request(s)
    <3>1. ~UNCHANGED requestVars /\ phase' # phase
      BY DEF requestVars
    <3>2. QED
      BY <3>1 DEF Next, Worker, Lifecycle, Shutdown, LoopHead, SetupFails,
         SetupCycle, OnLifecycleDone, OnPanic, OnShutdown, DropSession,
         JoinLifecycle, FinishDrain, AfterCycle, FinishBackoff, Persist,
         LifecycleDial, LifecycleDialed, LifecycleExit, LifecycleFails,
         ConnectionLost, Tick, Terminated, vars, requestVars
  <2>1. CASE TakeToken(s)
    BY <2>1 DEF TakeToken, CtxDone, Structure, TypeOK
  <2>2. CASE ~TakeToken(s)
    BY <2>2 DEF Request, Deliver, Begin, Abandon, Discard, FinishTransaction,
       HandlerPanics, Respond, Ends, Structure, TypeOK
  <2>3. QED
    BY <2>1, <2>2
<1>2. QED
  BY <1>1, StructureInvariant, PTL DEF Spec, QuietBetweenCycles

\* A request whose context is done never publishes: requestCtx is cancelled
\* only after the session is gone, and an ended cycle has no session.
THEOREM CancelledSilent == Spec => CancelledNeverAnswers
<1>1. Structure /\ [Next]_vars =>
        [\A r \in Requests :
           outcome[r] # "answered" /\ outcome'[r] = "answered" => ~CtxDone(r)]_vars
  <2> SUFFICES ASSUME Structure, [Next]_vars, NEW r \in Requests,
                      outcome[r] # "answered", outcome'[r] = "answered"
               PROVE  ~CtxDone(r)
    OBVIOUS
  <2> PICK s \in Requests : Request(s)
    BY DEF Next, Worker, Lifecycle, Shutdown, LoopHead, SetupFails,
       SetupCycle, OnLifecycleDone, OnPanic, OnShutdown, DropSession,
       JoinLifecycle, FinishDrain, AfterCycle, FinishBackoff, Persist,
       LifecycleDial, LifecycleDialed, LifecycleExit, LifecycleFails,
       ConnectionLost, Tick, Terminated, vars, requestVars
  <2>1. Respond(s) /\ s = r
    BY DEF Request, Deliver, Begin, Abandon, TakeToken, Discard,
       FinishTransaction, HandlerPanics, Respond, Ends, Structure, TypeOK
  <2>2. owner[r] = cycle /\ connected
    BY <2>1 DEF Respond, Ends, Structure, TypeOK
  <2>3. ~cancelled
    BY <2>2 DEF Structure, SessionEndsWithCycle, ContextFollowsWorker
  <2>4. QED
    BY <2>2, <2>3 DEF CtxDone, Structure, TypeOK
<1>2. QED
  BY <1>1, StructureInvariant, PTL DEF Spec, CancelledNeverAnswers

-----------------------------------------------------------------------------
\* Every step that could leave an error behind is a fault, or follows one.
LEMMA BlameStep ==
  ASSUME TypeOK, Blameless, [Next]_vars PROVE Blameless'
<1> USE DEF Blameless, workerVars, sessionVars, gateVars
<1>1. faults \in Nat /\ (Fault => faults' # 0)
  BY ConstantsAssumption DEF TypeOK, Fault
<1>2. CASE SetupFails \/ LifecycleFails \/ ConnectionLost
  BY <1>1, <1>2 DEF SetupFails, LifecycleFails, ConnectionLost
<1>3. CASE Shutdown \/ LoopHead \/ SetupCycle \/ FinishDrain
  BY <1>3, Zenon DEF Shutdown, LoopHead, SetupCycle, FinishDrain, Draining
<1>4. CASE OnLifecycleDone
  BY <1>4 DEF OnLifecycleDone
<1>5. CASE OnPanic \/ OnShutdown \/ DropSession
  BY <1>5 DEF OnPanic, OnShutdown, DropSession
<1>6. CASE JoinLifecycle \/ AfterCycle \/ FinishBackoff
  BY <1>6 DEF JoinLifecycle, AfterCycle, FinishBackoff
<1>7. CASE Persist
  BY <1>1, <1>7 DEF Persist
<1>8. CASE LifecycleDial \/ LifecycleDialed
  BY <1>8 DEF LifecycleDial, LifecycleDialed, KeeperDials, KeeperDialed
<1>9. CASE LifecycleExit
  BY <1>9 DEF LifecycleExit, KeeperExits, CycleCtxDone
<1>10. CASE \E r \in Requests : Request(r)
  <2> PICK r \in Requests : Request(r)
    BY <1>10
  <2>1. CASE HandlerPanics(r)
    BY <1>1, <2>1 DEF HandlerPanics
  <2>2. CASE ~HandlerPanics(r)
    BY <2>2 DEF Request, Deliver, Begin, Abandon, TakeToken, Discard,
       FinishTransaction, Respond
  <2>3. QED
    BY <2>1, <2>2
<1>11. CASE Tick \/ UNCHANGED vars
  BY <1>11 DEF Tick, vars
<1>12. QED
  BY <1>2, <1>3, <1>4, <1>5, <1>6, <1>7, <1>8, <1>9, <1>10, <1>11
     DEF Next, Worker, Lifecycle, Terminated

\* When nothing failed, runPlant returns no error: a shutdown is never reported
\* as one, whichever of the select's cases wins and however the drain ends.
THEOREM ExitsCleanly == Spec => []CleanExit
<1>1. Init => Blameless
  BY DEF Init, Blameless
<1>2. Structure /\ Blameless /\ [Next]_vars => Blameless'
  BY BlameStep DEF Structure
<1>3. Blameless => CleanExit
  BY DEF Blameless, CleanExit
<1>4. QED
  BY <1>1, <1>2, <1>3, StructureInvariant, PTL DEF Spec

-----------------------------------------------------------------------------
\* The timing invariant is preserved when a cancelled transaction always stops
\* before a restarted worker could serve.
LEMMA TimingStep ==
  ASSUME CancelLag < ShutdownGrace + Backoff,
         Structure, Timing, [Next]_vars
  PROVE  Timing'
<1> USE ConstantsAssumption DEF Structure, TypeOK, OwnersKnown,
        ContextFollowsWorker, GraceOnlyOnStop, Timing, DeviceCurrent,
        DeviceQuiet, LagSpent, OnDevice, Serving, Draining,
        workerVars, sessionVars, gateVars, requestVars
<1>1. CASE Shutdown
  BY <1>1 DEF Shutdown
<1>2. CASE LoopHead
  BY <1>2 DEF LoopHead
<1>3. CASE SetupFails
  BY <1>3 DEF SetupFails
<1>4. CASE OnLifecycleDone
  BY <1>4 DEF OnLifecycleDone, CancelRequests
<1>5. CASE OnPanic
  BY <1>5 DEF OnPanic
<1>6. CASE OnShutdown
  BY <1>6 DEF OnShutdown
<1>7. CASE DropSession
  BY <1>7 DEF DropSession
<1>8. CASE JoinLifecycle
  BY <1>8 DEF JoinLifecycle, CancelRequests
<1>9. CASE SetupCycle
  BY <1>9 DEF SetupCycle
<1>10. CASE FinishDrain
  <2>1. Active(cycle) = {} => OnDevice = {}
    BY DEF Active
  <2>2. CASE pc = "drainShutdown"
    BY <1>10, <2>2 DEF FinishDrain, CancelRequests
  <2>3. CASE pc = "drainRestart" /\ timer = 0
    BY <1>10, <2>3 DEF FinishDrain, CancelRequests
  <2>4. CASE pc = "drainRestart" /\ Active(cycle) = {}
    BY <1>10, <2>1, <2>4 DEF FinishDrain, CancelRequests
  <2>5. QED
    BY <1>10, <2>2, <2>3, <2>4 DEF FinishDrain
<1>11. CASE AfterCycle
  BY <1>11 DEF AfterCycle
<1>12. CASE FinishBackoff
  <2>1. timer = 0 => OnDevice = {}
    BY <1>12 DEF FinishBackoff
  <2>2. QED
    BY <1>12, <2>1 DEF FinishBackoff
<1>13. CASE Persist
  BY <1>13 DEF Persist
<1>14. CASE Lifecycle \/ ConnectionLost
  BY <1>14 DEF Lifecycle, LifecycleDial, LifecycleDialed, LifecycleExit,
     LifecycleFails, ConnectionLost
<1>15. CASE \E r \in Requests : Request(r)
  <2> PICK r \in Requests : Request(r)
    BY <1>15
  <2>1. CASE TakeToken(r)
    BY <2>1 DEF TakeToken, CtxDone
  <2>2. CASE ~TakeToken(r)
    BY <2>2 DEF Request, Deliver, Begin, Abandon, Discard, FinishTransaction,
       HandlerPanics, Respond, Ends
  <2>3. QED
    BY <2>1, <2>2
<1>16. CASE Tick
  <2>1. \A r \in OnDevice : cancelled => lag[r] > 0
    BY <1>16 DEF Tick, Overdue, CtxDone
  <2>2. \A r \in OnDevice : cancelled => lag'[r] = lag[r] - 1
    BY <1>16, <2>1 DEF Tick
  <2>3. timer' >= timer - 1 /\ timer' \in Nat
    BY <1>16 DEF Tick
  <2>4. QED
    BY <1>16, <2>2, <2>3 DEF Tick
<1>17. CASE UNCHANGED vars
  BY <1>17 DEF vars
<1>18. QED
  BY <1>1, <1>2, <1>3, <1>4, <1>5, <1>6, <1>7, <1>8, <1>9, <1>10, <1>11, <1>12,
     <1>13, <1>14, <1>15, <1>16, <1>17 DEF Next, Worker, Terminated

\* If a cancelled transaction stops within less than the grace period plus the
\* backoff (production: 100 s against 330 s), no two requests ever have a
\* transaction open on the plant's inverter, across restarts of the worker.
THEOREM NoOverlap ==
  ASSUME CancelLag < ShutdownGrace + Backoff
  PROVE  Spec => []OneTransaction
<1>1. Init => Timing
  BY DEF Init, Timing, DeviceCurrent, DeviceQuiet, LagSpent, OnDevice
<1>2. Structure /\ Timing /\ [Next]_vars => Timing'
  BY TimingStep
<1>3. Structure /\ Timing => OneTransaction
  BY DEF Structure, TokenExclusive, Timing, DeviceCurrent, OneTransaction, OnDevice
<1>4. QED
  BY <1>1, <1>2, <1>3, StructureInvariant, PTL DEF Spec
=============================================================================
