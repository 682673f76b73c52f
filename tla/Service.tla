------------------------------- MODULE Service -------------------------------
(***************************************************************************)
(* The run command: runApplication, newSupervisor and Supervisor.Run, from *)
(* loading the configuration to joining the plant workers and closing the  *)
(* log.  A worker is what PlantWorker promises of it: it returns only when *)
(* it is stopped, and then with or without an error.                       *)
(***************************************************************************)
EXTENDS LogLevel

VARIABLES
  ctx,       \* the command's context is cancelled
  returned,  \* what RunE returned
  eligible,  \* plants that are enabled and have cloud credentials
  step,      \* where runApplication is
  ahead,     \* plants Run has not come to yet
  worker,    \* each plant's worker
  logOpen    \* the log runtime is open

serviceVars == <<ctx, returned, eligible, step, ahead, worker, logOpen>>

TypeOK ==
  /\ LevelTypeOK
  /\ eligible \subseteq Plants /\ ahead \subseteq Plants
  /\ step \in {"config", "logger", "supervisor", "start", "wait", "join", "close", "end"}
  /\ worker \in [Plants -> {"none", "running", "ok", "error"}]
  /\ logOpen \in BOOLEAN

ServiceInit ==
  /\ eligible \in SUBSET Plants
  /\ step = "config"
  /\ ahead = Plants
  /\ worker = [p \in Plants |-> "none"]
  /\ logOpen = FALSE

Init == LevelInit /\ ServiceInit

\* A new process reads the configuration again.
Start ==
  /\ \E debug \in BOOLEAN : LevelStart(debug)
  /\ eligible' \in SUBSET Plants
  /\ step' = "config"
  /\ ahead' = Plants
  /\ worker' = [p \in Plants |-> "none"]
  /\ logOpen' = FALSE

-----------------------------------------------------------------------------
(* runApplication.                                                         *)

\* The configuration, the log level or the state directory is refused, or the
\* log cannot be opened.
StartFails ==
  /\ step \in {"config", "logger"}
  /\ step' = "end"
  /\ returned' = "error"
  /\ UNCHANGED <<levelVars, ctx, eligible, ahead, worker, logOpen>>

\* resolveConfig, loadConfig and resolveStateDir.
LoadConfig ==
  /\ step = "config"
  /\ step' = "logger"
  /\ UNCHANGED <<levelVars, ctx, returned, eligible, ahead, worker, logOpen>>

\* newLogger
OpenLog ==
  /\ step = "logger"
  /\ step' = "supervisor"
  /\ logOpen' = TRUE
  /\ UNCHANGED <<levelVars, ctx, returned, eligible, ahead, worker>>

\* newSupervisor; the start message was written.
NewSupervisor ==
  /\ step = "supervisor"
  /\ step' = "start"
  /\ Restore
  /\ UNCHANGED <<ctx, returned, eligible, ahead, worker, logOpen>>

\* The state store or the saved log level is unusable: the deferred Close still
\* runs.
NewSupervisorFails ==
  /\ step = "supervisor"
  /\ step' = "end"
  /\ logOpen' = FALSE
  /\ returned' = "error"
  /\ UNCHANGED <<levelVars, ctx, eligible, ahead, worker>>

(* Supervisor.Run.                                                         *)

\* The loop over the plants starts the eligible ones.  It does not test the
\* context, and a worker may be through before the next one starts.
StartPlant(p) ==
  /\ step = "start" /\ p \in ahead
  /\ ahead' = ahead \ {p}
  /\ worker' = [worker EXCEPT ![p] = IF p \in eligible THEN "running" ELSE "none"]
  /\ UNCHANGED <<levelVars, ctx, returned, eligible, step, logOpen>>

Started ==
  /\ step = "start" /\ ahead = {}
  /\ step' = "wait"
  /\ UNCHANGED <<levelVars, ctx, returned, eligible, ahead, worker, logOpen>>

\* Faulty variant: the select has no case for the context, only one for Shutdown.
AwaitShutdownOnly ==
  /\ step = "wait" /\ FALSE
  /\ UNCHANGED <<levelVars, serviceVars>>

\* <-ctx.Done(); Supervisor.Shutdown is the same for its callers, of which the
\* program itself has none.
AwaitStop ==
  /\ step = "wait" /\ ctx
  /\ step' = "join"
  /\ UNCHANGED <<levelVars, ctx, returned, eligible, ahead, worker, logOpen>>

\* runPlant returns.
WorkerReturns(p) ==
  /\ worker[p] = "running" /\ ctx
  /\ \E how \in {"ok", "error"} : worker' = [worker EXCEPT ![p] = how]
  /\ UNCHANGED <<levelVars, ctx, returned, eligible, step, ahead, logOpen>>

\* Faulty variant: Run returns without waiting for the workers.
JoinNobody ==
  /\ step = "join"
  /\ step' = "close"
  /\ UNCHANGED <<levelVars, ctx, returned, eligible, ahead, worker, logOpen>>

\* workers.Wait()
Join ==
  /\ step = "join"
  /\ \A p \in Plants : worker[p] # "running"
  /\ step' = "close"
  /\ UNCHANGED <<levelVars, ctx, returned, eligible, ahead, worker, logOpen>>

Failed == \E p \in Plants : worker[p] = "error"

\* Faulty variant: the deferred Close replaces the result of Run.
RunResultLost == "ok"

\* errors.Join of the workers' errors.
RunResult == IF Failed THEN "error" ELSE "ok"

\* The deferred logger.Close, whose error is joined to the result.
CloseLog ==
  /\ step = "close"
  /\ step' = "end"
  /\ logOpen' = FALSE
  /\ \E how \in {RunResult, "error"} : returned' = how
  /\ UNCHANGED <<levelVars, ctx, eligible, ahead, worker>>

\* The request handlers of a worker that was started set the log level, the one
\* whose request outlives the grace period included.
Requested ==
  /\ \E p \in Plants : worker[p] # "none" /\ ApplyCloudLevel(p)
  /\ UNCHANGED serviceVars

Step ==
  \/ StartFails \/ LoadConfig \/ OpenLog \/ NewSupervisor \/ NewSupervisorFails
  \/ Started \/ AwaitStop \/ Join \/ CloseLog
  \/ \E p \in Plants : StartPlant(p) \/ WorkerReturns(p)

-----------------------------------------------------------------------------
(* Properties.                                                             *)

\* Outside a change, the level in force is the one a restart would restore, and
\* in debug mode the local one: two plants' requests, failed saves and exits
\* between saving and applying cannot part them.
LiveMatchesSaved ==
  step \in {"start", "wait", "join", "close"} /\ (\A p \in Plants : at[p] = "idle") =>
    /\ persisted = saved
    /\ live = IF ignoreRemote \/ saved = "" THEN "local" ELSE saved
=============================================================================
