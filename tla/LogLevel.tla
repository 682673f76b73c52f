------------------------------- MODULE LogLevel -------------------------------
(***************************************************************************)
(* PersistentLogLevelController: the cloud's log level, shared by the      *)
(* request handlers of all plants.  A new level is saved first and then    *)
(* applied, under one mutex.  SaveRuntime is one step here: StateStore     *)
(* shows that it is atomic and that a failed one changes nothing.          *)
(***************************************************************************)
EXTENDS Naturals

CONSTANTS
  Plants,     \* the configured plants, one request of each in the controller
  Levels,     \* canonical cloud levels
  MaxChanges  \* bound: changes of the level

VARIABLES
  saved,         \* LogLevel in the runtime state file, "" if none
  live,          \* the level in force; "local" is the configured one
  persisted,     \* controller.persisted.LogLevel
  ignoreRemote,  \* controller.ignoreRemote, from runtime.debug
  at,            \* where each plant's ApplyCloudLevel is
  want,          \* the level it is to set
  changes        \* changes so far

levelVars == <<saved, live, persisted, ignoreRemote, at, want, changes>>

LevelTypeOK ==
  /\ saved \in Levels \cup {""} /\ persisted \in Levels \cup {""}
  /\ live \in Levels \cup {"local"}
  /\ ignoreRemote \in BOOLEAN
  /\ at \in [Plants -> {"idle", "save", "apply"}]
  /\ want \in [Plants -> Levels \cup {""}]
  /\ changes \in 0..MaxChanges

\* A new process, before newSupervisor; debug is runtime.debug or --dev.
LevelStart(debug) ==
  /\ live' = "local"
  /\ persisted' = ""
  /\ ignoreRemote' = debug
  /\ at' = [p \in Plants |-> "idle"]
  /\ want' = [p \in Plants |-> ""]
  /\ UNCHANGED <<saved, changes>>

LevelInit ==
  /\ saved = ""
  /\ live = "local"
  /\ persisted = ""
  /\ ignoreRemote \in BOOLEAN
  /\ at = [p \in Plants |-> "idle"]
  /\ want = [p \in Plants |-> ""]
  /\ changes = 0

\* NewPersistentLogLevelController: the saved level is loaded and restored.
Restore ==
  /\ persisted' = saved
  /\ live' = IF saved = "" \/ ignoreRemote THEN live ELSE saved
  /\ UNCHANGED <<saved, ignoreRemote, at, want, changes>>

\* Faulty variant: the controller has no mutex.
EnterUnlocked(p, level) ==
  /\ at[p] = "idle"
  /\ changes < MaxChanges
  /\ ~ignoreRemote /\ level # persisted
  /\ at' = [at EXCEPT ![p] = "save"]
  /\ want' = [want EXCEPT ![p] = level]
  /\ changes' = changes + 1
  /\ UNCHANGED <<saved, live, persisted, ignoreRemote>>

\* ApplyCloudLevel takes the mutex and finds a level to change.
Enter(p, level) ==
  /\ \A q \in Plants : at[q] = "idle"
  /\ changes < MaxChanges
  /\ ~ignoreRemote /\ level # persisted
  /\ at' = [at EXCEPT ![p] = "save"]
  /\ want' = [want EXCEPT ![p] = level]
  /\ changes' = changes + 1
  /\ UNCHANGED <<saved, live, persisted, ignoreRemote>>

\* store.SaveRuntime
SaveLevel(p) ==
  /\ at[p] = "save"
  /\ at' = [at EXCEPT ![p] = "apply"]
  /\ saved' = want[p]
  /\ UNCHANGED <<live, persisted, ignoreRemote, want, changes>>

\* SaveRuntime fails: nothing is applied.
SaveLevelFails(p) ==
  /\ at[p] = "save"
  /\ at' = [at EXCEPT ![p] = "idle"]
  /\ UNCHANGED <<saved, live, persisted, ignoreRemote, want, changes>>

\* runtime.ApplyCloudLevel, which accepts every canonical level; the return
\* releases the mutex.
ApplyLevel(p) ==
  /\ at[p] = "apply"
  /\ at' = [at EXCEPT ![p] = "idle"]
  /\ live' = want[p]
  /\ persisted' = want[p]
  /\ UNCHANGED <<saved, ignoreRemote, want, changes>>

ApplyCloudLevel(p) ==
  (\E level \in Levels : Enter(p, level)) \/ SaveLevel(p) \/ SaveLevelFails(p) \/ ApplyLevel(p)
=============================================================================
