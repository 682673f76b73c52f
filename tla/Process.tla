------------------------------- MODULE Process -------------------------------
(***************************************************************************)
(* The gbbconnect process: main on a console, where signals stop it, or as *)
(* a Windows service, where the service manager does, running one of the   *)
(* commands run (Service) and discover (Discovery), and started again      *)
(* after it has exited.  The service is installed with the command run.    *)
(***************************************************************************)
EXTENDS Naturals

CONSTANTS
  Plants, Levels, MaxChanges,                    \* Service
  MaxHostBits, Scanners, Serials, MaxReplies,    \* Discovery
  MaxSignals,  \* bound: signals sent to one process
  MaxStarts    \* bound: processes one after the other

\* "" stands for no saved level and is not one of the canonical names.
ASSUME LevelsAssumption == "" \notin Levels

ASSUME HostBitsAssumption == MaxHostBits \in Nat

\* A logger serial number is a positive number; 0 stands for a missing one.
ASSUME SerialsAssumption == Serials \subseteq Nat \ {0}

VARIABLES
  host,      \* "console" or "service"
  command,   \* "run" or "discover"
  ctx,       \* the command's context is cancelled
  returned,  \* what the command returned
  hung,      \* a call of the command never returns
  sent,      \* signals sent
  queued,    \* length of the notifications channel
  watcher,   \* the goroutine of newShutdownContext: the select it is in
  stopping,  \* the Windows service is in waitForStop
  exit,      \* how the process ended
  starts     \* processes so far

VARIABLES saved, live, persisted, ignoreRemote, at, want, changes,
          eligible, step, ahead, worker, logOpen

VARIABLES broadcast, subnet, hostBits, reachable, phase, opened, dongles,
          next, jobs, scanner, found, reported, malformed, replies

Run      == INSTANCE Service
Discover == INSTANCE Discovery

runVars == <<saved, live, persisted, ignoreRemote, at, want, changes,
             eligible, step, ahead, worker, logOpen>>
discoverVars == <<broadcast, subnet, hostBits, reachable, phase, opened, dongles,
                  next, jobs, scanner, found, reported, malformed, replies>>
commandVars == <<ctx, returned, runVars, discoverVars>>
signalVars  == <<sent, queued, watcher, stopping>>
vars == <<host, command, commandVars, hung, signalVars, exit, starts>>

\* Faulty variant: the channel holds one signal.
NotifyBufferOne == 1

\* Capacity of the notifications channel.
NotifyBuffer == 2

TypeOK ==
  /\ host \in {"console", "service"} /\ command \in {"run", "discover"}
  /\ ctx \in BOOLEAN /\ hung \in BOOLEAN /\ stopping \in BOOLEAN
  /\ returned \in {"no", "ok", "cancelled", "error"}
  /\ sent \in 0..MaxSignals /\ queued \in 0..NotifyBuffer
  /\ watcher \in {"first", "second"}
  /\ exit \in {"none", "ok", "failed", "forced"}
  /\ starts \in 1..MaxStarts
  /\ Run!TypeOK /\ Discover!TypeOK

Init ==
  /\ Run!Init /\ Discover!Init
  /\ \/ /\ command = "run"
        /\ host \in {"console", "service"}
        /\ ~broadcast /\ ~subnet
     \/ /\ command = "discover"
        /\ host = "console"
        /\ eligible = {} /\ ~ignoreRemote
  /\ ctx = FALSE
  /\ returned = "no"
  /\ hung = FALSE
  /\ sent = 0
  /\ queued = 0
  /\ watcher = "first"
  /\ stopping = FALSE
  /\ exit = "none"
  /\ starts = 1

-----------------------------------------------------------------------------
(* The command: ExecuteContext of the root command.                        *)

Alive == exit = "none"

RunSteps == Run!Step /\ UNCHANGED discoverVars
DiscoverSteps == Discover!Step /\ UNCHANGED runVars

ExecuteCommand ==
  /\ Alive /\ ~hung /\ returned = "no"
  /\ \/ command = "run" /\ RunSteps
     \/ command = "discover" /\ DiscoverSteps
  /\ UNCHANGED <<host, command, hung, signalVars, exit, starts>>

\* What comes from outside: cloud requests and datagrams.
Incoming ==
  /\ Alive /\ ~hung
  /\ \/ command = "run" /\ Run!Requested /\ UNCHANGED discoverVars
     \/ command = "discover" /\ returned = "no"
          /\ Discover!Network /\ UNCHANGED runVars
  /\ UNCHANGED <<host, command, hung, signalVars, exit, starts>>

\* A system call of the bridge, a write to a dead file system for one, hangs; the
\* calls of a discovery have deadlines.
Hang ==
  /\ Alive /\ command = "run" /\ returned = "no" /\ ~hung
  /\ hung' = TRUE
  /\ UNCHANGED <<host, command, commandVars, signalVars, exit, starts>>

-----------------------------------------------------------------------------
(* newShutdownContext and main.                                            *)

\* A signal is delivered.  signal.Notify does not block: one that finds the channel
\* full is lost.  Equal signals that the system merges before count as one.
Signal ==
  /\ Alive /\ host = "console" /\ sent < MaxSignals
  /\ sent' = sent + 1
  /\ queued' = IF queued < NotifyBuffer THEN queued + 1 ELSE queued
  /\ UNCHANGED <<host, command, commandVars, hung, watcher, stopping, exit, starts>>

\* The first signal cancels the context.
FirstSignal ==
  /\ Alive /\ watcher = "first" /\ queued > 0
  /\ queued' = queued - 1
  /\ watcher' = "second"
  /\ ctx' = TRUE
  /\ UNCHANGED <<host, command, returned, runVars, discoverVars, hung, sent,
                 stopping, exit, starts>>

\* The second one ends the process.
SecondSignal ==
  /\ Alive /\ watcher = "second" /\ queued > 0
  /\ queued' = queued - 1
  /\ exit' = "forced"
  /\ UNCHANGED <<host, command, commandVars, hung, sent, watcher, stopping, starts>>

\* The command has returned; any error is exit code 1.
MainReturns ==
  /\ Alive /\ host = "console" /\ returned # "no"
  /\ exit' = IF returned = "ok" THEN "ok" ELSE "failed"
  /\ UNCHANGED <<host, command, commandVars, hung, signalVars, starts>>

(* windowsService.Execute and waitForStop.                                 *)

\* A stop or shutdown request, or the closed channel of requests.
ServiceStop ==
  /\ Alive /\ host = "service" /\ ~stopping
  /\ stopping' = TRUE
  /\ ctx' = TRUE
  /\ UNCHANGED <<host, command, returned, runVars, discoverVars, hung, sent,
                 queued, watcher, exit, starts>>

\* The command has returned; in waitForStop its cancellation is no failure.
ServiceReturns ==
  /\ Alive /\ host = "service" /\ returned # "no"
  /\ exit' = IF returned = "ok" \/ (stopping /\ returned = "cancelled")
             THEN "ok" ELSE "failed"
  /\ UNCHANGED <<host, command, commandVars, hung, signalVars, starts>>

\* A user or a service manager starts the bridge again.
Restart ==
  /\ ~Alive /\ command = "run" /\ starts < MaxStarts
  /\ starts' = starts + 1
  /\ exit' = "none"
  /\ Run!Start
  /\ ctx' = FALSE /\ returned' = "no" /\ hung' = FALSE
  /\ sent' = 0 /\ queued' = 0 /\ watcher' = "first" /\ stopping' = FALSE
  /\ UNCHANGED <<host, command, discoverVars>>

\* The process has exited for good, or hangs and nobody ends it.
Over ==
  /\ ~Alive \/ hung
  /\ UNCHANGED vars

Watch == FirstSignal \/ SecondSignal
Leave == MainReturns \/ ServiceReturns

Next ==
  \/ ExecuteCommand \/ Incoming \/ Hang
  \/ Signal \/ Watch \/ Leave \/ ServiceStop
  \/ Restart \/ Over

Spec == Init /\ [][Next]_vars

\* Goroutines that can run do, the watcher of the signals too; nobody has to
\* stop the process, to start it again, or to answer it.
FairSpec ==
  /\ Spec
  /\ WF_vars(ExecuteCommand)
  /\ WF_vars(Watch)
  /\ WF_vars(Leave)

-----------------------------------------------------------------------------
(* Properties.                                                             *)

ScanComplete     == Discover!ScanComplete
TableFaithful    == Discover!TableFaithful
LiveMatchesSaved == Run!LiveMatchesSaved

\* Unless it is forced, the bridge exits only after every plant worker has saved its
\* state and returned and the log is closed, and only if it was stopped or could
\* not start; its exit code is 0 only if no worker returned an error.
LeavesNothingBehind ==
  command = "run" /\ exit \in {"ok", "failed"} =>
    /\ ~logOpen
    /\ \A p \in Plants : worker[p] # "running"
    /\ ~ctx => ahead = Plants /\ exit = "failed"
    /\ exit = "ok" => \A p \in eligible : worker[p] = "ok"

\* The process exits once it is stopped, unless a call hangs, and a discovery
\* exits even if nobody stops it.
ProcessEnds ==
  /\ ctx ~> (~Alive \/ hung)
  /\ command = "discover" => <>(~Alive)

\* A second signal ends the process even if the command hangs, however close the
\* signals come.
SecondSignalExits == (sent >= 2) ~> ~Alive
=============================================================================
