----------------------------- MODULE StateStore ------------------------------
(***************************************************************************)
(* state.Store for one file (a plant's state or the runtime overrides):    *)
(* goroutines that load and save under the file's mutex, saves that go     *)
(* through a temporary file, failing system calls, a process that is       *)
(* killed at any instant (crash, second signal) and a machine that loses   *)
(* power.  The operating system keeps two views of the file: what readers  *)
(* see now, and what a power loss may leave.                               *)
(***************************************************************************)
EXTENDS Naturals, FiniteSets

CONSTANTS
  Callers,     \* goroutines that use the store
  Values,      \* plant states
  Zero,        \* the zero state that a missing file stands for
  Torn,        \* content that is not a whole JSON document
  NoCaller,    \* the mutex is free
  MaxIncidents \* bound: kills, power losses and temporary files not removed

ASSUME StoreAssumption ==
  /\ NoCaller \notin Callers
  /\ Zero \notin Values
  /\ Torn \notin Values \cup {Zero}
  /\ MaxIncidents \in Nat

VARIABLES
  visible,  \* content under the file's name, as readers see it
  onDisk,   \* contents that a power loss may leave under the name
  mutex,    \* holder of the file's lock
  pc,       \* where each call is
  arg,      \* value being saved
  temp,     \* each caller's temporary file
  got,      \* result of each caller's last load
  orphans,  \* temporary files nobody will remove
  incidents \* kills, power losses and failed removals so far

vars == <<visible, onDisk, mutex, pc, arg, temp, got, orphans, incidents>>

Whole == Values \cup {Zero}
Locked == {"create", "write", "sync", "rename", "read"}
PCs == {"idle", "lockSave", "lockLoad", "saved", "failed", "loaded"} \cup Locked

TypeOK ==
  /\ visible \in Whole \cup {Torn}
  /\ onDisk \in SUBSET (Whole \cup {Torn}) /\ onDisk # {}
  /\ mutex \in Callers \cup {NoCaller}
  /\ pc \in [Callers -> PCs]
  /\ arg \in [Callers -> Whole]
  /\ temp \in [Callers -> {"none", "empty", "written", "synced"}]
  /\ got \in [Callers -> Whole]
  /\ orphans \in 0..MaxIncidents
  /\ incidents \in 0..MaxIncidents

Init ==
  /\ visible = Zero
  /\ onDisk = {Zero}
  /\ mutex = NoCaller
  /\ pc = [c \in Callers |-> "idle"]
  /\ arg = [c \in Callers |-> Zero]
  /\ temp = [c \in Callers |-> "none"]
  /\ got = [c \in Callers |-> Zero]
  /\ orphans = 0
  /\ incidents = 0

-----------------------------------------------------------------------------
Goto(c, from, to) == pc[c] = from /\ pc' = [pc EXCEPT ![c] = to]

Free(c) == pc[c] \in {"idle", "saved", "failed", "loaded"}

CallSave(c, v) ==
  /\ Free(c)
  /\ pc' = [pc EXCEPT ![c] = "lockSave"]
  /\ arg' = [arg EXCEPT ![c] = v]
  /\ UNCHANGED <<visible, onDisk, mutex, temp, got, orphans, incidents>>

CallLoad(c) ==
  /\ Free(c)
  /\ pc' = [pc EXCEPT ![c] = "lockLoad"]
  /\ UNCHANGED <<visible, onDisk, mutex, arg, temp, got, orphans, incidents>>

\* lockFor(plantNumber).Lock(): the same mutex for loads and saves.
Lock(c) ==
  /\ mutex = NoCaller
  /\ mutex' = c
  /\ Goto(c, "lockSave", "create") \/ Goto(c, "lockLoad", "read")
  /\ UNCHANGED <<visible, onDisk, arg, temp, got, orphans, incidents>>

\* saveJSON: os.CreateTemp picks a fresh name in the same directory.
CreateTemp(c) ==
  /\ Goto(c, "create", "write")
  /\ temp' = [temp EXCEPT ![c] = "empty"]
  /\ UNCHANGED <<visible, onDisk, mutex, arg, got, orphans, incidents>>

\* Faulty variant: the file itself is written, not a temporary one.
WriteInPlace(c) ==
  /\ Goto(c, "write", "sync")
  /\ visible' = arg[c]
  /\ UNCHANGED <<onDisk, mutex, arg, temp, got, orphans, incidents>>

\* Chmod and Write.
WriteTemp(c) ==
  /\ Goto(c, "write", "sync")
  /\ temp' = [temp EXCEPT ![c] = "written"]
  /\ UNCHANGED <<visible, onDisk, mutex, arg, got, orphans, incidents>>

\* Faulty variant: the temporary file is closed without Sync.
SyncTempSkipped(c) ==
  /\ Goto(c, "sync", "rename")
  /\ UNCHANGED <<visible, onDisk, mutex, arg, temp, got, orphans, incidents>>

\* Sync and Close.
SyncTemp(c) ==
  /\ Goto(c, "sync", "rename")
  /\ temp' = [temp EXCEPT ![c] = "synced"]
  /\ UNCHANGED <<visible, onDisk, mutex, arg, got, orphans, incidents>>

\* os.Rename replaces the file at once; the directory entry reaches the disk
\* later, and a file that was not synced may reach it without its data.
Rename(c) ==
  /\ Goto(c, "rename", "saved")
  /\ visible' = arg[c]
  /\ onDisk' = onDisk \cup {arg[c]} \cup (IF temp[c] = "synced" THEN {} ELSE {Torn})
  /\ temp' = [temp EXCEPT ![c] = "none"]
  /\ mutex' = NoCaller
  /\ UNCHANGED <<arg, got, orphans, incidents>>

\* Faulty variant: a failed save leaves its temporary file behind.
SaveFailsKeepsTemp(c) ==
  /\ pc[c] \in {"create", "write", "sync", "rename"}
  /\ pc' = [pc EXCEPT ![c] = "failed"]
  /\ temp' = [temp EXCEPT ![c] = "none"]
  /\ orphans' = orphans + (IF temp[c] = "none" THEN 0 ELSE 1)
  /\ mutex' = NoCaller
  /\ UNCHANGED <<visible, onDisk, arg, got, incidents>>

\* A step of saveJSON fails: the temporary file is removed (the result of
\* os.Remove is ignored) and the old file stays.
SaveFails(c) ==
  /\ pc[c] \in {"create", "write", "sync", "rename"}
  /\ pc' = [pc EXCEPT ![c] = "failed"]
  /\ temp' = [temp EXCEPT ![c] = "none"]
  /\ mutex' = NoCaller
  /\ \/ UNCHANGED <<orphans, incidents>>
     \/ /\ temp[c] # "none" /\ incidents < MaxIncidents
        /\ incidents' = incidents + 1
        /\ orphans' = orphans + 1
  /\ UNCHANGED <<visible, onDisk, arg, got>>

\* os.ReadFile and json.Unmarshal; a missing file is the zero state.
ReadFile(c) ==
  /\ visible # Torn
  /\ Goto(c, "read", "loaded")
  /\ got' = [got EXCEPT ![c] = visible]
  /\ mutex' = NoCaller
  /\ UNCHANGED <<visible, onDisk, arg, temp, orphans, incidents>>

\* The read fails, or finds a document it cannot decode.
LoadFails(c) ==
  /\ Goto(c, "read", "failed")
  /\ mutex' = NoCaller
  /\ UNCHANGED <<visible, onDisk, arg, temp, got, orphans, incidents>>

-----------------------------------------------------------------------------
\* The kernel writes the directory entry back.
WriteBack ==
  /\ onDisk # {visible} /\ visible # Torn
  /\ onDisk' = {visible}
  /\ UNCHANGED <<visible, mutex, pc, arg, temp, got, orphans, incidents>>

\* Every goroutine is gone; its temporary file is never removed.
Restart ==
  /\ incidents < MaxIncidents
  /\ incidents' = incidents + 1
  /\ mutex' = NoCaller
  /\ pc' = [c \in Callers |-> "idle"]
  /\ arg' = [c \in Callers |-> Zero]
  /\ temp' = [c \in Callers |-> "none"]
  /\ got' = [c \in Callers |-> Zero]
  /\ orphans' = orphans + Cardinality({c \in Callers : temp[c] # "none"})

\* The process is killed: the files stay as readers saw them.
Kill == Restart /\ UNCHANGED <<visible, onDisk>>

\* Power is lost: the file is one of the contents the disk may hold.
PowerLoss ==
  /\ Restart
  /\ visible' \in onDisk
  /\ onDisk' = {visible'}

Call(c) ==
  \/ \E v \in Values : CallSave(c, v)
  \/ CallLoad(c) \/ Lock(c)
  \/ CreateTemp(c) \/ WriteTemp(c) \/ SyncTemp(c) \/ Rename(c) \/ SaveFails(c)
  \/ ReadFile(c) \/ LoadFails(c)

Next == (\E c \in Callers : Call(c)) \/ WriteBack \/ Kill \/ PowerLoss

Spec == Init /\ [][Next]_vars

-----------------------------------------------------------------------------
(* Properties.                                                             *)

\* Whatever step of saveJSON a kill or a power loss interrupts, the file is a
\* whole document, so the next process can always load it.
NeverTorn == visible # Torn /\ Torn \notin onDisk

\* Temporary files stay in the state directory only after a crash or a failed
\* removal, one for each: the lock admits one temporary file at a time and every
\* error path removes it.
OrphansFromIncidents == orphans <= incidents

\* What a caller is doing, in the register's terms.
StatusOf(p) ==
  CASE p \in {"lockSave", "create", "write", "sync", "rename"} -> "saving"
    [] p \in {"lockLoad", "read"} -> "loading"
    [] OTHER -> p

callStatus == [c \in Callers |-> StatusOf(pc[c])]

Register ==
  INSTANCE AtomicStore WITH
    register <- visible, kept <- onDisk, status <- callStatus, want <- arg, got <- got

\* The store is an atomic register for its callers: across concurrent calls,
\* failed system calls and kills, a save takes effect at the rename or never;
\* a power loss may take back only saves whose rename had not reached the disk.
AtomicRegister == Register!Spec
=============================================================================
