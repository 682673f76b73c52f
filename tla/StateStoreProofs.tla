-------------------------- MODULE StateStoreProofs ---------------------------
(***************************************************************************)
(* Proofs about StateStore for every set of callers and values.            *)
(***************************************************************************)
EXTENDS StateStore, FiniteSetTheorems, TLAPS

(***************************************************************************)
(* The inductive invariant.  A file that is about to be renamed has been   *)
(* synced: without this part Rename could put a torn file in place.        *)
(***************************************************************************)
RenamesSynced == \A c \in Callers : pc[c] = "rename" => temp[c] = "synced"

StoreInv ==
  /\ visible \in Whole
  /\ onDisk \subseteq Whole
  /\ pc \in [Callers -> PCs]
  /\ arg \in [Callers -> Whole]
  /\ got \in [Callers -> Whole]
  /\ temp \in [Callers -> {"none", "empty", "written", "synced"}]
  /\ RenamesSynced

\* A caller keeps it, inside saveJSON and loadJSON and when one of them fails:
\* only SyncTemp leads to the rename, and only Rename replaces the file.
LEMMA CallerKeepsStore ==
  ASSUME StoreInv, NEW c \in Callers, Call(c)
  PROVE  StoreInv'
<1> USE DEF StoreInv, RenamesSynced, PCs, Locked, Whole, Goto
<1>1. ASSUME NEW v \in Values, CallSave(c, v) PROVE StoreInv'
  BY <1>1 DEF CallSave
<1>2. CASE CallLoad(c) \/ Lock(c)
  BY <1>2 DEF CallLoad, Lock
<1>3. CASE CreateTemp(c) \/ WriteTemp(c)
  BY <1>3 DEF CreateTemp, WriteTemp
<1>4. CASE SyncTemp(c)
  BY <1>4 DEF SyncTemp
<1>5. CASE Rename(c)
  BY <1>5 DEF Rename
<1>6. CASE ReadFile(c)
  BY <1>6 DEF ReadFile
<1>7. CASE SaveFails(c) \/ LoadFails(c)
  BY <1>7 DEF SaveFails, LoadFails
<1>8. QED
  BY <1>1, <1>2, <1>3, <1>4, <1>5, <1>6, <1>7 DEF Call

\* So do the page cache and everything that stops the callers: after a restart
\* nobody is about to rename, and a power loss leaves a document that was on disk.
LEMMA SystemKeepsStore ==
  ASSUME StoreInv, WriteBack \/ Kill \/ PowerLoss
  PROVE  StoreInv'
<1> USE DEF StoreInv, RenamesSynced, PCs, Locked, Whole
<1>1. CASE WriteBack
  BY <1>1 DEF WriteBack
<1>2. ASSUME Restart
      PROVE  /\ pc' \in [Callers -> PCs] /\ temp' \in [Callers -> {"none"}]
             /\ arg' \in [Callers -> Whole] /\ got' \in [Callers -> Whole]
             /\ RenamesSynced'
  BY <1>2 DEF Restart
<1>3. CASE Kill \/ PowerLoss
  <2>1. visible' \in Whole /\ onDisk' \subseteq Whole /\ Restart
    BY <1>3 DEF Kill, PowerLoss
  <2>2. QED
    BY <1>2, <2>1
<1>4. QED
  BY <1>1, <1>3

\* The invariant holds of calls, kills and power losses.
LEMMA StoreInvariant == Spec => []StoreInv
<1>1. Init => StoreInv
  BY DEF Init, StoreInv, RenamesSynced, PCs, Locked, Whole
<1>2. ASSUME StoreInv, [Next]_vars PROVE StoreInv'
  <2>1. CASE Next
    BY <1>2, <2>1, CallerKeepsStore, SystemKeepsStore DEF Next
  <2>2. CASE vars' = vars
    BY <1>2, <2>2 DEF vars, StoreInv, RenamesSynced
  <2>3. QED
    BY <1>2, <2>1, <2>2
<1>3. QED
  BY <1>1, <1>2, PTL DEF Spec

\* Whatever step of saveJSON a kill or a power loss interrupts, the state file is
\* a whole document.
THEOREM FileAlwaysWhole == Spec => []NeverTorn
<1>1. StoreInv => NeverTorn
  BY StoreAssumption DEF StoreInv, Whole, NeverTorn
<1>2. QED
  BY <1>1, StoreInvariant, PTL

-----------------------------------------------------------------------------
\* A step of one caller maps to a step of the register or to no step.
LEMMA CallRefines ==
  ASSUME StoreInv, NEW c \in Callers, Call(c)
  PROVE  [Register!Next]_(Register!vars)
<1> USE DEF StoreInv
<1>1. ASSUME NEW to, pc' = [pc EXCEPT ![c] = to]
      PROVE  callStatus' = [callStatus EXCEPT ![c] = StatusOf(to)]
  BY <1>1 DEF callStatus
<1>2. callStatus[c] = StatusOf(pc[c])
  BY DEF callStatus
<1>3. Free(c) => Register!Free(c)
  BY <1>2 DEF Free, Register!Free, StatusOf
<1>4. ASSUME callStatus' = callStatus, UNCHANGED <<visible, onDisk, arg, got>>
      PROVE  UNCHANGED Register!vars
  BY <1>4 DEF Register!vars
<1>5. ASSUME NEW to, pc' = [pc EXCEPT ![c] = to], StatusOf(to) = StatusOf(pc[c])
      PROVE  callStatus' = callStatus
  BY <1>5 DEF callStatus
<1>6. ASSUME NEW v \in Values, CallSave(c, v) PROVE Register!CallSave(c, v)
  BY <1>1, <1>3, <1>6 DEF CallSave, Register!CallSave, StatusOf
<1>7. CASE CallLoad(c)
  <2>1. Register!CallLoad(c)
    BY <1>1, <1>3, <1>7 DEF CallLoad, Register!CallLoad, StatusOf
  <2>2. QED
    BY <2>1 DEF Register!Next
<1>8. CASE Lock(c)
  <2>1. callStatus' = callStatus
    BY <1>5, <1>8 DEF Lock, Goto, StatusOf
  <2>2. QED
    BY <1>4, <1>8, <2>1 DEF Lock
<1>9. CASE CreateTemp(c) \/ WriteTemp(c) \/ SyncTemp(c)
  <2>1. callStatus' = callStatus
    BY <1>5, <1>9 DEF CreateTemp, WriteTemp, SyncTemp, Goto, StatusOf
  <2>2. QED
    BY <1>4, <1>9, <2>1 DEF CreateTemp, WriteTemp, SyncTemp
<1>10. CASE Rename(c)
  <2>1. Register!Replace(c)
    BY <1>1, <1>2, <1>10 DEF Rename, Goto, Register!Replace, StatusOf, RenamesSynced
  <2>2. QED
    BY <2>1 DEF Register!Next
<1>11. CASE ReadFile(c)
  <2>1. Register!Fetch(c)
    BY <1>1, <1>2, <1>11 DEF ReadFile, Goto, Register!Fetch, StatusOf
  <2>2. QED
    BY <2>1 DEF Register!Next
<1>12. CASE SaveFails(c) \/ LoadFails(c)
  <2>1. Register!Fail(c)
    BY <1>1, <1>2, <1>12 DEF SaveFails, LoadFails, Goto, Register!Fail, StatusOf
  <2>2. QED
    BY <2>1 DEF Register!Next
<1>13. QED
  BY <1>6, <1>7, <1>8, <1>9, <1>10, <1>11, <1>12 DEF Call, Register!Next

\* The store implements the crash-safe atomic register: a caller told of success
\* finds its value, a failed or killed save changes nothing or takes effect whole,
\* and a power loss leaves the last settled value or one saved after it.
THEOREM StoreIsAtomic == Spec => AtomicRegister
<1>1. Init => Register!Init
  BY DEF Init, Register!Init, callStatus, StatusOf
<1>2. StoreInv /\ [Next]_vars => [Register!Next]_(Register!vars)
  <2> SUFFICES ASSUME StoreInv, [Next]_vars
               PROVE  [Register!Next]_(Register!vars)
    OBVIOUS
  <2>1. CASE \E c \in Callers : Call(c)
    BY <2>1, CallRefines
  <2>2. CASE WriteBack
    <3>1. Register!Settle
      BY <2>2 DEF WriteBack, Register!Settle, callStatus
    <3>2. QED
      BY <3>1 DEF Register!Next
  <2>3. ASSUME Restart PROVE Register!Forget
    <3>1. callStatus' = [c \in Callers |-> "idle"]
      BY <2>3 DEF Restart, callStatus, StatusOf
    <3>2. QED
      BY <2>3, <3>1 DEF Restart, Register!Forget
  <2>4. CASE Kill
    <3>1. Register!Crash
      BY <2>3, <2>4 DEF Kill, Register!Crash
    <3>2. QED
      BY <3>1 DEF Register!Next
  <2>5. CASE PowerLoss
    <3>1. Register!Blackout
      BY <2>3, <2>5 DEF PowerLoss, Register!Blackout
    <3>2. QED
      BY <3>1 DEF Register!Next
  <2>6. CASE UNCHANGED vars
    BY <2>6 DEF vars, Register!vars, callStatus
  <2>7. QED
    BY <2>1, <2>2, <2>4, <2>5, <2>6 DEF Next
<1>3. QED
  BY <1>1, <1>2, StoreInvariant, PTL DEF Spec, AtomicRegister, Register!Spec

-----------------------------------------------------------------------------
(***************************************************************************)
(* The files that saves leave behind.  A temporary file exists only while  *)
(* its caller holds the file's lock, so a restart finds at most one, and   *)
(* leaves at most one more behind for its one incident.                    *)
(***************************************************************************)
LockHeld == \A c \in Callers : pc[c] \in Locked => mutex = c

TempUnderLock ==
  \A c \in Callers : temp[c] # "none" => pc[c] \in {"write", "sync", "rename"}

Counted == orphans \in Nat /\ incidents \in Nat /\ orphans <= incidents

FilesInv == LockHeld /\ TempUnderLock /\ Counted

Temporaries == {c \in Callers : temp[c] # "none"}

\* The lock admits one temporary file at a time.
LEMMA OneTemporary ==
  ASSUME LockHeld, TempUnderLock
  PROVE  Cardinality(Temporaries) \in {0, 1}
<1>1. \A c, d \in Temporaries : c = d
  BY DEF Temporaries, LockHeld, TempUnderLock, Locked
<1>2. CASE Temporaries = {}
  BY <1>2, FS_EmptySet
<1>3. CASE Temporaries # {}
  <2> PICK c \in Temporaries : Temporaries = {c}
    BY <1>1, <1>3
  <2> QED
    BY FS_Singleton
<1>4. QED
  BY <1>2, <1>3

\* Every error path removes its file or counts as an incident.
LEMMA FilesStep ==
  ASSUME StoreInv, FilesInv, [Next]_vars PROVE FilesInv'
<1> USE StoreAssumption DEF StoreInv, FilesInv, LockHeld, TempUnderLock, Counted,
        Locked
<1>1. ASSUME NEW c \in Callers, Call(c) PROVE FilesInv'
  <2> USE DEF Goto, Free
  <2>1. ASSUME NEW v \in Values, CallSave(c, v) PROVE FilesInv'
    BY <2>1 DEF CallSave
  <2>2. CASE CallLoad(c)
    BY <2>2 DEF CallLoad
  <2>3. CASE Lock(c)
    BY <2>3 DEF Lock
  <2>4. CASE CreateTemp(c)
    BY <2>4 DEF CreateTemp
  <2>5. CASE WriteTemp(c)
    BY <2>5 DEF WriteTemp
  <2>6. CASE SyncTemp(c)
    BY <2>6 DEF SyncTemp
  <2>7. CASE Rename(c)
    BY <2>7 DEF Rename
  <2>8. CASE SaveFails(c)
    BY <2>8 DEF SaveFails
  <2>9. CASE ReadFile(c)
    BY <2>9 DEF ReadFile
  <2>10. CASE LoadFails(c)
    BY <2>10 DEF LoadFails
  <2>11. QED
    BY <1>1, <2>1, <2>2, <2>3, <2>4, <2>5, <2>6, <2>7, <2>8, <2>9, <2>10 DEF Call
<1>2. CASE WriteBack
  BY <1>2 DEF WriteBack
<1>3. CASE Kill \/ PowerLoss
  <2>1. Restart
    BY <1>3 DEF Kill, PowerLoss
  <2>2. orphans' = orphans + Cardinality(Temporaries)
    BY <2>1 DEF Restart, Temporaries
  <2>3. Counted'
    BY <2>1, <2>2, OneTemporary DEF Restart
  <2>4. LockHeld' /\ TempUnderLock'
    BY <2>1 DEF Restart
  <2>5. QED
    BY <2>3, <2>4
<1>4. CASE UNCHANGED vars
  BY <1>4 DEF vars
<1>5. QED
  BY <1>1, <1>2, <1>3, <1>4 DEF Next

\* Temporary files pile up in the state directory only with crashes and failed
\* removals, at most one for each.
THEOREM OrphansCounted == Spec => []OrphansFromIncidents
<1>1. Init => FilesInv
  BY DEF Init, FilesInv, LockHeld, TempUnderLock, Counted, Locked
<1>2. StoreInv /\ FilesInv /\ [Next]_vars => FilesInv'
  BY FilesStep
<1>3. FilesInv => OrphansFromIncidents
  BY DEF FilesInv, Counted, OrphansFromIncidents
<1>4. QED
  BY <1>1, <1>2, <1>3, StoreInvariant, PTL DEF Spec
=============================================================================
