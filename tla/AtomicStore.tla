----------------------------- MODULE AtomicStore -----------------------------
(***************************************************************************)
(* What the state store promises its callers: a register that survives     *)
(* crashes.  A save takes effect at one instant or not at all, its caller  *)
(* is told of success only after it took effect, and a load returns the    *)
(* register's value at some instant of the call.  Losing power may undo    *)
(* saves that were not yet settled, but leaves a value that was saved.     *)
(***************************************************************************)
CONSTANTS
  Callers,  \* goroutines that use the store
  Values,   \* plant states
  Zero      \* the zero state that a missing file stands for

VARIABLES
  register,  \* the stored value
  kept,      \* the values that a loss of power may leave
  status,    \* what each caller is doing
  want,      \* the value each caller saves
  got        \* the value each caller's last load returned

vars == <<register, kept, status, want, got>>

Statuses == {"idle", "saving", "saved", "failed", "loading", "loaded"}

TypeOK ==
  /\ register \in Values \cup {Zero}
  /\ kept \subseteq Values \cup {Zero}
  /\ status \in [Callers -> Statuses]
  /\ want \in [Callers -> Values \cup {Zero}]
  /\ got \in [Callers -> Values \cup {Zero}]

Init ==
  /\ register = Zero
  /\ kept = {Zero}
  /\ status = [c \in Callers |-> "idle"]
  /\ want = [c \in Callers |-> Zero]
  /\ got = [c \in Callers |-> Zero]

Free(c) == status[c] \in {"idle", "saved", "failed", "loaded"}

CallSave(c, v) ==
  /\ Free(c)
  /\ status' = [status EXCEPT ![c] = "saving"]
  /\ want' = [want EXCEPT ![c] = v]
  /\ UNCHANGED <<register, kept, got>>

\* The save takes effect.
Replace(c) ==
  /\ status[c] = "saving"
  /\ status' = [status EXCEPT ![c] = "saved"]
  /\ register' = want[c]
  /\ kept' = kept \cup {want[c]}
  /\ UNCHANGED <<want, got>>

CallLoad(c) ==
  /\ Free(c)
  /\ status' = [status EXCEPT ![c] = "loading"]
  /\ UNCHANGED <<register, kept, want, got>>

\* The load takes effect.
Fetch(c) ==
  /\ status[c] = "loading"
  /\ status' = [status EXCEPT ![c] = "loaded"]
  /\ got' = [got EXCEPT ![c] = register]
  /\ UNCHANGED <<register, kept, want>>

\* A call fails and changes nothing.
Fail(c) ==
  /\ status[c] \in {"saving", "loading"}
  /\ status' = [status EXCEPT ![c] = "failed"]
  /\ UNCHANGED <<register, kept, want, got>>

\* The stored value is safe from now on.
Settle ==
  /\ kept' = {register}
  /\ UNCHANGED <<register, status, want, got>>

Forget ==
  /\ status' = [c \in Callers |-> "idle"]
  /\ want' = [c \in Callers |-> Zero]
  /\ got' = [c \in Callers |-> Zero]

\* The process dies and starts again; calls are forgotten, the value is not.
Crash == Forget /\ UNCHANGED <<register, kept>>

\* Power is lost.
Blackout == Forget /\ register' \in kept /\ kept' = {register'}

Next ==
  \/ \E c \in Callers :
       \/ \E v \in Values : CallSave(c, v)
       \/ Replace(c) \/ CallLoad(c) \/ Fetch(c) \/ Fail(c)
  \/ Settle \/ Crash \/ Blackout

Spec == Init /\ [][Next]_vars
=============================================================================
