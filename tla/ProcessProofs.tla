---------------------------- MODULE ProcessProofs ----------------------------
(***************************************************************************)
(* Proofs about the commands of Process.  The run command: across signals, *)
(* service stops, hangs, forced exits and restarts, for every set of       *)
(* plants and levels.  The discover command: for every size of subnet, any *)
(* number of goroutines and every set of dongles that answer.              *)
(***************************************************************************)
EXTENDS Process, FiniteSetTheorems, SequenceTheorems, WellFoundedInduction, TLAPS

(***************************************************************************)
(* The log level.  The controller's mutex admits one change at a time, a   *)
(* change is under way only if remote levels count and in a process with   *)
(* a controller, and what is saved and what is in force differ only        *)
(* between the two halves of a change.                                     *)
(***************************************************************************)
Before == {"config", "logger", "supervisor"}

LevelTypes ==
  /\ at \in [Plants -> {"idle", "save", "apply"}]
  /\ want \in [Plants -> Levels \cup {""}]
  /\ worker \in [Plants -> {"none", "running", "ok", "error"}]
  /\ ignoreRemote \in BOOLEAN

OneChange ==
  /\ \A p, q \in Plants : at[p] # "idle" /\ at[q] # "idle" => p = q
  /\ \A p \in Plants : at[p] # "idle" => want[p] \in Levels /\ ~ignoreRemote

Untouched ==
  step \in Before =>
    /\ live = "local"
    /\ \A p \in Plants : at[p] = "idle" /\ worker[p] = "none"

InForce == IF ignoreRemote \/ saved = "" THEN "local" ELSE saved

Applied ==
  step \notin Before \cup {"end"} =>
    \/ persisted = saved /\ live = InForce
    \/ \E p \in Plants : at[p] = "apply"

HalfDone == \A p \in Plants : at[p] = "apply" => saved = want[p]

LevelInv == LevelTypes /\ OneChange /\ Untouched /\ Applied /\ HalfDone

(***************************************************************************)
(* The way out.  What the bridge has opened and started at each step of    *)
(* runApplication, and what that means for the exit code.                  *)
(***************************************************************************)
Serving == {"start", "wait", "join", "close"}

NotStarted == ahead = Plants /\ \A p \in Plants : worker[p] = "none"

NobodyRuns == \A p \in Plants : worker[p] # "running"

RunTypes ==
  /\ eligible \subseteq Plants /\ ahead \subseteq Plants
  /\ step \in Before \cup Serving \cup {"end"}
  /\ worker \in [Plants -> {"none", "running", "ok", "error"}]
  /\ returned \in {"no", "ok", "error"}

Placed ==
  /\ step \in Before => NotStarted
  /\ step \in {"config", "logger"} => ~logOpen
  /\ step \in {"wait", "join", "close"} => ahead = {}
  /\ step \in {"join", "close"} => ctx
  /\ step = "close" => NobodyRuns
  /\ \A p \in eligible : worker[p] = "none" => p \in ahead
  /\ step = "end" =>
       /\ ~logOpen
       /\ \/ NotStarted /\ returned = "error"
          \/ ahead = {} /\ ctx /\ NobodyRuns

Reported ==
  /\ returned # "no" => step = "end"
  /\ returned = "ok" => ahead = {} /\ ctx /\ \A p \in Plants : worker[p] # "error"

Exited ==
  /\ exit \in {"ok", "failed"} => returned # "no"
  /\ exit = "ok" => returned = "ok"

RunInv == command = "run" => RunTypes /\ Placed /\ Reported /\ Exited

-----------------------------------------------------------------------------
\* Signals, the service manager and discovery have no hand in the log level or in
\* what the bridge has started.
LEMMA OthersKeep ==
  ASSUME [Next]_vars
  PROVE  Run!Step \/ Run!Requested \/ Restart \/ UNCHANGED runVars
<1> USE DEF runVars, commandVars
<1>1. CASE ExecuteCommand
  BY <1>1 DEF ExecuteCommand, RunSteps, DiscoverSteps
<1>2. CASE Incoming
  BY <1>2 DEF Incoming
<1>3. CASE Hang \/ Signal \/ Watch \/ Leave \/ ServiceStop
  BY <1>3 DEF Hang, Signal, Watch, FirstSignal, SecondSignal, Leave, MainReturns,
     ServiceReturns, ServiceStop
<1>4. CASE Restart
  BY <1>4
<1>5. CASE Over \/ UNCHANGED vars
  BY <1>5 DEF Over, vars
<1>6. QED
  BY <1>1, <1>2, <1>3, <1>4, <1>5 DEF Next

\* A change of the level by one plant's request keeps the level's invariant.
LEMMA ChangeKeeps ==
  ASSUME LevelInv, NEW p \in Plants, worker[p] # "none",
         Run!ApplyCloudLevel(p), UNCHANGED <<step, worker>>
  PROVE  LevelInv'
<1> USE LevelsAssumption DEF LevelInv, LevelTypes, OneChange, Untouched, Applied, HalfDone,
        InForce, Before
<1>1. ASSUME NEW level \in Levels, Run!Enter(p, level) PROVE LevelInv'
  BY <1>1 DEF Run!Enter
<1>2. CASE Run!SaveLevel(p)
  BY <1>2 DEF Run!SaveLevel
<1>3. CASE Run!SaveLevelFails(p)
  BY <1>3 DEF Run!SaveLevelFails
<1>4. CASE Run!ApplyLevel(p)
  <2>1. /\ want[p] \in Levels /\ saved = want[p] /\ ~ignoreRemote
        /\ live' = saved /\ persisted' = saved
        /\ at' = [at EXCEPT ![p] = "idle"]
        /\ UNCHANGED <<saved, ignoreRemote, want>>
    BY <1>4 DEF Run!ApplyLevel
  <2>2. LevelTypes' /\ OneChange' /\ HalfDone'
    BY <2>1
  <2>3. Applied' /\ Untouched'
    <3>1. saved # ""
      BY <2>1
    <3>2. QED
      BY <2>1, <3>1
  <2>4. QED
    BY <2>2, <2>3
<1>5. QED
  BY <1>1, <1>2, <1>3, <1>4 DEF Run!ApplyCloudLevel

\* The invariant of the log level is inductive.
LEMMA LevelStep == LevelInv /\ [Next]_vars => LevelInv'
<1> SUFFICES ASSUME LevelInv, [Next]_vars PROVE LevelInv'
  OBVIOUS
<1> USE DEF LevelInv, LevelTypes, OneChange, Untouched, Applied, HalfDone, InForce,
        Before, runVars, Run!levelVars
<1>1. CASE Run!Step
  <2>1. CASE Run!NewSupervisor
    BY <2>1 DEF Run!NewSupervisor, Run!Restore
  <2>2. ASSUME NEW p \in Plants, Run!StartPlant(p) \/ Run!WorkerReturns(p)
        PROVE  LevelInv'
    <3>1. UNCHANGED <<saved, live, persisted, ignoreRemote, at, want, step>>
      BY <2>2 DEF Run!StartPlant, Run!WorkerReturns
    <3>2. /\ step \notin Before
          /\ worker' \in [Plants -> {"none", "running", "ok", "error"}]
      BY <2>2 DEF Run!StartPlant, Run!WorkerReturns
    <3>3. QED
      BY <3>1, <3>2
  <2>3. CASE Run!StartFails \/ Run!LoadConfig \/ Run!OpenLog \/ Run!NewSupervisorFails
    BY <2>3 DEF Run!StartFails, Run!LoadConfig, Run!OpenLog, Run!NewSupervisorFails
  <2>4. CASE Run!Started \/ Run!AwaitStop \/ Run!Join \/ Run!CloseLog
    <3>1. UNCHANGED <<saved, live, persisted, ignoreRemote, at, want, worker>>
      BY <2>4 DEF Run!Started, Run!AwaitStop, Run!Join, Run!CloseLog
    <3>2. step \notin Before \cup {"end"} /\ step' \notin Before
      BY <2>4 DEF Run!Started, Run!AwaitStop, Run!Join, Run!CloseLog
    <3>3. QED
      BY <3>1, <3>2
  <2>5. QED
    BY <1>1, <2>1, <2>2, <2>3, <2>4 DEF Run!Step
<1>2. CASE Run!Requested
  BY <1>2, ChangeKeeps DEF Run!Requested, Run!serviceVars
<1>3. CASE Restart
  BY <1>3 DEF Restart, Run!Start, Run!LevelStart
<1>4. CASE UNCHANGED runVars
  BY <1>4
<1>5. QED
  BY <1>1, <1>2, <1>3, <1>4, OthersKeep

\* Outside a change the level in force is the one a restart would restore, in
\* debug mode the local one: neither two plants' requests nor failed saves nor an
\* exit between saving and applying can part them.
THEOREM LevelConsistent == Spec => []LiveMatchesSaved
<1>1. Init => LevelInv
  BY DEF Init, Run!Init, Run!LevelInit, Run!ServiceInit, LevelInv, LevelTypes,
     OneChange, Untouched, Applied, HalfDone, Before
<1>2. LevelInv => LiveMatchesSaved
  BY DEF LevelInv, Applied, Before, InForce, LiveMatchesSaved, Run!LiveMatchesSaved
<1>3. QED
  BY <1>1, <1>2, LevelStep, PTL DEF Spec

-----------------------------------------------------------------------------
\* The steps of runApplication and Supervisor.Run.
LEMMA RunStep ==
  ASSUME RunTypes, Placed, Reported, returned = "no", Run!Step
  PROVE  (RunTypes /\ Placed /\ Reported)'
<1> USE DEF RunTypes, Placed, Reported, NotStarted, NobodyRuns, Before, Serving
<1>1. CASE Run!StartFails \/ Run!LoadConfig \/ Run!OpenLog
  BY <1>1 DEF Run!StartFails, Run!LoadConfig, Run!OpenLog
<1>2. CASE Run!NewSupervisor \/ Run!NewSupervisorFails
  BY <1>2 DEF Run!NewSupervisor, Run!NewSupervisorFails
<1>3. ASSUME NEW p \in Plants, Run!StartPlant(p)
      PROVE  (RunTypes /\ Placed /\ Reported)'
  BY <1>3 DEF Run!StartPlant
<1>4. ASSUME NEW p \in Plants, Run!WorkerReturns(p)
      PROVE  (RunTypes /\ Placed /\ Reported)'
  BY <1>4 DEF Run!WorkerReturns
<1>5. CASE Run!Started \/ Run!AwaitStop \/ Run!Join
  BY <1>5 DEF Run!Started, Run!AwaitStop, Run!Join
<1>6. CASE Run!CloseLog
  BY <1>6 DEF Run!CloseLog, Run!RunResult, Run!Failed
<1>7. QED
  BY <1>1, <1>2, <1>3, <1>4, <1>5, <1>6 DEF Run!Step

\* The invariant of the way out is inductive.
LEMMA ExitStep == RunInv /\ [Next]_vars => RunInv'
<1> SUFFICES ASSUME RunInv, [Next]_vars, command' = "run" PROVE RunInv'
  BY DEF RunInv
<1>1. command = "run"
  BY DEF Next, ExecuteCommand, Incoming, Hang, Signal, Watch, FirstSignal,
     SecondSignal, Leave, MainReturns, ServiceReturns, ServiceStop, Restart, Over, vars
<1> USE <1>1 DEF RunInv
<1>2. CASE ExecuteCommand
  <2>1. (RunTypes /\ Placed /\ Reported)'
    BY <1>2, RunStep DEF ExecuteCommand, RunSteps
  <2>2. Exited'
    BY <1>2 DEF ExecuteCommand, Alive, Exited
  <2>3. QED
    BY <2>1, <2>2
<1> USE DEF RunTypes, Placed, Reported, Exited, NotStarted, NobodyRuns, runVars,
        commandVars, Alive
<1>3. CASE Incoming
  BY <1>3 DEF Incoming, Run!Requested, Run!serviceVars
<1>4. CASE Hang \/ Signal
  BY <1>4 DEF Hang, Signal
<1>5. CASE FirstSignal \/ ServiceStop
  BY <1>5 DEF FirstSignal, ServiceStop
<1>6. CASE SecondSignal
  BY <1>6 DEF SecondSignal
<1>7. CASE MainReturns \/ ServiceReturns
  BY <1>7 DEF MainReturns, ServiceReturns
<1>8. CASE Restart
  BY <1>8 DEF Restart, Run!Start, Before, Serving
<1>9. CASE Over \/ UNCHANGED vars
  BY <1>9 DEF Over, vars
<1>10. QED
  BY <1>2, <1>3, <1>4, <1>5, <1>6, <1>7, <1>8, <1>9 DEF Next, Watch, Leave

\* Unless it is forced, the bridge exits only when every worker has returned and
\* the log is closed, only if stopped or unable to start, and with code 0 only
\* if no worker returned an error.
THEOREM ExitComplete == Spec => []LeavesNothingBehind
<1>1. Init => RunInv
  BY DEF Init, Run!Init, Run!ServiceInit, RunInv, RunTypes, Placed, Reported,
     Exited, NotStarted, Before, Serving
<1>2. RunInv => LeavesNothingBehind
  BY DEF RunInv, RunTypes, Placed, Reported, Exited, NotStarted, NobodyRuns,
     LeavesNothingBehind
<1>3. QED
  BY <1>1, <1>2, ExitStep, PTL DEF Spec

-----------------------------------------------------------------------------
(***************************************************************************)
(* The discover command.  First what its recursive functions compute, by   *)
(* induction in the form of a least counterexample.                        *)
(***************************************************************************)
Less == {p \in Nat \X Nat : p[1] < p[2]}

\* A set with 0 that is closed under successor has every natural number.
LEMMA SetInduction ==
  ASSUME NEW S, 0 \in S, \A n \in Nat : n \in S => n + 1 \in S
  PROVE  Nat \subseteq S
<1> SUFFICES ASSUME Nat \ S # {} PROVE FALSE
  OBVIOUS
<1>1. IsWellFoundedOn(Less, Nat) /\ Nat \ S \subseteq Nat
  BY NatLessThanWellFounded DEF OpToRel, Less
<1>2. PICK x \in Nat \ S : \A y \in Nat \ S : ~(<<y, x>> \in Less)
  BY <1>1, WFMin
<1>3. \A y \in Nat \ S : ~(y < x)
  BY <1>2 DEF Less
<1>4. x # 0 /\ x - 1 \in Nat /\ x - 1 < x
  OBVIOUS
<1>5. x - 1 \in S
  BY <1>3, <1>4
<1>6. QED
  BY <1>4, <1>5

\* A set of numbers that is not empty has a least one.
LEMMA LeastExists ==
  ASSUME NEW S, S \subseteq Nat, S # {}
  PROVE  \E x \in S : \A y \in S : x <= y
<1>1. IsWellFoundedOn(Less, Nat)
  BY NatLessThanWellFounded DEF OpToRel, Less
<1>2. PICK x \in S : \A y \in S : ~(<<y, x>> \in Less)
  BY <1>1, WFMin
<1>3. \A y \in S : ~(y < x) /\ y \in Nat
  BY <1>2 DEF Less
<1>4. \A y \in S : x <= y
  BY <1>3
<1>5. QED
  BY <1>4

\* The first n values of the sequence that starts with b and goes on by succ.
Prefixes(D, b, succ, n) ==
  {f \in [0..n -> D] : f[0] = b /\ \A i \in 0..n : i # n => f[i + 1] = succ[i][f[i]]}

\* The whole sequence.
Iterates(g, D, b, succ) ==
  g \in [Nat -> D] /\ g[0] = b /\ \A n \in Nat : g[n + 1] = succ[n][g[n]]

\* A sequence defined by its first value and a step function exists.
LEMMA Recursion ==
  ASSUME NEW D, NEW b \in D, NEW succ \in [Nat -> [D -> D]]
  PROVE  \E g : Iterates(g, D, b, succ)
<1> DEFINE P(n) == Prefixes(D, b, succ, n)
<1>1. \A n \in Nat : \E f : f \in P(n)
  <2> DEFINE S == {n \in Nat : \E f : f \in P(n)}
  <2>1. 0 \in S
    <3>1. [i \in 0..0 |-> b] \in P(0)
      BY DEF Prefixes
    <3>2. QED
      BY <3>1
  <2>2. ASSUME NEW n \in Nat, n \in S PROVE n + 1 \in S
    <3>1. PICK f : f \in P(n)
      BY <2>2
    <3> DEFINE h == [i \in 0..(n + 1) |-> IF i = n + 1 THEN succ[n][f[n]] ELSE f[i]]
    <3>2. f \in [0..n -> D] /\ f[0] = b
          /\ \A i \in 0..n : i # n => f[i + 1] = succ[i][f[i]]
      BY <3>1 DEF Prefixes
    <3>3. n \in 0..n /\ f[n] \in D /\ succ[n] \in [D -> D] /\ succ[n][f[n]] \in D
      BY <3>2
    <3>4. \A i \in 0..(n + 1) : i # n + 1 => i \in 0..n
      OBVIOUS
    <3>5. h \in [0..(n + 1) -> D]
      BY <3>2, <3>3, <3>4
    <3>6. h[0] = b
      BY <3>2
    <3>7. \A i \in 0..(n + 1) : i # n + 1 => h[i + 1] = succ[i][h[i]]
      <4> SUFFICES ASSUME NEW i \in 0..(n + 1), i # n + 1 PROVE h[i + 1] = succ[i][h[i]]
        OBVIOUS
      <4>1. i \in 0..n /\ i + 1 \in 0..(n + 1) /\ h[i] = f[i]
        BY <3>4
      <4>2. CASE i = n
        BY <4>1, <4>2
      <4>3. CASE i # n
        <5>1. i + 1 # n + 1 /\ h[i + 1] = f[i + 1]
          BY <4>1, <4>3
        <5>2. QED
          BY <4>1, <4>3, <5>1, <3>2
      <4>4. QED
        BY <4>2, <4>3
    <3>8. h \in P(n + 1)
      BY <3>5, <3>6, <3>7 DEF Prefixes
    <3>9. QED
      BY <3>8
  <2>3. Nat \subseteq S
    BY <2>1, <2>2, SetInduction
  <2>4. QED
    BY <2>3
<1>2. ASSUME NEW m \in Nat, NEW f \in P(m), NEW n \in Nat, NEW h \in P(n)
      PROVE  \A i \in Nat : i <= m /\ i <= n => f[i] = h[i]
  <2> DEFINE S == {i \in Nat : i <= m /\ i <= n => f[i] = h[i]}
  <2>0. /\ f[0] = b /\ \A i \in 0..m : i # m => f[i + 1] = succ[i][f[i]]
        /\ h[0] = b /\ \A i \in 0..n : i # n => h[i + 1] = succ[i][h[i]]
    BY <1>2 DEF Prefixes
  <2>1. 0 \in S
    BY <2>0
  <2>2. ASSUME NEW i \in Nat, i \in S PROVE i + 1 \in S
    <3> SUFFICES ASSUME i + 1 <= m, i + 1 <= n PROVE f[i + 1] = h[i + 1]
      OBVIOUS
    <3>1. i \in 0..m /\ i # m /\ i \in 0..n /\ i # n /\ i <= m /\ i <= n
      OBVIOUS
    <3>2. f[i] = h[i]
      BY <2>2, <3>1
    <3>3. QED
      BY <2>0, <3>1, <3>2
  <2>3. Nat \subseteq S
    BY <2>1, <2>2, SetInduction
  <2>4. QED
    BY <2>3
<1> DEFINE F(n) == CHOOSE f : f \in P(n)
           g == [n \in Nat |-> F(n)[n]]
<1>3. \A n \in Nat : F(n) \in P(n)
  BY <1>1
<1>4. \A n \in Nat : /\ F(n) \in [0..n -> D] /\ F(n)[0] = b
                     /\ \A i \in 0..n : i # n => F(n)[i + 1] = succ[i][F(n)[i]]
  BY <1>3 DEF Prefixes
<1> HIDE DEF F, P
<1>5. g \in [Nat -> D]
  <2>1. \A n \in Nat : F(n)[n] \in D
    <3> TAKE n \in Nat
    <3>1. n \in 0..n
      OBVIOUS
    <3>2. QED
      BY <1>4, <3>1
  <2>2. QED
    BY <2>1
<1>6. g[0] = b
  BY <1>4
<1>7. ASSUME NEW n \in Nat PROVE g[n + 1] = succ[n][g[n]]
  <2>1. n + 1 \in Nat /\ n \in 0..(n + 1) /\ n # n + 1 /\ n <= n /\ n <= n + 1
    OBVIOUS
  <2>2. F(n + 1)[n + 1] = succ[n][F(n + 1)[n]]
    BY <1>4, <2>1
  <2>3. F(n)[n] = F(n + 1)[n]
    BY <1>2, <1>3, <2>1
  <2>4. QED
    BY <2>1, <2>2, <2>3
<1>8. QED
  BY <1>5, <1>6, <1>7 DEF Iterates

\* addressCount doubles with every host bit.
LEMMA AddressCountDoubles ==
  /\ Discover!AddressCount[0] = 1
  /\ \A n \in Nat : /\ Discover!AddressCount[n] \in Nat \ {0}
                    /\ Discover!AddressCount[n + 1] = 2 * Discover!AddressCount[n]
<1> DEFINE D == Nat \ {0}
           one == 1
           double == [n \in Nat |-> [x \in D |-> 2 * x]]
<1>0. double \in [Nat -> [D -> D]]
  OBVIOUS
<1>1. one \in D
  OBVIOUS
<1> HIDE DEF D, one, double
<1>2. PICK g : Iterates(g, D, one, double)
  BY <1>0, <1>1, Recursion
<1> USE DEF D, one, double, Iterates
<1>3. \A n \in Nat : g[n] \in D /\ g[n + 1] = 2 * g[n]
  BY <1>2
<1>4. g = [n \in Nat |-> IF n = 0 THEN 1 ELSE 2 * g[n - 1]]
  <2>1. \A n \in Nat : g[n] = IF n = 0 THEN 1 ELSE 2 * g[n - 1]
    <3> SUFFICES ASSUME NEW n \in Nat, n # 0 PROVE g[n] = 2 * g[n - 1]
      BY <1>2
    <3>1. n - 1 \in Nat /\ (n - 1) + 1 = n
      OBVIOUS
    <3>2. QED
      BY <1>3, <3>1
  <2>2. QED
    BY <1>2, <2>1
<1> DEFINE f == Discover!AddressCount
<1>5. f = [n \in Nat |-> IF n = 0 THEN 1 ELSE 2 * f[n - 1]]
  BY <1>4 DEF Discover!AddressCount
<1> HIDE DEF f
<1>6. f[0] = 1 /\ \A n \in Nat : f[n + 1] = 2 * f[n]
  <2>1. f[0] = 1
    BY <1>5
  <2>2. ASSUME NEW n \in Nat PROVE f[n + 1] = 2 * f[n]
    <3>1. n + 1 \in Nat /\ n + 1 # 0 /\ (n + 1) - 1 = n
      OBVIOUS
    <3>2. QED
      BY <1>5, <3>1
  <2>3. QED
    BY <2>1, <2>2
<1>7. \A n \in Nat : f[n] \in D
  <2> DEFINE S == {n \in Nat : f[n] \in D}
  <2>1. 0 \in S
    BY <1>6
  <2>2. \A n \in Nat : n \in S => n + 1 \in S
    BY <1>6
  <2>3. Nat \subseteq S
    BY <2>1, <2>2, SetInduction
  <2>4. QED
    BY <2>3
<1>8. QED
  BY <1>6, <1>7 DEF f

\* The loop of forEachUsableIPv4 runs over the usable addresses, no more and no less.
LEMMA UsableRange ==
  ASSUME hostBits \in Nat
  PROVE  /\ Discover!FirstOffset \in Nat /\ Discover!EndOffset \in Nat
         /\ Discover!FirstOffset <= Discover!EndOffset
         /\ Discover!Usable = (Discover!FirstOffset + 1)..Discover!EndOffset
<1> DEFINE n == Discover!AddressCount[hostBits]
<1>1. n \in Nat \ {0} /\ Discover!Cardinality(1..n) = n
  <2>1. n \in Nat \ {0}
    BY AddressCountDoubles
  <2>2. Cardinality(1..n) = n
    BY <2>1, FS_Interval
  <2>3. QED
    BY <2>1, <2>2 DEF Discover!Cardinality, Cardinality
<1>2. CASE hostBits < 2
  <2>1. n <= 2
    <3>1. hostBits = 0 \/ hostBits = 0 + 1
      BY <1>2
    <3>2. QED
      BY <3>1, AddressCountDoubles
  <2>2. QED
    BY <1>1, <1>2, <2>1 DEF Discover!FirstOffset, Discover!EndOffset, Discover!Usable
<1>3. CASE hostBits >= 2
  <2>1. n > 2
    <3>1. hostBits - 2 \in Nat /\ hostBits = (hostBits - 2) + 1 + 1
      BY <1>3
    <3>2. PICK m \in Nat : hostBits = m + 1 + 1
      BY <3>1
    <3>3. n = 2 * Discover!AddressCount[m + 1] /\ m + 1 \in Nat
      BY <3>2, AddressCountDoubles
    <3>4. Discover!AddressCount[m + 1] = 2 * Discover!AddressCount[m]
          /\ Discover!AddressCount[m] \in Nat \ {0}
      BY <3>2, AddressCountDoubles
    <3>5. QED
      BY <3>3, <3>4
  <2>2. Discover!FirstOffset = 1 /\ Discover!EndOffset = n - 1
    BY <1>3 DEF Discover!FirstOffset, Discover!EndOffset
  <2>3. Discover!Usable =
          {a \in 1..n : (\E b \in 1..n : b < a) /\ (\E b \in 1..n : b > a)}
    BY <1>1, <2>1 DEF Discover!Usable
  <2> HIDE DEF n
  <2>4. \A a : a \in Discover!Usable <=> a \in 2..(n - 1)
    <3> TAKE a
    <3>1. ASSUME a \in 2..(n - 1) PROVE a \in Discover!Usable
      <4>1. a \in 1..n /\ 1 \in 1..n /\ n \in 1..n /\ 1 < a /\ n > a
        BY <1>1, <2>1, <3>1
      <4>2. QED
        BY <2>3, <4>1
    <3>2. ASSUME a \in Discover!Usable PROVE a \in 2..(n - 1)
      BY <1>1, <2>3, <3>2
    <3>3. QED
      BY <3>1, <3>2
  <2>5. Discover!Usable = 2..(n - 1)
    BY <2>4
  <2>6. QED
    BY <1>1, <2>1, <2>2, <2>5
<1>4. QED
  BY <1>2, <1>3

Rows == [ip : Nat, serial : Nat]

Ips(rows) == {rows[i].ip : i \in DOMAIN rows}

Distinct(rows) == \A i, j \in DOMAIN rows : rows[i].ip = rows[j].ip => i = j

Ascending(rows) == \A i, j \in DOMAIN rows : i < j => rows[i].ip < rows[j].ip

\* What the merge of one dongle does to the rows: a new row if none is the same
\* dongle, and otherwise one that is takes over what it lacks.
Appends(rows, d, result) ==
  /\ \A i \in DOMAIN rows : ~Discover!Same(rows[i], d)
  /\ result = Append(rows, d)

Fills(rows, d, result, i) ==
  /\ i \in DOMAIN rows /\ Discover!Same(rows[i], d)
  /\ result = [rows EXCEPT ![i] = Discover!Fill(rows[i], d)]

\* MergeDongle does one of the two.
LEMMA MergeOne ==
  ASSUME NEW rows \in Seq(Rows), NEW d \in Rows
  PROVE  /\ Discover!MergeDongle(rows, d) \in Seq(Rows)
         /\ \/ Appends(rows, d, Discover!MergeDongle(rows, d))
            \/ \E i : Fills(rows, d, Discover!MergeDongle(rows, d), i)
<1> DEFINE same == {i \in DOMAIN rows : Discover!Same(rows[i], d)}
<1>1. CASE same = {}
  <2>1. Discover!MergeDongle(rows, d) = Append(rows, d)
    BY <1>1 DEF Discover!MergeDongle
  <2>2. Append(rows, d) \in Seq(Rows)
    BY AppendProperties
  <2>3. \A i \in DOMAIN rows : ~Discover!Same(rows[i], d)
    BY <1>1
  <2>4. QED
    BY <2>1, <2>2, <2>3 DEF Appends
<1>2. CASE same # {}
  <2>1. same \subseteq Nat
    BY LenProperties
  <2>2. PICK x \in same : \A y \in same : x <= y
    BY <1>2, <2>1, LeastExists
  <2> DEFINE i == Discover!Min(same)
  <2>3. i \in same
    BY <2>2 DEF Discover!Min
  <2>4. Discover!MergeDongle(rows, d) = [rows EXCEPT ![i] = Discover!Fill(rows[i], d)]
    BY <1>2 DEF Discover!MergeDongle
  <2> HIDE DEF i
  <2>5. i \in DOMAIN rows /\ Discover!Same(rows[i], d)
    BY <2>3
  <2>6. i \in 1..Len(rows) /\ rows[i] \in Rows
    BY <2>5, ElementOfSeq, LenProperties
  <2>7. Discover!Fill(rows[i], d) \in Rows
    BY <2>6 DEF Discover!Fill, Rows
  <2>8. Discover!MergeDongle(rows, d) \in Seq(Rows)
    BY <2>4, <2>6, <2>7, ExceptSeq
  <2>9. Fills(rows, d, Discover!MergeDongle(rows, d), i)
    BY <2>4, <2>5 DEF Fills
  <2>10. QED
    BY <2>8, <2>9
<1>3. QED
  BY <1>1, <1>2

\* The rows after each dongle of the list.
Merges(f, rows, more) ==
  /\ f[0] = rows
  /\ \A n \in Nat : n <= Len(more) => f[n] \in Seq(Rows)
  /\ \A n \in Nat : n + 1 <= Len(more) =>
       f[n + 1] = Discover!MergeDongle(f[n], more[n + 1])

\* MergeDongles takes the list dongle by dongle.
LEMMA MergeSteps ==
  ASSUME NEW rows \in Seq(Rows), NEW more \in Seq(Rows)
  PROVE  \E f : Merges(f, rows, more) /\ Discover!MergeDongles(rows, more) = f[Len(more)]
<1> DEFINE D == Seq(Rows)
           last == Len(more)
           add == [n \in Nat |-> [r \in D |->
                     IF n + 1 <= last THEN Discover!MergeDongle(r, more[n + 1]) ELSE r]]
<1>0. last \in Nat /\ \A n \in Nat : n + 1 <= last => more[n + 1] \in Rows
  <2>1. last \in Nat
    BY LenProperties
  <2>2. ASSUME NEW n \in Nat, n + 1 <= last PROVE more[n + 1] \in Rows
    <3>1. n + 1 \in 1..Len(more)
      BY <2>1, <2>2
    <3>2. QED
      BY <3>1, ElementOfSeq
  <2>3. QED
    BY <2>1, <2>2
<1>1. add \in [Nat -> [D -> D]]
  <2>1. ASSUME NEW n \in Nat, NEW r \in D, n + 1 <= last
        PROVE  Discover!MergeDongle(r, more[n + 1]) \in D
    BY <1>0, <2>1, MergeOne
  <2>2. QED
    BY <2>1
<1>2. rows \in D
  OBVIOUS
<1> HIDE DEF D, add
<1>3. PICK h : Iterates(h, D, rows, add)
  BY <1>1, <1>2, Recursion
<1> DEFINE g == [n \in 0..last |-> h[n]]
           Eq(f) == f = [n \in 0..last |->
                           IF n = 0 THEN rows
                           ELSE Discover!MergeDongle(f[n - 1], more[n])]
<1>4. /\ h[0] = rows
      /\ \A n \in Nat : h[n] \in D
      /\ \A n \in Nat : n + 1 <= last => h[n + 1] = Discover!MergeDongle(h[n], more[n + 1])
  BY <1>3 DEF Iterates, add
<1>5. Eq(g)
  <2>1. ASSUME NEW n \in 0..last, n # 0
        PROVE  h[n] = Discover!MergeDongle(g[n - 1], more[n])
    <3>1. n - 1 \in Nat /\ n - 1 \in 0..last /\ (n - 1) + 1 = n /\ (n - 1) + 1 <= last
      BY <1>0, <2>1
    <3>2. h[(n - 1) + 1] = Discover!MergeDongle(h[n - 1], more[(n - 1) + 1])
      BY <1>4, <3>1
    <3>3. g[n - 1] = h[n - 1]
      BY <3>1
    <3>4. QED
      BY <3>1, <3>2, <3>3
  <2>2. QED
    BY <1>4, <2>1
<1> DEFINE m == CHOOSE f : Eq(f)
<1>6. Eq(m)
  BY <1>5
<1>7. Discover!MergeDongles(rows, more) = m[last]
  BY DEF Discover!MergeDongles
<1> HIDE DEF m, g
<1>8. /\ m[0] = rows
      /\ \A n \in Nat : n + 1 <= last => m[n + 1] = Discover!MergeDongle(m[n], more[n + 1])
  <2>1. m[0] = rows
    BY <1>0, <1>6
  <2>2. ASSUME NEW n \in Nat, n + 1 <= last
        PROVE  m[n + 1] = Discover!MergeDongle(m[n], more[n + 1])
    <3>1. n + 1 \in 0..last /\ n + 1 # 0 /\ (n + 1) - 1 = n
      BY <1>0, <2>2
    <3>2. QED
      BY <1>6, <3>1
  <2>3. QED
    BY <2>1, <2>2
<1>9. \A n \in Nat : n <= last => m[n] \in D
  <2> DEFINE S == {n \in Nat : n <= last => m[n] \in D}
  <2>1. 0 \in S
    BY <1>2, <1>8
  <2>2. ASSUME NEW n \in Nat, n \in S PROVE n + 1 \in S
    <3> SUFFICES ASSUME n + 1 <= last PROVE m[n + 1] \in D
      OBVIOUS
    <3>1. m[n] \in Seq(Rows)
      BY <1>0, <2>2 DEF D
    <3>2. QED
      BY <1>0, <1>8, <3>1, MergeOne DEF D
  <2>3. Nat \subseteq S
    BY <2>1, <2>2, SetInduction
  <2>4. QED
    BY <2>3
<1>10. Merges(m, rows, more)
  BY <1>8, <1>9 DEF Merges, D
<1>11. QED
  BY <1>7, <1>10

Stands(row, d) == Discover!Stands(row, d)

\* Some row stands for the dongle; every row stands for one of the dongles.
StandsIn(rows, d) == \E i \in DOMAIN rows : Stands(rows[i], d)
Backed(rows, some) == \A i \in DOMAIN rows : \E d \in some : Stands(rows[i], d)

\* Every row has an address and a serial number; no two rows share either.
Full(rows) == \A i \in DOMAIN rows : rows[i].ip # 0 /\ rows[i].serial # 0
OneRow(rows) ==
  \A i, j \in DOMAIN rows :
    Discover!SameIp(rows[i], rows[j]) \/ Discover!SameSerial(rows[i], rows[j]) => i = j

\* A dongle without a serial number is the last of its address.
Separate(more) ==
  \A k, l \in DOMAIN more : k < l /\ more[k].serial = 0 => more[k].ip # more[l].ip

\* A row that takes over what it lacks stands for what it stood for, and for the
\* dongle it takes it from.
LEMMA FillStands ==
  ASSUME NEW row \in Rows, NEW d \in Rows, Discover!Same(row, d)
  PROVE  /\ Stands(Discover!Fill(row, d), d)
         /\ \A e \in Rows : Stands(row, e) => Stands(Discover!Fill(row, d), e)
<1> USE DEF Rows, Stands, Discover!Stands, Discover!SameIp, Discover!SameSerial,
        Discover!Same, Discover!Fill
<1>1. Stands(Discover!Fill(row, d), d)
  OBVIOUS
<1>2. ASSUME NEW e \in Rows, Stands(row, e) PROVE Stands(Discover!Fill(row, d), e)
  BY <1>2
<1>3. QED
  BY <1>1, <1>2

\* One dongle is merged: it is stood for, and so is everything that was.
LEMMA MergeOneStands ==
  ASSUME NEW rows \in Seq(Rows), NEW d \in Rows
  PROVE  LET result == Discover!MergeDongle(rows, d)
         IN  /\ StandsIn(result, d)
             /\ \A e \in Rows : StandsIn(rows, e) => StandsIn(result, e)
             /\ \A some \in SUBSET Rows :
                  d \in some /\ Backed(rows, some) => Backed(result, some)
<1> DEFINE result == Discover!MergeDongle(rows, d)
<1> HIDE DEF result
<1>0. /\ Len(rows) \in Nat /\ DOMAIN rows = 1..Len(rows)
      /\ \A i \in DOMAIN rows : rows[i] \in Rows
  BY LenProperties, ElementOfSeq
<1>1. CASE Appends(rows, d, result)
  <2>1. /\ result = Append(rows, d)
        /\ DOMAIN result = 1..(Len(rows) + 1)
        /\ result[Len(rows) + 1] = d
        /\ \A i \in 1..Len(rows) : result[i] = rows[i]
    BY <1>1, AppendProperties, LenProperties DEF Appends
  <2>2. /\ Len(rows) + 1 \in DOMAIN result
        /\ \A i \in DOMAIN rows : i \in DOMAIN result
        /\ \A i \in DOMAIN result : i \in DOMAIN rows \/ i = Len(rows) + 1
    BY <1>0, <2>1
  <2>3. Stands(d, d)
    BY DEF Stands, Discover!Stands
  <2>4. StandsIn(result, d)
    BY <2>1, <2>2, <2>3 DEF StandsIn
  <2>5. \A e \in Rows : StandsIn(rows, e) => StandsIn(result, e)
    BY <1>0, <2>1, <2>2 DEF StandsIn
  <2>6. ASSUME NEW some \in SUBSET Rows, d \in some, Backed(rows, some)
        PROVE  Backed(result, some)
    BY <1>0, <2>1, <2>2, <2>3, <2>6 DEF Backed
  <2>7. QED
    BY <2>4, <2>5, <2>6 DEF result
<1>2. ASSUME NEW i, Fills(rows, d, result, i)
      PROVE  /\ StandsIn(result, d)
             /\ \A e \in Rows : StandsIn(rows, e) => StandsIn(result, e)
             /\ \A some \in SUBSET Rows :
                  d \in some /\ Backed(rows, some) => Backed(result, some)
  <2>1. /\ i \in DOMAIN rows /\ Discover!Same(rows[i], d) /\ rows[i] \in Rows
        /\ DOMAIN result = DOMAIN rows
        /\ result[i] = Discover!Fill(rows[i], d)
        /\ \A j \in DOMAIN rows : j # i => result[j] = rows[j]
    BY <1>0, <1>2 DEF Fills
  <2>2. /\ Stands(result[i], d)
        /\ \A e \in Rows : Stands(rows[i], e) => Stands(result[i], e)
    BY <2>1, FillStands
  <2>3. StandsIn(result, d)
    BY <2>1, <2>2 DEF StandsIn
  <2>4. \A j \in DOMAIN rows : \A e \in Rows : Stands(rows[j], e) => Stands(result[j], e)
    BY <2>1, <2>2
  <2>5. \A e \in Rows : StandsIn(rows, e) => StandsIn(result, e)
    BY <2>1, <2>4 DEF StandsIn
  <2>6. ASSUME NEW some \in SUBSET Rows, Backed(rows, some)
        PROVE  Backed(result, some)
    BY <2>1, <2>4, <2>6 DEF Backed
  <2>7. QED
    BY <2>3, <2>5, <2>6
<1>3. QED
  BY <1>1, <1>2, MergeOne DEF result

\* A whole list is merged.
LEMMA MergeStands ==
  ASSUME NEW rows \in Seq(Rows), NEW more \in Seq(Rows)
  PROVE  LET result == Discover!MergeDongles(rows, more)
         IN  /\ result \in Seq(Rows)
             /\ \A e \in Rows : StandsIn(rows, e) => StandsIn(result, e)
             /\ \A k \in DOMAIN more : StandsIn(result, more[k])
             /\ \A some \in SUBSET Rows :
                  /\ \A k \in DOMAIN more : more[k] \in some
                  /\ Backed(rows, some)
                  => Backed(result, some)
<1> DEFINE result == Discover!MergeDongles(rows, more)
           last == Len(more)
<1> HIDE DEF result
<1>1. PICK f : Merges(f, rows, more) /\ result = f[last]
  BY MergeSteps DEF result
<1>2. /\ last \in Nat /\ DOMAIN more = 1..last
      /\ \A k \in 1..last : more[k] \in Rows
  BY LenProperties, ElementOfSeq
<1> HIDE DEF last
<1>3. /\ f[0] = rows
      /\ \A n \in Nat : n <= last => f[n] \in Seq(Rows)
      /\ \A n \in Nat : n + 1 <= last => f[n + 1] = Discover!MergeDongle(f[n], more[n + 1])
  BY <1>1 DEF Merges, last
<1>4. ASSUME NEW n \in Nat, n + 1 <= last
      PROVE  /\ n + 1 \in 1..last
             /\ StandsIn(f[n + 1], more[n + 1])
             /\ \A e \in Rows : StandsIn(f[n], e) => StandsIn(f[n + 1], e)
             /\ \A some \in SUBSET Rows :
                  more[n + 1] \in some /\ Backed(f[n], some) => Backed(f[n + 1], some)
  <2>1. n + 1 \in 1..last /\ n <= last
    BY <1>2, <1>4
  <2>2. more[n + 1] \in Rows /\ f[n] \in Seq(Rows)
    BY <1>2, <1>3, <2>1
  <2>3. f[n + 1] = Discover!MergeDongle(f[n], more[n + 1])
    BY <1>3, <1>4
  <2>4. QED
    BY <2>1, <2>2, <2>3, MergeOneStands
<1>5. ASSUME NEW e \in Rows, StandsIn(rows, e) PROVE StandsIn(result, e)
  <2> DEFINE S == {n \in Nat : n <= last => StandsIn(f[n], e)}
  <2>1. 0 \in S
    BY <1>3, <1>5
  <2>2. ASSUME NEW n \in Nat, n \in S PROVE n + 1 \in S
    BY <1>2, <1>4, <2>2
  <2>3. Nat \subseteq S
    BY <2>1, <2>2, SetInduction
  <2>4. QED
    BY <1>1, <1>2, <2>3
<1>6. ASSUME NEW k \in DOMAIN more PROVE StandsIn(result, more[k])
  <2> DEFINE S == {n \in Nat : n <= last /\ k <= n => StandsIn(f[n], more[k])}
  <2>1. 0 \in S
    BY <1>2
  <2>2. ASSUME NEW n \in Nat, n \in S PROVE n + 1 \in S
    <3> SUFFICES ASSUME n + 1 <= last, k <= n + 1 PROVE StandsIn(f[n + 1], more[k])
      OBVIOUS
    <3>1. CASE k = n + 1
      BY <1>4, <3>1
    <3>2. CASE k # n + 1
      <4>1. k <= n /\ n <= last
        BY <1>2, <3>2
      <4>2. QED
        BY <1>2, <1>4, <2>2, <4>1
    <3>3. QED
      BY <3>1, <3>2
  <2>3. Nat \subseteq S
    BY <2>1, <2>2, SetInduction
  <2>4. last \in S /\ k <= last
    BY <1>2, <2>3
  <2>5. QED
    BY <1>1, <1>2, <2>4
<1>7. ASSUME NEW some \in SUBSET Rows, \A k \in DOMAIN more : more[k] \in some,
             Backed(rows, some)
      PROVE  Backed(result, some)
  <2> DEFINE S == {n \in Nat : n <= last => Backed(f[n], some)}
  <2>1. 0 \in S
    BY <1>3, <1>7
  <2>2. ASSUME NEW n \in Nat, n \in S PROVE n + 1 \in S
    <3> SUFFICES ASSUME n + 1 <= last PROVE Backed(f[n + 1], some)
      OBVIOUS
    <3>1. more[n + 1] \in some /\ Backed(f[n], some)
      BY <1>2, <1>4, <1>7, <2>2
    <3>2. QED
      BY <1>4, <3>1
  <2>3. Nat \subseteq S
    BY <2>1, <2>2, SetInduction
  <2>4. QED
    BY <1>1, <1>2, <2>3
<1>8. result \in Seq(Rows)
  BY <1>1, <1>2, <1>3
<1>9. QED
  BY <1>5, <1>6, <1>7, <1>8 DEF result

\* Rows stay one per dongle when none that lacks its serial number is the same as
\* the dongle merged: the dongle is a new row, or nothing changes.
LEMMA MergeOneRow ==
  ASSUME NEW rows \in Seq(Rows), NEW d \in Rows, d.ip # 0, OneRow(rows),
         \A i \in DOMAIN rows : /\ rows[i].ip # 0
                                /\ rows[i].serial = 0 => rows[i].ip # d.ip
  PROVE  LET result == Discover!MergeDongle(rows, d)
         IN  /\ OneRow(result)
             /\ \A i \in DOMAIN result :
                  result[i] = d \/ (i \in DOMAIN rows /\ result[i] = rows[i])
<1> DEFINE result == Discover!MergeDongle(rows, d)
<1> HIDE DEF result
<1>0. /\ Len(rows) \in Nat /\ DOMAIN rows = 1..Len(rows)
      /\ \A i \in DOMAIN rows : rows[i] \in Rows
  BY LenProperties, ElementOfSeq
<1>1. CASE Appends(rows, d, result)
  <2>1. /\ result = Append(rows, d)
        /\ DOMAIN result = 1..(Len(rows) + 1)
        /\ result[Len(rows) + 1] = d
        /\ \A i \in 1..Len(rows) : result[i] = rows[i]
    BY <1>1, AppendProperties, LenProperties DEF Appends
  <2>2. \A i \in DOMAIN result : \/ i = Len(rows) + 1 /\ result[i] = d
                                 \/ i \in DOMAIN rows /\ result[i] = rows[i]
    BY <1>0, <2>1
  <2>3. \A i \in DOMAIN rows : /\ ~Discover!SameIp(rows[i], d) /\ ~Discover!SameIp(d, rows[i])
                               /\ ~Discover!SameSerial(rows[i], d)
                               /\ ~Discover!SameSerial(d, rows[i])
    BY <1>0, <1>1 DEF Appends, Discover!Same, Discover!SameIp, Discover!SameSerial, Rows
  <2>4. OneRow(result)
    <3> SUFFICES ASSUME NEW i \in DOMAIN result, NEW j \in DOMAIN result,
                        \/ Discover!SameIp(result[i], result[j])
                        \/ Discover!SameSerial(result[i], result[j])
                 PROVE  i = j
      BY DEF OneRow
    <3>1. CASE i \in DOMAIN rows /\ result[i] = rows[i] /\ j \in DOMAIN rows /\ result[j] = rows[j]
      BY <3>1 DEF OneRow
    <3>2. QED
      BY <2>2, <2>3, <3>1
  <2>5. QED
    BY <2>2, <2>4 DEF result
<1>2. ASSUME NEW i, Fills(rows, d, result, i) PROVE result = rows
  <2>1. i \in DOMAIN rows /\ Discover!Same(rows[i], d) /\ rows[i] \in Rows
    BY <1>0, <1>2 DEF Fills
  <2>2. rows[i].ip # 0 /\ rows[i].serial # 0
    BY <2>1 DEF Discover!Same
  <2>3. Discover!Fill(rows[i], d) = rows[i]
    BY <2>1, <2>2 DEF Discover!Fill, Rows
  <2>4. result = [rows EXCEPT ![i] = rows[i]]
    BY <1>2, <2>3 DEF Fills
  <2>5. rows \in [1..Len(rows) -> Rows]
    BY LenProperties
  <2>6. QED
    BY <2>4, <2>5
<1>3. QED
  BY <1>1, <1>2, MergeOne DEF result

\* A list merged into full rows leaves one row per dongle if all have an address
\* and one without a serial number is the last of its address.
LEMMA MergeKeepsOneRow ==
  ASSUME NEW rows \in Seq(Rows), NEW more \in Seq(Rows), OneRow(rows), Full(rows),
         Separate(more), \A k \in DOMAIN more : more[k].ip # 0
  PROVE  /\ OneRow(Discover!MergeDongles(rows, more))
         /\ Full(more) => Full(Discover!MergeDongles(rows, more))
<1> DEFINE result == Discover!MergeDongles(rows, more)
           last == Len(more)
<1> HIDE DEF result
<1>1. PICK f : Merges(f, rows, more) /\ result = f[last]
  BY MergeSteps DEF result
<1>2. /\ last \in Nat /\ DOMAIN more = 1..last
      /\ \A k \in 1..last : more[k] \in Rows
  BY LenProperties, ElementOfSeq
<1> HIDE DEF last
<1>3. /\ f[0] = rows
      /\ \A n \in Nat : n <= last => f[n] \in Seq(Rows)
      /\ \A n \in Nat : n + 1 <= last => f[n + 1] = Discover!MergeDongle(f[n], more[n + 1])
  BY <1>1 DEF Merges, last
<1> DEFINE Q(n) == /\ OneRow(f[n])
                   /\ \A i \in DOMAIN f[n] :
                        /\ f[n][i].ip # 0
                        /\ f[n][i].serial = 0 => \E k \in 1..n : more[k] = f[n][i]
           S == {n \in Nat : n <= last => Q(n)}
<1>4. 0 \in S
  BY <1>3 DEF Full
<1>5. ASSUME NEW n \in Nat, n \in S PROVE n + 1 \in S
  <2> SUFFICES ASSUME n + 1 <= last PROVE Q(n + 1)
    OBVIOUS
  <2>1. /\ n + 1 \in 1..last /\ n <= last
        /\ \A k \in 1..n : k \in 1..last /\ k < n + 1 /\ k \in 1..(n + 1)
    BY <1>2
  <2>2. Q(n)
    BY <1>5, <2>1
  <2>3. more[n + 1] \in Rows /\ more[n + 1].ip # 0 /\ f[n] \in Seq(Rows)
    BY <1>2, <1>3, <2>1
  <2>4. \A i \in DOMAIN f[n] : f[n][i].serial = 0 => f[n][i].ip # more[n + 1].ip
    BY <1>2, <2>1, <2>2 DEF Separate
  <2>5. /\ OneRow(f[n + 1])
        /\ \A i \in DOMAIN f[n + 1] :
             \/ f[n + 1][i] = more[n + 1]
             \/ i \in DOMAIN f[n] /\ f[n + 1][i] = f[n][i]
    <3>1. f[n + 1] = Discover!MergeDongle(f[n], more[n + 1])
      BY <1>3
    <3>2. QED
      BY <2>2, <2>3, <2>4, <3>1, MergeOneRow
  <2>6. n + 1 \in 1..(n + 1)
    OBVIOUS
  <2>7. ASSUME NEW i \in DOMAIN f[n + 1]
        PROVE  /\ f[n + 1][i].ip # 0
               /\ f[n + 1][i].serial = 0 => \E k \in 1..(n + 1) : more[k] = f[n + 1][i]
    <3>1. CASE f[n + 1][i] = more[n + 1]
      BY <2>3, <2>6, <3>1
    <3>2. CASE i \in DOMAIN f[n] /\ f[n + 1][i] = f[n][i]
      BY <2>1, <2>2, <3>2
    <3>3. QED
      BY <2>5, <3>1, <3>2
  <2>8. QED
    BY <2>5, <2>7
<1>6. Nat \subseteq S
  BY <1>4, <1>5, SetInduction
<1>7. Q(last)
  BY <1>2, <1>6
<1>8. Full(more) => Full(result)
  BY <1>1, <1>2, <1>7 DEF Full
<1>9. QED
  BY <1>1, <1>7, <1>8 DEF result

\* Rows by Before, equal ones by position: the order of the row i.
Precedes(rows, i, j) ==
  \/ Discover!Before(rows[i], rows[j])
  \/ ~Discover!Before(rows[j], rows[i]) /\ i < j

Ahead(rows, i) == {j \in 1..Len(rows) : Precedes(rows, j, i)}

\* Before is a strict weak order.
LEMMA BeforeOrders ==
  ASSUME NEW a \in Rows, NEW b \in Rows
  PROVE  /\ ~Discover!Before(a, a)
         /\ Discover!Before(a, b) => ~Discover!Before(b, a)
         /\ \A c \in Rows :
              /\ Discover!Before(a, b) /\ Discover!Before(b, c) => Discover!Before(a, c)
              /\ ~Discover!Before(b, a) /\ ~Discover!Before(c, b) => ~Discover!Before(c, a)
BY DEF Rows, Discover!Before

\* So the rows have a permutation in which they ascend.
LEMMA SortExists ==
  ASSUME NEW rows \in Seq(Rows)
  PROVE  \E p \in [1..Len(rows) -> 1..Len(rows)] :
           /\ \A i, j \in 1..Len(rows) : p[i] = p[j] => i = j
           /\ \A k \in 1..Len(rows) : \E i \in 1..Len(rows) : p[i] = k
           /\ \A i, j \in 1..Len(rows) :
                i < j => ~Discover!Before(rows[p[j]], rows[p[i]])
<1> DEFINE n == Len(rows)
           R == 1..n
           rank == [i \in R |-> Cardinality(Ahead(rows, i)) + 1]
<1>1. n \in Nat /\ \A i \in R : rows[i] \in Rows
  BY LenProperties, ElementOfSeq
<1>2. IsFiniteSet(R) /\ Cardinality(R) = n
  BY <1>1, FS_Interval
<1>3. \A i, j \in R :
        /\ ~Precedes(rows, i, i)
        /\ i # j => Precedes(rows, i, j) \/ Precedes(rows, j, i)
        /\ \A k \in R : Precedes(rows, i, j) /\ Precedes(rows, j, k) => Precedes(rows, i, k)
  <2> TAKE i, j \in R
  <2>1. rows[i] \in Rows /\ rows[j] \in Rows /\ i \in Nat /\ j \in Nat
    BY <1>1
  <2>2. ~Precedes(rows, i, i)
    BY <2>1, BeforeOrders DEF Precedes
  <2>3. i # j => Precedes(rows, i, j) \/ Precedes(rows, j, i)
    BY <2>1 DEF Precedes
  <2>4. ASSUME NEW k \in R, Precedes(rows, i, j), Precedes(rows, j, k)
        PROVE  Precedes(rows, i, k)
    <3>1. rows[k] \in Rows /\ k \in Nat
      BY <1>1
    <3>2. i < j /\ j < k => i < k
      BY <2>1, <3>1
    <3> DEFINE a == rows[i]
               b == rows[j]
               c == rows[k]
    <3>3. /\ Discover!Before(a, b) => ~Discover!Before(b, a)
          /\ Discover!Before(b, c) => ~Discover!Before(c, b)
          /\ Discover!Before(a, b) /\ Discover!Before(b, c) => Discover!Before(a, c)
          /\ ~Discover!Before(b, a) /\ ~Discover!Before(c, b) => ~Discover!Before(c, a)
          /\ ~Discover!Before(a, c) /\ ~Discover!Before(c, b) => ~Discover!Before(a, b)
          /\ ~Discover!Before(b, a) /\ ~Discover!Before(a, c) => ~Discover!Before(b, c)
      BY <2>1, <3>1, BeforeOrders
    <3>4. QED
      BY <2>4, <3>2, <3>3 DEF Precedes
  <2>5. QED
    BY <2>2, <2>3, <2>4
<1> HIDE DEF n
<1>4. \A i \in R : /\ Ahead(rows, i) \subseteq R /\ i \notin Ahead(rows, i)
                   /\ IsFiniteSet(Ahead(rows, i)) /\ rank[i] \in R
  <2> SUFFICES ASSUME NEW i \in R
               PROVE  /\ Ahead(rows, i) \subseteq R /\ i \notin Ahead(rows, i)
                      /\ IsFiniteSet(Ahead(rows, i)) /\ rank[i] \in R
    OBVIOUS
  <2>1. Ahead(rows, i) \subseteq R \ {i} /\ Ahead(rows, i) \subseteq R
    BY <1>3 DEF Ahead, n
  <2>2. IsFiniteSet(R \ {i}) /\ Cardinality(R \ {i}) = n - 1
    BY <1>2, FS_RemoveElement
  <2>3. /\ IsFiniteSet(Ahead(rows, i)) /\ Cardinality(Ahead(rows, i)) <= n - 1
        /\ Cardinality(Ahead(rows, i)) \in Nat
    BY <2>1, <2>2, FS_Subset, FS_CardinalityType
  <2>4. Cardinality(Ahead(rows, i)) + 1 \in R
    BY <1>1, <2>3
  <2>5. QED
    BY <2>1, <2>3, <2>4
<1>5. \A i, j \in R : Precedes(rows, i, j) => rank[i] < rank[j]
  <2> SUFFICES ASSUME NEW i \in R, NEW j \in R, Precedes(rows, i, j)
               PROVE  rank[i] < rank[j]
    OBVIOUS
  <2>1. Ahead(rows, i) \subseteq Ahead(rows, j)
    BY <1>3 DEF Ahead, n
  <2>2. i \in Ahead(rows, j) /\ i \notin Ahead(rows, i) /\ IsFiniteSet(Ahead(rows, j))
        /\ IsFiniteSet(Ahead(rows, i))
    BY <1>3, <1>4 DEF Ahead, n
  <2>3. /\ Cardinality(Ahead(rows, i)) <= Cardinality(Ahead(rows, j))
        /\ Cardinality(Ahead(rows, i)) # Cardinality(Ahead(rows, j))
        /\ Cardinality(Ahead(rows, i)) \in Nat /\ Cardinality(Ahead(rows, j)) \in Nat
    BY <2>1, <2>2, FS_Subset, FS_CardinalityType
  <2>4. QED
    BY <2>3
<1>6. \A i \in R : rank[i] \in R /\ rank[i] \in Nat
  BY <1>1, <1>4
<1>7. rank \in Injection(R, R)
  <2>1. rank \in [R -> R]
    BY <1>6
  <2>2. ASSUME NEW i \in R, NEW j \in R, rank[i] = rank[j] PROVE i = j
    <3> SUFFICES ASSUME i # j PROVE FALSE
      OBVIOUS
    <3>1. rank[i] < rank[j] \/ rank[j] < rank[i]
      BY <1>3, <1>5
    <3>2. QED
      BY <1>6, <2>2, <3>1
  <2> HIDE DEF rank
  <2>3. QED
    BY <2>1, <2>2 DEF Injection, IsInjective
<1> HIDE DEF rank
<1>8. rank \in Surjection(R, R)
  BY <1>2, <1>7, FS_Injection
<1>9. \A k \in R : \E i \in R : rank[i] = k
  BY <1>8 DEF Surjection
<1>10. \A i, j \in R : rank[i] = rank[j] => i = j
  BY <1>7 DEF Injection, IsInjective
<1> DEFINE p == [k \in R |-> CHOOSE i \in R : rank[i] = k]
<1>11. \A k \in R : p[k] \in R /\ rank[p[k]] = k
  BY <1>9
<1>12. p \in [R -> R]
  BY <1>11
<1> HIDE DEF p
<1>13. \A i, j \in R : p[i] = p[j] => i = j
  BY <1>11
<1>14. \A k \in R : \E i \in R : p[i] = k
  BY <1>6, <1>10, <1>11
<1>15. ASSUME NEW i \in R, NEW j \in R, i < j, Discover!Before(rows[p[j]], rows[p[i]])
       PROVE  FALSE
  <2>1. Precedes(rows, p[j], p[i])
    BY <1>15 DEF Precedes
  <2>2. j < i
    BY <1>5, <1>11, <2>1
  <2>3. QED
    BY <1>1, <1>15, <2>2
<1>16. QED
  BY <1>12, <1>13, <1>14, <1>15 DEF n

\* sortDongles keeps the rows, and rows with different addresses then ascend.
LEMMA SortKeeps ==
  ASSUME NEW rows \in Seq(Rows)
  PROVE  LET result == Discover!SortDongles(rows)
         IN  /\ result \in Seq(Rows) /\ DOMAIN result = DOMAIN rows
             /\ \A i \in DOMAIN result : \E k \in DOMAIN rows : result[i] = rows[k]
             /\ \A k \in DOMAIN rows : \E i \in DOMAIN result : result[i] = rows[k]
             /\ Distinct(rows) => Distinct(result)
             /\ Distinct(rows) /\ 0 \notin Ips(rows) => Ascending(result)
<1> DEFINE R == 1..Len(rows)
           result == Discover!SortDongles(rows)
           Sorts(p) == \A i, j \in R : i < j => ~Discover!Before(rows[p[j]], rows[p[i]])
           Perms == {p \in [R -> R] :
                       /\ \A i, j \in R : p[i] = p[j] => i = j
                       /\ \A k \in R : \E i \in R : p[i] = k}
           p == CHOOSE q \in Discover!Bijection(DOMAIN rows, DOMAIN rows) :
                  \A i, j \in DOMAIN rows :
                    i < j => ~Discover!Before(rows[q[j]], rows[q[i]])
<1>1. Len(rows) \in Nat /\ DOMAIN rows = R /\ \A i \in R : rows[i] \in Rows
  BY LenProperties, ElementOfSeq
<1>2. Discover!Bijection(DOMAIN rows, DOMAIN rows) = Perms
  <2> HIDE DEF R
  <2>1. Discover!Bijection(R, R) = Perms
    BY DEF Discover!Bijection, Discover!Injection, Discover!Surjection,
       Discover!IsInjective
  <2>2. QED
    BY <1>1, <2>1
<1>3. result = [i \in DOMAIN rows |-> rows[p[i]]]
  BY DEF Discover!SortDongles
<1>4. p \in Perms /\ Sorts(p)
  <2>1. \E q \in Perms : Sorts(q)
    BY SortExists
  <2>2. \E q \in Discover!Bijection(DOMAIN rows, DOMAIN rows) :
          \A i, j \in DOMAIN rows : i < j => ~Discover!Before(rows[q[j]], rows[q[i]])
    BY <1>1, <1>2, <2>1
  <2>3. /\ p \in Discover!Bijection(DOMAIN rows, DOMAIN rows)
        /\ \A i, j \in DOMAIN rows : i < j => ~Discover!Before(rows[p[j]], rows[p[i]])
    BY <2>2
  <2> HIDE DEF p
  <2>4. QED
    BY <1>1, <1>2, <2>3
<1> HIDE DEF p, result
<1>5. /\ p \in [R -> R]
      /\ \A i, j \in R : p[i] = p[j] => i = j
      /\ \A k \in R : \E i \in R : p[i] = k
  BY <1>4
<1>6. /\ DOMAIN result = R
      /\ \A i \in R : p[i] \in R /\ result[i] = rows[p[i]] /\ result[i] \in Rows
  BY <1>1, <1>3, <1>5
<1>7. result \in Seq(Rows)
  <2>1. result \in [1..Len(rows) -> Rows]
    BY <1>3, <1>6
  <2>2. QED
    BY <1>1, <2>1
<1>8. \A i \in R : \E k \in R : result[i] = rows[k]
  <2> HIDE DEF R
  <2>1. \A i \in R : p[i] \in R /\ result[i] = rows[p[i]]
    BY <1>6
  <2> TAKE i \in R
  <2>2. p[i] \in R /\ result[i] = rows[p[i]]
    BY <2>1
  <2> QED
    BY <2>2
<1>9. \A k \in R : \E i \in R : result[i] = rows[k]
  <2> HIDE DEF R
  <2> TAKE k \in R
  <2>1. PICK i \in R : p[i] = k
    BY <1>5
  <2>2. result[i] = rows[k]
    BY <1>6, <2>1
  <2> QED
    BY <2>2
<1>10. ASSUME Distinct(rows) PROVE Distinct(result)
  <2> HIDE DEF R
  <2> SUFFICES ASSUME NEW i \in R, NEW j \in R, result[i].ip = result[j].ip
               PROVE  i = j
    BY <1>6 DEF Distinct
  <2>1. p[i] \in R /\ p[j] \in R /\ rows[p[i]].ip = rows[p[j]].ip
    BY <1>6
  <2>2. p[i] = p[j]
    BY <1>1, <1>10, <2>1 DEF Distinct
  <2>3. QED
    BY <1>5, <2>2
<1>11. ASSUME Distinct(rows), 0 \notin Ips(rows) PROVE Ascending(result)
  <2> SUFFICES ASSUME NEW i \in R, NEW j \in R, i < j
               PROVE  result[i].ip < result[j].ip
    BY <1>6 DEF Ascending
  <2>1. ~Discover!Before(result[j], result[i])
    BY <1>4, <1>6
  <2>2. result[i].ip # result[j].ip
    BY <1>6, <1>10, <1>11, <1>1 DEF Distinct
  <2>3. result[i].ip # 0 /\ result[j].ip # 0
    BY <1>1, <1>6, <1>11 DEF Ips
  <2>4. result[i].ip \in Nat /\ result[j].ip \in Nat
    BY <1>6 DEF Rows
  <2>5. QED
    BY <2>1, <2>2, <2>3, <2>4 DEF Discover!Before
<1>12. QED
  BY <1>1, <1>6, <1>7, <1>8, <1>9, <1>10, <1>11 DEF result

-----------------------------------------------------------------------------
(***************************************************************************)
(* The scan.  While its goroutines run, every address handed out that      *)
(* accepts connections is with exactly one of them or among the results,   *)
(* as long as nobody cancels; and the jobs channel is closed, or somebody  *)
(* is left to take the next address.                                       *)
(***************************************************************************)
Handed == (Discover!FirstOffset + 1)..next

Busy(w) == scanner[w].at \in {"probe", "send"}

ScanTypes ==
  /\ hostBits \in Nat /\ next \in Nat
  /\ dongles \in Seq(Rows)
  /\ scanner \in [Scanners -> [at : {"idle", "probe", "send", "done"}, dongle : Rows]]
  /\ command = "run" => phase \notin {"scan", "print"}

Results == Ips(dongles) \subseteq reachable \cap Handed /\ Distinct(dongles)

InHand ==
  /\ \A w \in Scanners : Busy(w) =>
       /\ scanner[w].dongle.ip \in Handed \ Ips(dongles)
       /\ scanner[w].at = "send" => scanner[w].dongle.ip \in reachable
  /\ \A v, w \in Scanners :
       Busy(v) /\ Busy(w) /\ scanner[v].dongle.ip = scanner[w].dongle.ip => v = w

NoneLost ==
  ~ctx => \A a \in reachable \cap Handed :
            a \in Ips(dongles) \/ \E w \in Scanners : Busy(w) /\ scanner[w].dongle.ip = a

Fed ==
  /\ Discover!FirstOffset <= next /\ next <= Discover!EndOffset
  /\ ~ctx => IF jobs THEN \E w \in Scanners : scanner[w].at # "done"
             ELSE next = Discover!EndOffset

Pool == Results /\ InHand /\ NoneLost /\ Fed

ScanInv == ScanTypes /\ (phase = "scan" /\ opened => Pool) /\ ScanComplete

\* A result more.
LEMMA IpsAppend ==
  ASSUME NEW rows \in Seq(Rows), NEW d \in Rows
  PROVE  /\ Append(rows, d) \in Seq(Rows)
         /\ Ips(Append(rows, d)) = Ips(rows) \cup {d.ip}
         /\ Distinct(rows) /\ d.ip \notin Ips(rows) => Distinct(Append(rows, d))
         /\ \A i \in DOMAIN Append(rows, d) :
              Append(rows, d)[i] = d \/ \E k \in DOMAIN rows : Append(rows, d)[i] = rows[k]
         /\ \E i \in DOMAIN Append(rows, d) : Append(rows, d)[i] = d
         /\ \A k \in DOMAIN rows : \E i \in DOMAIN Append(rows, d) : Append(rows, d)[i] = rows[k]
<1> DEFINE more == Append(rows, d)
           n == Len(rows)
<1>1. /\ n \in Nat /\ DOMAIN rows = 1..n
      /\ more \in Seq(Rows) /\ DOMAIN more = 1..(n + 1)
      /\ more[n + 1] = d /\ \A i \in 1..n : more[i] = rows[i]
  BY LenProperties, AppendProperties
<1> HIDE DEF more, n
<1>2. /\ n + 1 \in DOMAIN more
      /\ \A i \in DOMAIN rows : i \in DOMAIN more /\ more[i] = rows[i]
      /\ \A i \in DOMAIN more : i = n + 1 \/ i \in DOMAIN rows
  BY <1>1
<1>3. Ips(more) = Ips(rows) \cup {d.ip}
  <2>1. \A a : a \in Ips(more) => a \in Ips(rows) \cup {d.ip}
    BY <1>1, <1>2 DEF Ips
  <2>2. \A a : a \in Ips(rows) \cup {d.ip} => a \in Ips(more)
    BY <1>1, <1>2 DEF Ips
  <2>3. QED
    BY <2>1, <2>2
<1>4. ASSUME Distinct(rows), d.ip \notin Ips(rows) PROVE Distinct(more)
  <2>1. \A i \in DOMAIN rows : rows[i].ip # d.ip
    BY <1>4 DEF Ips
  <2>2. QED
    BY <1>1, <1>2, <1>4, <2>1 DEF Distinct
<1>5. /\ \A i \in DOMAIN more : more[i] = d \/ \E k \in DOMAIN rows : more[i] = rows[k]
      /\ \E i \in DOMAIN more : more[i] = d
      /\ \A k \in DOMAIN rows : \E i \in DOMAIN more : more[i] = rows[k]
  BY <1>1, <1>2
<1>6. QED
  BY <1>1, <1>3, <1>4, <1>5 DEF more

\* The scan starts with nothing handed out.
LEMMA ScanStarts ==
  ASSUME ScanTypes, Discover!StartScan PROVE Pool'
<1> DEFINE Fo == Discover!FirstOffset
           En == Discover!EndOffset
<1>1. Fo \in Nat /\ En \in Nat /\ Fo <= En
  BY UsableRange DEF ScanTypes
<1>2. PICK concurrent \in (SUBSET Scanners) \ {{}} :
        scanner' = [w \in Scanners |->
          [at |-> IF w \in concurrent THEN "idle" ELSE "done",
           dongle |-> Discover!NoDongle]]
  BY DEF Discover!StartScan
<1>3. /\ dongles' = <<>> /\ next' = Fo /\ jobs' = TRUE
      /\ hostBits' = hostBits
  BY DEF Discover!StartScan, Discover!flags
<1>4. Fo' = Fo /\ En' = En
  BY <1>3 DEF Discover!FirstOffset, Discover!EndOffset
<1>5. \A w \in Scanners : ~Busy(w)'
  BY <1>2 DEF Busy
<1>6. Ips(dongles)' = {} /\ Distinct(dongles)'
  BY <1>3 DEF Ips, Distinct
<1> HIDE DEF Fo, En
<1>7. Handed' = {}
  <2>1. Handed' = (Fo + 1)..Fo
    BY <1>3, <1>4 DEF Handed, Fo
  <2>2. QED
    BY <1>1, <2>1
<1>8. \E w \in Scanners : scanner'[w].at # "done"
  <2>1. PICK w \in concurrent : w \in Scanners
    OBVIOUS
  <2>2. scanner'[w].at = "idle"
    BY <1>2, <2>1
  <2>3. QED
    BY <2>1, <2>2
<1>9. Results' /\ InHand' /\ NoneLost'
  BY <1>5, <1>6, <1>7 DEF Results, InHand, NoneLost
<1>10. Fed'
  BY <1>1, <1>3, <1>4, <1>8 DEF Fed, Fo, En
<1>11. QED
  BY <1>9, <1>10 DEF Pool

\* A step of one goroutine or of the feeder.
Goroutine(w) ==
  \/ Discover!Feed(w) \/ Discover!ProbeMiss(w) \/ Discover!ProbeHit(w)
  \/ Discover!Deliver(w) \/ Discover!DropResult(w) \/ Discover!Quit(w)

\* What all of them leave alone.
LEMMA GoroutineFrame ==
  ASSUME ScanTypes, NEW w \in Scanners, Goroutine(w)
  PROVE  /\ UNCHANGED <<ctx, hostBits, reachable, phase, opened, jobs, subnet>>
         /\ Discover!FirstOffset' = Discover!FirstOffset
         /\ Discover!EndOffset' = Discover!EndOffset
         /\ \A v \in Scanners : v # w =>
              scanner'[v] = scanner[v] /\ (Busy(v)' <=> Busy(v))
<1>1. UNCHANGED <<ctx, hostBits, reachable, phase, opened, jobs, subnet>>
  BY DEF Goroutine, Discover!Feed, Discover!ProbeMiss, Discover!ProbeHit, Discover!Deliver,
     Discover!DropResult, Discover!Quit, Discover!Goes, Discover!flags
<1>2. \A v \in Scanners : v # w => scanner'[v] = scanner[v]
  BY DEF Goroutine, Discover!Feed, Discover!ProbeMiss, Discover!ProbeHit, Discover!Deliver,
     Discover!DropResult, Discover!Quit, Discover!Goes, ScanTypes
<1>3. QED
  BY <1>1, <1>2 DEF Discover!FirstOffset, Discover!EndOffset, Busy

\* The types of what a step of the pool changes.
LEMMA GoroutineTypes ==
  ASSUME ScanTypes, NEW w \in Scanners, Goroutine(w)
  PROVE  /\ next' \in Nat /\ dongles' \in Seq(Rows)
         /\ scanner' \in [Scanners ->
              [at : {"idle", "probe", "send", "done"}, dongle : Rows]]
<1> USE DEF ScanTypes
<1>0. /\ Discover!NoDongle \in Rows /\ scanner[w].dongle \in Rows
      /\ \A s \in {0} \cup Serials : [scanner[w].dongle EXCEPT !.serial = s] \in Rows
  BY SerialsAssumption DEF Discover!NoDongle, Rows
<1>1. CASE Discover!Feed(w)
  <2>1. [ip |-> next + 1, serial |-> 0] \in Rows
    BY DEF Rows
  <2>2. QED
    BY <1>1, <2>1 DEF Discover!Feed, Discover!Goes
<1>2. CASE Discover!ProbeMiss(w) \/ Discover!DropResult(w) \/ Discover!Quit(w)
  BY <1>0, <1>2 DEF Discover!ProbeMiss, Discover!DropResult, Discover!Quit, Discover!Goes
<1>3. CASE Discover!ProbeHit(w)
  <2>1. PICK s \in {0} \cup Serials :
          Discover!Goes(w, "send", [scanner[w].dongle EXCEPT !.serial = s])
    BY <1>3 DEF Discover!ProbeHit
  <2>2. next' = next /\ dongles' = dongles
    BY <1>3 DEF Discover!ProbeHit
  <2>3. QED
    BY <1>0, <2>1, <2>2 DEF Discover!Goes
<1>4. CASE Discover!Deliver(w)
  <2>1. dongles' = Append(dongles, scanner[w].dongle) /\ next' = next
        /\ scanner' = [scanner EXCEPT ![w] = [at |-> "idle", dongle |-> Discover!NoDongle]]
    BY <1>4 DEF Discover!Deliver, Discover!Goes
  <2>2. dongles' \in Seq(Rows)
    BY <1>0, <2>1, IpsAppend
  <2>3. QED
    BY <1>0, <2>1, <2>2
<1>5. QED
  BY <1>1, <1>2, <1>3, <1>4 DEF Goroutine

\* The next address is handed out: nobody else has it and nobody had it before.
LEMMA FeedKeeps ==
  ASSUME ScanTypes, Pool, NEW w \in Scanners, Discover!Feed(w)
  PROVE  Pool'
<1> DEFINE Fo == Discover!FirstOffset
           En == Discover!EndOffset
           a == next + 1
<1>1. /\ Fo \in Nat /\ En \in Nat /\ next \in Nat /\ next < En /\ jobs /\ Fo <= next
  BY UsableRange DEF ScanTypes, Discover!Feed, Pool, Fed
<1>2. /\ next' = a /\ dongles' = dongles /\ ~Busy(w)
      /\ scanner' = [scanner EXCEPT ![w] = [at |-> "probe",
                                             dongle |-> [ip |-> a, serial |-> 0]]]
  BY DEF Discover!Feed, Discover!Goes, Discover!Scanning, Busy
<1>3. /\ ctx' = ctx /\ reachable' = reachable /\ jobs' = jobs /\ Fo' = Fo /\ En' = En
      /\ \A v \in Scanners : v # w => scanner'[v] = scanner[v] /\ (Busy(v)' <=> Busy(v))
  BY GoroutineFrame DEF Goroutine
<1>4. scanner'[w].at = "probe" /\ scanner'[w].dongle.ip = a
  BY <1>2 DEF ScanTypes
<1>5. Busy(w)'
  BY <1>4 DEF Busy
<1>6. Ips(dongles)' = Ips(dongles) /\ Distinct(dongles)' = Distinct(dongles)
  BY <1>2
<1> HIDE DEF Fo, En
<1>7. Handed' = Handed \cup {a} /\ a \notin Handed
  <2>1. Handed' = (Fo + 1)..(next + 1) /\ Handed = (Fo + 1)..next
    BY <1>2, <1>3 DEF Handed, Fo
  <2>2. (Fo + 1)..(next + 1) = ((Fo + 1)..next) \cup {next + 1}
    BY <1>1
  <2>3. QED
    BY <1>1, <2>1, <2>2
<1> HIDE DEF a
<1>8. Ips(dongles) \subseteq reachable \cap Handed /\ Distinct(dongles)
  BY DEF Pool, Results
<1>9. Results'
  BY <1>3, <1>6, <1>7, <1>8 DEF Results
<1>10. InHand'
  <2>1. \A v \in Scanners : Busy(v)' =>
          /\ scanner'[v].dongle.ip \in Handed' \ Ips(dongles)'
          /\ scanner'[v].at = "send" => scanner'[v].dongle.ip \in reachable'
    <3> TAKE v \in Scanners
    <3>1. CASE v = w
      BY <1>4, <1>6, <1>7, <1>8, <3>1
    <3>2. CASE v # w
      BY <1>3, <1>6, <1>7, <3>2 DEF Pool, InHand
    <3>3. QED
      BY <3>1, <3>2
  <2>2. \A v \in Scanners : v # w /\ Busy(v) => scanner[v].dongle.ip # a
    BY <1>7 DEF Pool, InHand
  <2>3. \A u, v \in Scanners :
          Busy(u)' /\ Busy(v)' /\ scanner'[u].dongle.ip = scanner'[v].dongle.ip => u = v
    BY <1>3, <1>4, <2>2 DEF Pool, InHand
  <2>4. QED
    BY <2>1, <2>3 DEF InHand
<1>11. NoneLost'
  <2> SUFFICES ASSUME ~ctx', NEW b \in reachable' \cap Handed'
               PROVE  b \in Ips(dongles)'
                      \/ \E v \in Scanners : Busy(v)' /\ scanner'[v].dongle.ip = b
    BY DEF NoneLost
  <2>1. CASE b = a
    BY <1>4, <1>5, <2>1
  <2>2. CASE b # a
    <3>1. b \in reachable \cap Handed
      BY <1>3, <1>7, <2>2
    <3>2. b \in Ips(dongles) \/ \E v \in Scanners : Busy(v) /\ scanner[v].dongle.ip = b
      BY <1>3, <3>1 DEF Pool, NoneLost
    <3>3. QED
      BY <1>2, <1>3, <1>6, <3>2
  <2>3. QED
    BY <2>1, <2>2
<1>12. Fed'
  <2>1. Fo <= a /\ a <= En
    BY <1>1 DEF a
  <2>2. \E v \in Scanners : scanner'[v].at # "done"
    BY <1>4
  <2>3. QED
    BY <1>1, <1>2, <1>3, <2>1, <2>2 DEF Fed, Fo, En
<1>13. QED
  BY <1>9, <1>10, <1>11, <1>12 DEF Pool

\* A probe, a dropped result or the end of a goroutine: the address it had stays in
\* its hands, or accepts no connection, or the scan is cancelled.
LEMMA ProbeKeeps ==
  ASSUME ScanTypes, Pool, NEW w \in Scanners,
         \/ Discover!ProbeMiss(w) \/ Discover!ProbeHit(w)
         \/ Discover!DropResult(w) \/ Discover!Quit(w)
  PROVE  Pool'
<1>1. /\ ctx' = ctx /\ reachable' = reachable /\ jobs' = jobs
      /\ Discover!FirstOffset' = Discover!FirstOffset
      /\ Discover!EndOffset' = Discover!EndOffset
      /\ \A v \in Scanners : v # w => scanner'[v] = scanner[v] /\ (Busy(v)' <=> Busy(v))
  BY GoroutineFrame DEF Goroutine
<1>2. next' = next /\ dongles' = dongles
  BY DEF Discover!ProbeMiss, Discover!ProbeHit, Discover!DropResult, Discover!Quit
<1>3. Ips(dongles)' = Ips(dongles) /\ Handed' = Handed
  BY <1>1, <1>2 DEF Handed
<1>4. /\ Busy(w)' => /\ Busy(w) /\ scanner'[w].dongle.ip = scanner[w].dongle.ip
                     /\ scanner[w].dongle.ip \in reachable
      /\ Busy(w) /\ ~Busy(w)' => ctx \/ scanner[w].dongle.ip \notin reachable
      /\ scanner'[w].at = "done" => ctx \/ ~jobs
  <2>1. CASE Discover!ProbeMiss(w)
    BY <2>1 DEF Discover!ProbeMiss, Discover!Goes, Discover!Scanning, Busy, ScanTypes
  <2>2. CASE Discover!ProbeHit(w)
    <3>1. PICK s \in {0} \cup Serials :
            Discover!Goes(w, "send", [scanner[w].dongle EXCEPT !.serial = s])
      BY <2>2 DEF Discover!ProbeHit
    <3>2. scanner[w].at = "probe" /\ scanner[w].dongle.ip \in reachable
      BY <2>2 DEF Discover!ProbeHit, Discover!Scanning
    <3>3. scanner'[w].at = "send"
          /\ scanner'[w].dongle = [scanner[w].dongle EXCEPT !.serial = s]
      BY <3>1 DEF Discover!Goes, ScanTypes
    <3>4. scanner'[w].dongle.ip = scanner[w].dongle.ip
      BY <3>3 DEF ScanTypes, Rows
    <3>5. QED
      BY <3>2, <3>3, <3>4 DEF Busy
  <2>3. CASE Discover!DropResult(w)
    BY <2>3 DEF Discover!DropResult, Discover!Goes, Discover!Scanning, Busy, ScanTypes
  <2>4. CASE Discover!Quit(w)
    BY <2>4 DEF Discover!Quit, Discover!Goes, Discover!Scanning, Busy, ScanTypes
  <2>5. QED
    BY <2>1, <2>2, <2>3, <2>4
<1>5. Results'
  BY <1>1, <1>2, <1>3 DEF Pool, Results
<1>6. InHand'
  <2>1. \A v \in Scanners : Busy(v)' =>
          /\ Busy(v) /\ scanner'[v].dongle.ip = scanner[v].dongle.ip
          /\ scanner'[v].at = "send" => scanner'[v].dongle.ip \in reachable
    BY <1>1, <1>4 DEF Pool, InHand
  <2>2. QED
    BY <1>1, <1>3, <2>1 DEF Pool, InHand
<1>7. NoneLost'
  <2> SUFFICES ASSUME ~ctx', NEW b \in reachable' \cap Handed'
               PROVE  b \in Ips(dongles)'
                      \/ \E v \in Scanners : Busy(v)' /\ scanner'[v].dongle.ip = b
    BY DEF NoneLost
  <2>1. b \in Ips(dongles) \/ \E v \in Scanners : Busy(v) /\ scanner[v].dongle.ip = b
    BY <1>1, <1>3 DEF Pool, NoneLost
  <2>2. ASSUME NEW v \in Scanners, Busy(v), scanner[v].dongle.ip = b
        PROVE  Busy(v)' /\ scanner'[v].dongle.ip = b
    BY <1>1, <1>4, <2>2
  <2>3. QED
    BY <1>3, <2>1, <2>2
<1>8. Fed'
  <2>1. ~ctx' /\ jobs' => \E v \in Scanners : scanner'[v].at # "done"
    BY <1>1, <1>4
  <2>2. QED
    BY <1>1, <1>2, <2>1 DEF Pool, Fed
<1>9. QED
  BY <1>5, <1>6, <1>7, <1>8 DEF Pool

\* A result goes from the goroutine to the collector.
LEMMA DeliverKeeps ==
  ASSUME ScanTypes, Pool, NEW w \in Scanners, Discover!Deliver(w)
  PROVE  Pool'
<1> DEFINE d == scanner[w].dongle
<1>1. /\ ctx' = ctx /\ reachable' = reachable /\ jobs' = jobs
      /\ Discover!FirstOffset' = Discover!FirstOffset
      /\ Discover!EndOffset' = Discover!EndOffset
      /\ \A v \in Scanners : v # w => scanner'[v] = scanner[v] /\ (Busy(v)' <=> Busy(v))
  BY GoroutineFrame DEF Goroutine
<1>2. /\ next' = next /\ dongles' = Append(dongles, d) /\ scanner[w].at = "send"
      /\ scanner'[w].at = "idle"
  BY DEF Discover!Deliver, Discover!Goes, Discover!Scanning, ScanTypes
<1>3. Busy(w) /\ ~Busy(w)' /\ d \in Rows
  BY <1>2 DEF Busy, ScanTypes
<1>4. d.ip \in reachable /\ d.ip \in Handed /\ d.ip \notin Ips(dongles)
  BY <1>2, <1>3 DEF Pool, InHand
<1>5. Handed' = Handed
  BY <1>1, <1>2 DEF Handed
<1>6. Ips(dongles)' = Ips(dongles) \cup {d.ip} /\ Distinct(dongles)'
  <2>1. Ips(Append(dongles, d)) = Ips(dongles) \cup {d.ip} /\ Distinct(Append(dongles, d))
    BY <1>3, <1>4, IpsAppend DEF Pool, Results, ScanTypes
  <2>2. QED
    BY <1>2, <2>1
<1>7. Results'
  BY <1>1, <1>4, <1>5, <1>6 DEF Pool, Results
<1>8. InHand'
  <2>1. \A v \in Scanners : Busy(v)' => /\ Busy(v) /\ scanner'[v] = scanner[v]
                                        /\ scanner[v].dongle.ip # d.ip
    BY <1>1, <1>3 DEF Pool, InHand
  <2>2. QED
    BY <1>1, <1>5, <1>6, <2>1 DEF Pool, InHand
<1>9. NoneLost'
  <2> SUFFICES ASSUME ~ctx', NEW b \in reachable' \cap Handed'
               PROVE  b \in Ips(dongles)'
                      \/ \E v \in Scanners : Busy(v)' /\ scanner'[v].dongle.ip = b
    BY DEF NoneLost
  <2>1. b \in Ips(dongles) \/ \E v \in Scanners : Busy(v) /\ scanner[v].dongle.ip = b
    BY <1>1, <1>5 DEF Pool, NoneLost
  <2>2. ASSUME NEW v \in Scanners, Busy(v), scanner[v].dongle.ip = b
        PROVE  b = d.ip \/ (Busy(v)' /\ scanner'[v].dongle.ip = b)
    BY <1>1, <2>2
  <2>3. QED
    BY <1>6, <2>1, <2>2
<1>10. Fed'
  BY <1>1, <1>2 DEF Pool, Fed
<1>11. QED
  BY <1>7, <1>8, <1>9, <1>10 DEF Pool

\* The jobs channel is closed after the last address, or after a cancellation.
LEMMA CloseKeeps ==
  ASSUME ScanTypes, Pool, Discover!CloseJobs PROVE Pool'
<1>1. /\ UNCHANGED <<ctx, hostBits, reachable, dongles, next, scanner>>
      /\ jobs' = FALSE /\ (next >= Discover!EndOffset \/ ctx)
  BY DEF Discover!CloseJobs, Discover!flags
<1>2. /\ Discover!FirstOffset' = Discover!FirstOffset
      /\ Discover!EndOffset' = Discover!EndOffset
  BY <1>1 DEF Discover!FirstOffset, Discover!EndOffset
<1>3. Results' /\ InHand' /\ NoneLost'
  BY <1>1, <1>2 DEF Pool, Results, InHand, NoneLost, Handed, Busy
<1>4. Discover!EndOffset \in Nat /\ next \in Nat
  BY UsableRange DEF ScanTypes
<1>5. Fed'
  BY <1>1, <1>2, <1>4 DEF Pool, Fed
<1>6. QED
  BY <1>3, <1>5 DEF Pool

\* When every goroutine is done and nobody has cancelled, the results are the
\* reachable hosts of the subnet.
LEMMA AllFound ==
  ASSUME ScanTypes, Pool, ~ctx, \A w \in Scanners : scanner[w].at = "done"
  PROVE  Ips(dongles) = reachable \cap Discover!Usable /\ 0 \notin Ips(dongles)
<1>1. /\ Discover!FirstOffset \in Nat
      /\ Discover!Usable = (Discover!FirstOffset + 1)..Discover!EndOffset
  BY UsableRange DEF ScanTypes
<1>2. next = Discover!EndOffset
  BY DEF Pool, Fed
<1>3. Handed = Discover!Usable
  BY <1>1, <1>2 DEF Handed
<1>4. \A w \in Scanners : ~Busy(w)
  BY DEF Busy
<1>5. reachable \cap Handed \subseteq Ips(dongles)
  BY <1>4 DEF Pool, NoneLost
<1>6. Ips(dongles) \subseteq reachable \cap Handed
  BY DEF Pool, Results
<1>7. 0 \notin Handed
  BY <1>1 DEF Handed, ScanTypes
<1>8. QED
  BY <1>3, <1>5, <1>6, <1>7

\* What a datagram carries.
LEMMA DatagramRows ==
  ASSUME NEW datagram \in Discover!Datagrams
  PROVE  /\ datagram.dongle \in Rows
         /\ dongles \in Seq(Rows) => Discover!Collect(datagram) \in Seq(Rows)
<1>1. Discover!Addresses \subseteq Nat
  BY HostBitsAssumption, AddressCountDoubles DEF Discover!Addresses
<1>2. ASSUME NEW d \in Discover!Dongles PROVE d \in Rows
  <2>1. d \in [ip : Discover!Addresses, serial : {0} \cup Serials]
    BY DEF Discover!Dongles
  <2>2. d.ip \in Nat /\ d.serial \in Nat /\ d = [ip |-> d.ip, serial |-> d.serial]
    <3>1. /\ d.ip \in Discover!Addresses /\ d.serial \in {0} \cup Serials
          /\ d = [ip |-> d.ip, serial |-> d.serial]
      BY <2>1
    <3>2. d.ip \in Nat
      BY <1>1, <3>1
    <3>3. d.serial \in Nat
      BY <3>1, SerialsAssumption
    <3>4. QED
      BY <3>1, <3>2, <3>3
  <2>3. QED
    BY <2>2 DEF Rows
<1>3. datagram.dongle \in Rows
  <2>1. CASE datagram \in [echo : {FALSE}, dongle : Discover!Dongles]
    BY <1>2, <2>1
  <2>2. CASE datagram \in [echo : {TRUE}, dongle : {Discover!NoDongle}]
    <3>1. datagram.dongle = Discover!NoDongle
      BY <2>2
    <3>2. QED
      BY <3>1 DEF Discover!NoDongle, Rows
  <2>3. QED
    BY <2>1, <2>2 DEF Discover!Datagrams
<1>4. QED
  BY <1>3, IpsAppend DEF Discover!Collect

\* Signals, the service manager and the run command have no hand in a discovery,
\* except that they cancel it.
LEMMA OthersWatch ==
  ASSUME [Next]_vars
  PROVE  /\ command' = command
         /\ \/ command = "discover" /\ Discover!Step
            \/ command = "discover" /\ Discover!Network
            \/ UNCHANGED discoverVars /\ (command # "run" => (ctx => ctx'))
<1> USE DEF commandVars
<1>1. CASE ExecuteCommand
  BY <1>1 DEF ExecuteCommand, RunSteps, DiscoverSteps
<1>2. CASE Incoming
  BY <1>2 DEF Incoming
<1>3. CASE Hang \/ Signal \/ Watch \/ Leave \/ ServiceStop
  BY <1>3 DEF Hang, Signal, Watch, FirstSignal, SecondSignal, Leave, MainReturns,
     ServiceReturns, ServiceStop
<1>4. CASE Restart
  BY <1>4 DEF Restart
<1>5. CASE Over \/ UNCHANGED vars
  BY <1>5 DEF Over, vars
<1>6. QED
  BY <1>1, <1>2, <1>3, <1>4, <1>5 DEF Next

\* A step that leaves the pool alone and does not end a scan keeps the invariant.
LEMMA ScanRests ==
  ASSUME ScanInv, command' = command,
         UNCHANGED <<hostBits, next, scanner>>, dongles' \in Seq(Rows),
         phase' # "scan" \/ ~opened',
         phase' = "print" => ~subnet',
         command = "run" => phase' = phase
  PROVE  ScanInv'
BY DEF ScanInv, ScanTypes, ScanComplete, Discover!ScanComplete

\* The invariant of the scan is inductive.
LEMMA ScanStep == ScanInv /\ [Next]_vars => ScanInv'
<1> SUFFICES ASSUME ScanInv, [Next]_vars PROVE ScanInv'
  OBVIOUS
<1>0. ScanTypes /\ command' = command /\ dongles \in Seq(Rows)
  BY OthersWatch DEF ScanInv, ScanTypes
<1>1. CASE UNCHANGED discoverVars /\ (command # "run" => (ctx => ctx'))
  <2>1. ScanTypes'
    BY <1>0, <1>1 DEF ScanTypes, discoverVars
  <2>2. ScanComplete'
    BY <1>1 DEF ScanInv, ScanComplete, Discover!ScanComplete, Discover!Usable, discoverVars
  <2>3. ASSUME phase' = "scan", opened' PROVE Pool'
    <3>1. phase = "scan" /\ opened /\ (~ctx' => ~ctx)
      BY <1>0, <1>1, <2>3 DEF ScanTypes, discoverVars
    <3>2. Pool
      BY <3>1 DEF ScanInv
    <3>3. QED
      BY <1>1, <3>1, <3>2 DEF Pool, Results, InHand, NoneLost, Fed, Handed, Busy,
         Discover!FirstOffset, Discover!EndOffset, discoverVars
  <2>4. QED
    BY <2>1, <2>2, <2>3 DEF ScanInv
<1>2. CASE command = "discover" /\ Discover!Network
  <2>1. PICK datagram \in Discover!Datagrams : Discover!Receive(datagram)
    BY <1>2 DEF Discover!Network
  <2>2. /\ UNCHANGED <<hostBits, next, scanner, phase>> /\ phase \in Discover!UDP
        /\ dongles' = Discover!Collect(datagram)
    BY <2>1 DEF Discover!Receive, Discover!flags, Discover!pool
  <2>3. dongles' \in Seq(Rows)
    BY <1>0, <2>2, DatagramRows
  <2>4. QED
    BY <1>0, <2>2, <2>3, ScanRests DEF Discover!UDP
<1>3. CASE command = "discover" /\ Discover!Step
  <2>1. ASSUME NEW how, Discover!Return(how) PROVE ScanInv'
    <3>1. UNCHANGED <<hostBits, next, scanner, dongles>> /\ phase' = "end"
      BY <2>1 DEF Discover!Return, Discover!flags, Discover!pool
    <3>2. QED
      BY <1>0, <1>3, <3>1, ScanRests
  <2>2. CASE Discover!NothingToDo \/ Discover!EnterCancelled \/ Discover!EnterFails
    BY <2>1, <2>2 DEF Discover!NothingToDo, Discover!EnterCancelled, Discover!EnterFails
  <2>3. CASE Discover!Listen
    <3>1. UNCHANGED <<hostBits, next, scanner, phase>> /\ phase \in Discover!UDP
          /\ dongles' = <<>>
      BY <2>3 DEF Discover!Listen, Discover!flags, Discover!pool
    <3>2. dongles' \in Seq(Rows)
      BY <3>1
    <3>3. QED
      BY <1>0, <3>1, <3>2, ScanRests DEF Discover!UDP
  <2>4. CASE Discover!ListenEnds
    <3>1. CASE Discover!Return("cancelled") \/ Discover!Return("error")
      BY <2>1, <3>1
    <3>2. CASE Discover!Finish(dongles) /\ phase \in Discover!UDP
      <4>1. UNCHANGED <<hostBits, next, scanner, dongles, subnet>> /\ opened' = FALSE
            /\ (phase' = "print" => ~subnet)
        BY <3>2 DEF Discover!Finish, Discover!flags, Discover!pool, Discover!UDP
      <4>2. QED
        BY <1>0, <1>3, <4>1, ScanRests
    <3>3. QED
      BY <2>4, <3>1, <3>2 DEF Discover!ListenEnds
  <2>5. CASE Discover!Output
    <3>1. UNCHANGED <<hostBits, next, scanner, dongles>> /\ phase' = "end"
      BY <2>5 DEF Discover!Output, Discover!flags, Discover!pool
    <3>2. QED
      BY <1>0, <1>3, <3>1, ScanRests
  <2>6. CASE Discover!StartScan
    <3>1. Pool'
      BY <1>0, <2>6, ScanStarts
    <3>2. /\ hostBits' = hostBits /\ phase' = "scan" /\ dongles' = <<>>
          /\ next' = Discover!FirstOffset
      BY <2>6 DEF Discover!StartScan, Discover!flags
    <3>3. next' \in Nat /\ dongles' \in Seq(Rows)
      BY <1>0, <3>2, UsableRange DEF ScanTypes
    <3>4. scanner' \in [Scanners -> [at : {"idle", "probe", "send", "done"}, dongle : Rows]]
      BY <2>6 DEF Discover!StartScan, Discover!NoDongle, Rows
    <3>5. ScanTypes'
      BY <1>0, <1>3, <3>2, <3>3, <3>4 DEF ScanTypes
    <3>6. QED
      BY <3>1, <3>2, <3>5 DEF ScanInv, ScanComplete, Discover!ScanComplete
  <2>7. CASE Discover!CloseJobs
    <3>1. phase = "scan" /\ opened /\ UNCHANGED <<hostBits, next, scanner, dongles, phase>>
      BY <2>7 DEF Discover!CloseJobs, Discover!flags
    <3>2. Pool'
      BY <1>0, <2>7, <3>1, CloseKeeps DEF ScanInv
    <3>3. ScanTypes'
      BY <1>0, <3>1 DEF ScanTypes
    <3>4. QED
      BY <3>1, <3>2, <3>3 DEF ScanInv, ScanComplete, Discover!ScanComplete
  <2>8. ASSUME NEW w \in Scanners, Goroutine(w) PROVE ScanInv'
    <3>1. phase = "scan" /\ opened
      BY <2>8 DEF Goroutine, Discover!Feed, Discover!ProbeMiss, Discover!ProbeHit,
         Discover!Deliver, Discover!DropResult, Discover!Quit, Discover!Scanning
    <3>2. phase' = "scan" /\ hostBits' = hostBits
      BY <1>0, <2>8, <3>1, GoroutineFrame
    <3>3. Pool
      BY <3>1 DEF ScanInv
    <3>4. Pool'
      BY <1>0, <2>8, <3>3, FeedKeeps, ProbeKeeps, DeliverKeeps DEF Goroutine
    <3>5. ScanTypes'
      <4>1. /\ next' \in Nat /\ dongles' \in Seq(Rows)
            /\ scanner' \in [Scanners ->
                 [at : {"idle", "probe", "send", "done"}, dongle : Rows]]
        BY <1>0, <2>8, GoroutineTypes
      <4>2. QED
        BY <1>0, <1>3, <3>2, <4>1 DEF ScanTypes
    <3>6. QED
      BY <3>2, <3>4, <3>5 DEF ScanInv, ScanComplete, Discover!ScanComplete
  <2>9. CASE Discover!ScanEnds
    <3>1. CASE Discover!Return("cancelled")
      BY <2>1, <3>1
    <3>2. CASE ~ctx /\ Discover!Finish(Discover!SortDongles(dongles))
      <4> DEFINE sorted == Discover!SortDongles(dongles)
      <4>1. /\ UNCHANGED <<hostBits, next, scanner, reachable>> /\ opened' = FALSE
            /\ dongles' = sorted /\ phase' = "print"
        BY <2>9, <3>2 DEF Discover!ScanEnds, Discover!Finish, Discover!flags, Discover!pool
      <4>2. Pool
        BY <2>9 DEF Discover!ScanEnds, ScanInv
      <4>3. Ips(dongles) = reachable \cap Discover!Usable /\ 0 \notin Ips(dongles)
        BY <1>0, <2>9, <3>2, <4>2, AllFound DEF Discover!ScanEnds
      <4>4. /\ sorted \in Seq(Rows) /\ Ascending(sorted)
            /\ \A i \in DOMAIN sorted : \E k \in DOMAIN dongles : sorted[i] = dongles[k]
            /\ \A k \in DOMAIN dongles : \E i \in DOMAIN sorted : sorted[i] = dongles[k]
        BY <1>0, <4>2, <4>3, SortKeeps DEF Pool, Results
      <4> HIDE DEF sorted
      <4>5. Ips(sorted) = Ips(dongles)
        <5>1. \A a : a \in Ips(sorted) => a \in Ips(dongles)
          BY <4>4 DEF Ips
        <5>2. \A a : a \in Ips(dongles) => a \in Ips(sorted)
          BY <4>4 DEF Ips
        <5>3. QED
          BY <5>1, <5>2
      <4>6. Discover!Usable' = Discover!Usable
        BY <4>1 DEF Discover!Usable
      <4>7. ScanComplete'
        <5>1. /\ Ips(dongles') = reachable' \cap Discover!Usable'
              /\ Ascending(dongles')
          BY <4>1, <4>3, <4>4, <4>5, <4>6
        <5>2. QED
          BY <5>1 DEF ScanComplete, Discover!ScanComplete, Ips, Ascending
      <4>8. ScanTypes'
        BY <1>0, <1>3, <4>1, <4>4 DEF ScanTypes
      <4>9. QED
        BY <4>1, <4>7, <4>8 DEF ScanInv
    <3>3. QED
      BY <2>9, <3>1, <3>2 DEF Discover!ScanEnds
  <2>10. QED
    BY <1>3, <2>2, <2>3, <2>4, <2>5, <2>6, <2>7, <2>8, <2>9
       DEF Discover!Step, Discover!Scan, Goroutine
<1>4. QED
  BY <1>1, <1>2, <1>3, OthersWatch

\* The invariant of the scan holds at the start.
LEMMA ScanInit == Init => ScanInv
<1> SUFFICES ASSUME Init PROVE ScanInv
  OBVIOUS
<1>1. /\ next = 0 /\ dongles = <<>> /\ opened = FALSE
      /\ scanner = [w \in Scanners |-> [at |-> "done", dongle |-> Discover!NoDongle]]
      /\ phase \in {"broadcast", "unicast"}
      /\ hostBits \in IF subnet THEN 0..MaxHostBits ELSE {0}
  BY DEF Init, Discover!Init
<1>2. hostBits \in Nat
  BY <1>1, HostBitsAssumption
<1>3. dongles \in Seq(Rows)
  BY <1>1
<1>4. scanner \in [Scanners -> [at : {"idle", "probe", "send", "done"}, dongle : Rows]]
  BY <1>1 DEF Discover!NoDongle, Rows
<1>5. QED
  BY <1>1, <1>2, <1>3, <1>4 DEF ScanInv, ScanTypes, ScanComplete, Discover!ScanComplete

\* A scan that returns without an error has found each reachable host of the
\* subnet exactly once and in the order of addresses, however many goroutines
\* shared the work, for every size of the subnet.
THEOREM ScanFindsAll == Spec => []ScanComplete
<1>1. ScanInv => ScanComplete
  BY DEF ScanInv
<1>2. QED
  BY <1>1, ScanInit, ScanStep, PTL DEF Spec

-----------------------------------------------------------------------------
(***************************************************************************)
(* The table.  Until it is printed, every dongle reported is stood for by  *)
(* a row or waits in the list of the discovery under way, every row stands *)
(* for a dongle reported, and as long as no reply was malformed the rows   *)
(* merged so far are full and one per dongle.                              *)
(***************************************************************************)
Covered ==
  \A d \in reported : StandsIn(found, d) \/ (opened /\ \E i \in DOMAIN dongles : dongles[i] = d)

WellFormed ==
  ~malformed => /\ OneRow(found)
                /\ phase # "print" => Full(found)
                /\ phase \in Discover!UDP /\ opened => Full(dongles)

TableInv ==
  /\ reported \subseteq Rows
  /\ phase = "print" => ~opened
  /\ phase # "end" =>
       /\ found \in Seq(Rows)
       /\ opened => \A i \in DOMAIN dongles : dongles[i] \in reported
       /\ Covered /\ Backed(found, reported) /\ WellFormed

\* A discovery ends and its list is merged.
LEMMA FinishKeeps ==
  ASSUME TableInv, opened, phase \in {"broadcast", "unicast", "scan"},
         NEW list \in Seq(Rows), Discover!Finish(list),
         \A k \in DOMAIN list : list[k] \in reported,
         \A i \in DOMAIN dongles : \E k \in DOMAIN list : list[k] = dongles[i],
         ~malformed => /\ Separate(list) /\ \A k \in DOMAIN list : list[k].ip # 0
                       /\ phase # "scan" => Full(list)
  PROVE  TableInv'
<1>1. /\ found' = Discover!MergeDongles(found, list) /\ opened' = FALSE
      /\ reported' = reported /\ malformed' = malformed
      /\ phase' # "end" /\ (phase = "scan" => phase' = "print")
  BY DEF Discover!Finish
<1>2. /\ found \in Seq(Rows) /\ reported \subseteq Rows
      /\ Covered /\ Backed(found, reported) /\ WellFormed
  BY DEF TableInv
<1>3. /\ found' \in Seq(Rows)
      /\ \A e \in Rows : StandsIn(found, e) => StandsIn(found', e)
      /\ \A k \in DOMAIN list : StandsIn(found', list[k])
      /\ Backed(found', reported)
  <2>1. reported \in SUBSET Rows
    BY <1>2
  <2>2. QED
    BY <1>1, <1>2, <2>1, MergeStands
<1>4. \A d \in reported : StandsIn(found', d)
  BY <1>2, <1>3 DEF Covered
<1>5. ASSUME ~malformed PROVE OneRow(found') /\ (phase # "scan" => Full(found'))
  <2>1. OneRow(found) /\ Full(found)
    BY <1>2, <1>5 DEF WellFormed
  <2>2. QED
    BY <1>1, <1>2, <1>5, <2>1, MergeKeepsOneRow
<1>6. Covered' /\ Backed(found, reported)'
  BY <1>1, <1>3, <1>4 DEF Covered
<1>7. WellFormed'
  BY <1>1, <1>5 DEF WellFormed
<1>8. QED
  BY <1>1, <1>2, <1>3, <1>6, <1>7 DEF TableInv

\* A step that collects and merges nothing and opens no socket anew.
LEMMA TableRests ==
  ASSUME TableInv,
         UNCHANGED <<found, reported, malformed, opened, phase, dongles>>
  PROVE  TableInv'
BY DEF TableInv, Covered, WellFormed

\* The dongle d is collected and reported.
LEMMA CollectKeeps ==
  ASSUME TableInv, ScanTypes, NEW d \in Rows, opened, phase # "end",
         dongles' = Append(dongles, d), reported' = reported \cup {d},
         UNCHANGED <<found, opened, phase>>,
         ~malformed' => ~malformed /\ (phase \in Discover!UDP => d.ip # 0 /\ d.serial # 0)
  PROVE  TableInv'
<1>1. dongles \in Seq(Rows)
  BY DEF ScanTypes
<1>2. /\ \A i \in DOMAIN dongles' :
           dongles'[i] = d \/ \E k \in DOMAIN dongles : dongles'[i] = dongles[k]
      /\ \E i \in DOMAIN dongles' : dongles'[i] = d
      /\ \A k \in DOMAIN dongles : \E i \in DOMAIN dongles' : dongles'[i] = dongles[k]
  BY <1>1, IpsAppend
<1>3. /\ found \in Seq(Rows) /\ reported \subseteq Rows
      /\ \A i \in DOMAIN dongles : dongles[i] \in reported
      /\ Covered /\ Backed(found, reported) /\ WellFormed /\ phase # "print"
  BY DEF TableInv
<1>4. Covered'
  BY <1>2, <1>3 DEF Covered
<1>5. Backed(found, reported)'
  BY <1>3 DEF Backed
<1>6. WellFormed'
  <2> SUFFICES ASSUME ~malformed'
               PROVE  /\ OneRow(found') /\ Full(found')
                      /\ phase' \in Discover!UDP => Full(dongles')
    BY DEF WellFormed
  <2>1. OneRow(found) /\ Full(found) /\ (phase \in Discover!UDP => Full(dongles))
    BY <1>3 DEF WellFormed
  <2>2. phase \in Discover!UDP => Full(dongles')
    BY <1>2, <2>1 DEF Full
  <2>3. QED
    BY <2>1, <2>2
<1>7. QED
  BY <1>2, <1>3, <1>4, <1>5, <1>6 DEF TableInv

\* The invariant of the table is inductive, given the one of the scan.
LEMMA TableStep == ScanInv /\ TableInv /\ [Next]_vars => TableInv'
<1> SUFFICES ASSUME ScanInv, TableInv, [Next]_vars PROVE TableInv'
  OBVIOUS
<1>0. ScanTypes /\ dongles \in Seq(Rows)
  BY DEF ScanInv, ScanTypes
<1>1. CASE UNCHANGED discoverVars
  BY <1>1, TableRests DEF discoverVars
<1>2. CASE Discover!Network
  <2>1. PICK datagram \in Discover!Datagrams : Discover!Receive(datagram)
    BY <1>2 DEF Discover!Network
  <2>2. /\ UNCHANGED <<found, opened, phase>> /\ phase \in Discover!UDP /\ opened
        /\ dongles' = Discover!Collect(datagram)
    BY <2>1 DEF Discover!Receive
  <2>3. CASE datagram.echo
    <3>1. UNCHANGED <<reported, malformed, dongles>>
      BY <2>1, <2>3 DEF Discover!Receive, Discover!Collect
    <3>2. QED
      BY <2>2, <3>1, TableRests
  <2>4. CASE ~datagram.echo
    <3> DEFINE d == datagram.dongle
    <3>1. /\ dongles' = Append(dongles, d) /\ reported' = reported \cup {d}
          /\ malformed' = (malformed \/ 0 \in {d.ip, d.serial})
      BY <2>1, <2>4 DEF Discover!Receive, Discover!Collect
    <3>2. ~malformed' => ~malformed /\ d.ip # 0 /\ d.serial # 0
      BY <3>1
    <3>3. d \in Rows
      BY DatagramRows
    <3>4. phase # "end"
      BY <2>2 DEF Discover!UDP
    <3>5. QED
      BY <1>0, <2>2, <3>1, <3>2, <3>3, <3>4, CollectKeeps
  <2>5. QED
    BY <2>3, <2>4
<1>3. CASE Discover!Step
  <2>1. ASSUME NEW how, Discover!Return(how) PROVE TableInv'
    BY <2>1 DEF Discover!Return, Discover!table, TableInv
  <2>2. CASE Discover!NothingToDo \/ Discover!EnterCancelled \/ Discover!EnterFails
    BY <2>1, <2>2 DEF Discover!NothingToDo, Discover!EnterCancelled, Discover!EnterFails
  <2>3. CASE Discover!Listen \/ Discover!StartScan
    <3>1. /\ UNCHANGED <<found, reported, malformed, phase>> /\ ~opened
          /\ dongles' = <<>> /\ phase \in {"broadcast", "unicast", "scan"}
      BY <2>3 DEF Discover!Listen, Discover!StartScan, Discover!table, Discover!UDP
    <3>2. Full(dongles') /\ \A i \in DOMAIN dongles' : dongles'[i] \in reported
      BY <3>1 DEF Full
    <3>3. Covered'
      BY <3>1 DEF TableInv, Covered
    <3>4. WellFormed'
      BY <3>1, <3>2 DEF TableInv, WellFormed
    <3>5. QED
      BY <3>1, <3>2, <3>3, <3>4 DEF TableInv
  <2>4. CASE Discover!ListenEnds
    <3>1. CASE Discover!Return("cancelled") \/ Discover!Return("error")
      BY <2>1, <3>1
    <3>2. CASE Discover!Finish(dongles) /\ phase \in Discover!UDP /\ opened
      <4>1. phase \in {"broadcast", "unicast", "scan"} /\ phase # "end"
        BY <3>2 DEF Discover!UDP
      <4>2. \A i \in DOMAIN dongles : dongles[i] \in reported
        BY <3>2, <4>1 DEF TableInv
      <4>3. ASSUME ~malformed PROVE Full(dongles)
        BY <3>2, <4>1, <4>3 DEF TableInv, WellFormed
      <4>4. ~malformed => /\ Separate(dongles) /\ \A k \in DOMAIN dongles : dongles[k].ip # 0
                          /\ phase # "scan" => Full(dongles)
        BY <4>3 DEF Full, Separate
      <4>5. QED
        BY <1>0, <3>2, <4>1, <4>2, <4>4, FinishKeeps
    <3>3. QED
      BY <2>4, <3>1, <3>2 DEF Discover!ListenEnds
  <2>5. CASE Discover!Output
    BY <2>5 DEF Discover!Output, TableInv
  <2>6. CASE Discover!CloseJobs
    BY <2>6, TableRests DEF Discover!CloseJobs, Discover!table
  <2>7. ASSUME NEW w \in Scanners, Discover!Deliver(w) PROVE TableInv'
    <3> DEFINE d == scanner[w].dongle
    <3>1. /\ dongles' = Append(dongles, d) /\ reported' = reported \cup {d}
          /\ UNCHANGED <<found, opened, phase, malformed>> /\ opened /\ phase = "scan"
      BY <2>7 DEF Discover!Deliver, Discover!Goes, Discover!Scanning
    <3>2. d \in Rows
      BY <1>0 DEF ScanTypes
    <3>3. phase # "end" /\ phase \notin Discover!UDP
      BY <3>1 DEF Discover!UDP
    <3>4. QED
      BY <1>0, <3>1, <3>2, <3>3, CollectKeeps
  <2>8. ASSUME NEW w \in Scanners,
               \/ Discover!Feed(w) \/ Discover!ProbeMiss(w) \/ Discover!ProbeHit(w)
               \/ Discover!DropResult(w) \/ Discover!Quit(w)
        PROVE  TableInv'
    <3>1. UNCHANGED <<found, reported, malformed, opened, phase, dongles>>
      BY <2>8 DEF Discover!Feed, Discover!ProbeMiss, Discover!ProbeHit,
         Discover!DropResult, Discover!Quit, Discover!Goes
    <3>2. QED
      BY <3>1, TableRests
  <2>9. CASE Discover!ScanEnds
    <3>1. CASE Discover!Return("cancelled")
      BY <2>1, <3>1
    <3>2. CASE ~ctx /\ Discover!Finish(Discover!SortDongles(dongles))
      <4> DEFINE sorted == Discover!SortDongles(dongles)
      <4>1. phase = "scan" /\ opened /\ Pool
        BY <2>9 DEF Discover!ScanEnds, ScanInv
      <4>2. 0 \notin Ips(dongles)
        BY <1>0, <2>9, <3>2, <4>1, AllFound DEF Discover!ScanEnds
      <4>3. /\ sorted \in Seq(Rows) /\ Distinct(sorted)
            /\ \A i \in DOMAIN sorted : \E k \in DOMAIN dongles : sorted[i] = dongles[k]
            /\ \A k \in DOMAIN dongles : \E i \in DOMAIN sorted : sorted[i] = dongles[k]
        BY <1>0, <4>1, SortKeeps DEF Pool, Results
      <4>4. Discover!Finish(sorted)
        BY <3>2
      <4> HIDE DEF sorted
      <4>5. \A i \in DOMAIN dongles : dongles[i] \in reported /\ dongles[i].ip # 0
        BY <4>1, <4>2 DEF TableInv, Ips
      <4>6. \A i \in DOMAIN sorted : sorted[i] \in reported /\ sorted[i].ip # 0
        BY <4>3, <4>5
      <4>7. \A i \in DOMAIN sorted : i \in Nat
        BY <4>3, LenProperties
      <4>8. Separate(sorted)
        <5> SUFFICES ASSUME NEW k \in DOMAIN sorted, NEW l \in DOMAIN sorted, k < l
                     PROVE  sorted[k].ip # sorted[l].ip
          BY DEF Separate
        <5>1. k # l
          BY <4>7
        <5>2. QED
          BY <4>3, <5>1 DEF Distinct
      <4>9. QED
        BY <4>1, <4>3, <4>4, <4>6, <4>8, FinishKeeps
    <3>3. QED
      BY <2>9, <3>1, <3>2 DEF Discover!ScanEnds
  <2>10. QED
    BY <1>3, <2>2, <2>3, <2>4, <2>5, <2>6, <2>7, <2>8, <2>9
       DEF Discover!Step, Discover!Scan
<1>4. QED
  BY <1>1, <1>2, <1>3, OthersWatch

\* The table has a row for every dongle reported, by UDP or by the scan, and no row
\* that nobody reported; and one row per dongle if every reply named an address and
\* a serial number: whatever was received, in whatever order, and however often.
THEOREM TableRight == Spec => []TableFaithful
<1>1. Init => ScanInv /\ TableInv
  <2> SUFFICES ASSUME Init PROVE ScanInv /\ TableInv
    OBVIOUS
  <2>1. ScanInv
    BY ScanInit
  <2>2. /\ found = <<>> /\ reported = {} /\ opened = FALSE
        /\ phase \in {"broadcast", "unicast"}
    BY DEF Init, Discover!Init
  <2>3. found \in Seq(Rows) /\ OneRow(found) /\ Full(found) /\ Backed(found, reported)
    BY <2>2 DEF OneRow, Full, Backed
  <2>4. QED
    BY <2>1, <2>2, <2>3 DEF TableInv, Covered, WellFormed
<1>2. TableInv => TableFaithful
  BY DEF TableInv, Covered, WellFormed, StandsIn, Stands, Backed, OneRow,
     TableFaithful, Discover!TableFaithful
<1>3. QED
  BY <1>1, <1>2, ScanStep, TableStep, PTL DEF Spec
=============================================================================
