--------------------------- MODULE ExecutorProofs ----------------------------
(***************************************************************************)
(* Proofs about the two ends of the path of a request to the inverter: the *)
(* token of Executor, for every set of callers and all delays, and below   *)
(* the transports the FrameReader that finds the answer among the bytes,   *)
(* for every number of requests and faults.                                *)
(***************************************************************************)
EXTENDS Executor, FrameReader, FiniteSetTheorems, SequenceTheorems, TLAPS

\* The callers that hold the token.
Holds(c) == pc[c] \in {"delayed", "sending"}

(***************************************************************************)
(* The inductive invariant: the token is in the channel or with one caller,*)
(* and the wait of a delayed caller lasts as long as its delay requires,   *)
(* counted from a time that no read since the last write makes longer.     *)
(***************************************************************************)
TokenHeldOnce ==
  /\ \A c \in Callers : Holds(c) => ~token
  /\ \A c, d \in Callers : Holds(c) /\ Holds(d) => c = d

DelayKept ==
  \A c \in Callers : pc[c] = "delayed" => timer + lastSend >= MinimumDelay(op[c])

WriteBeforeSend == lastSend <= sinceWrite

IInv == TypeOK /\ TokenHeldOnce /\ DelayKept /\ WriteBeforeSend

-----------------------------------------------------------------------------
\* The minimum delays are natural numbers within the range of the clocks.
LEMMA DelayType ==
  ASSUME NEW o \in Ops
  PROVE  MinimumDelay(o) \in Nat /\ MinimumDelay(o) <= WriteDelay
BY ExecutorAssumption DEF MinimumDelay, Ops

\* What is left of a delay is a time that, added to the age of the last send,
\* makes up the whole delay of a local operation.
LEMMA RemainingCompletes ==
  ASSUME TypeOK, NEW o \in Ops
  PROVE  /\ Remaining(o) \in 0..WriteDelay
         /\ RecordSend(o) => Remaining(o) + lastSend >= MinimumDelay(o)
         /\ ~RecordSend(o) => MinimumDelay(o) = 0
<1>1. MinimumDelay(o) \in Nat /\ MinimumDelay(o) <= WriteDelay
  BY DelayType
<1>2. lastSend \in Nat /\ lastSend <= WriteDelay /\ WriteDelay \in Nat
  BY ExecutorAssumption DEF TypeOK
<1>3. ~RecordSend(o) => MinimumDelay(o) = 0
  BY DEF RecordSend, MinimumDelay, Ops
<1> QED
  BY <1>1, <1>2, <1>3 DEF Remaining

\* A delay that timer and age of the last send make up stays made up while the
\* sum does not fall, or once the age alone is the longest delay.
LEMMA SumKept ==
  ASSUME NEW m \in Nat, NEW t \in Nat, NEW a \in Nat, NEW u \in Nat, NEW b \in Nat,
         NEW w \in Nat, m <= w, t + a >= m, u + b >= t + a \/ b = w
  PROVE  u + b >= m
<1>1. CASE u + b >= t + a
  BY <1>1
<1>2. CASE b = w
  BY <1>2
<1> QED
  BY <1>1, <1>2

\* The steps of a caller and of the clock preserve the invariant.
LEMMA Inductive == IInv /\ [Next]_vars => IInv'
<1> SUFFICES ASSUME IInv, [Next]_vars
             PROVE  IInv'
  OBVIOUS
<1> USE ExecutorAssumption DEF IInv, TypeOK, TokenHeldOnce, DelayKept, WriteBeforeSend, Holds
<1>1. CASE Tick
  <2>1. /\ lastSend' \in 0..WriteDelay /\ sinceWrite' \in 0..WriteDelay
        /\ timer' \in 0..WriteDelay
        /\ lastSend' <= sinceWrite'
        /\ timer' + lastSend' >= timer + lastSend \/ lastSend' = WriteDelay
    BY <1>1 DEF Tick, Later
  <2>2. DelayKept'
    <3> SUFFICES ASSUME NEW c \in Callers, pc'[c] = "delayed"
                 PROVE  timer' + lastSend' >= MinimumDelay(op'[c])
      BY DEF DelayKept
    <3>1. op'[c] = op[c] /\ op[c] \in Ops /\ pc[c] = "delayed"
      BY <1>1 DEF Tick
    <3>2. MinimumDelay(op[c]) \in Nat /\ MinimumDelay(op[c]) <= WriteDelay
      BY <3>1, DelayType
    <3>3. timer + lastSend >= MinimumDelay(op[c])
      BY <3>1
    <3>4. timer \in Nat /\ lastSend \in Nat /\ timer' \in Nat /\ lastSend' \in Nat
      BY <2>1
    <3>5. timer' + lastSend' >= MinimumDelay(op[c])
      BY <2>1, <3>2, <3>3, <3>4, SumKept
    <3> QED
      BY <3>1, <3>5
  <2> QED
    BY <1>1, <2>1, <2>2 DEF Tick
<1>2. ASSUME NEW c \in Callers, Call(c)
      PROVE  IInv'
  BY <1>2 DEF Call, MinimumDelay
<1>3. ASSUME NEW c \in Callers, Cancel(c)
      PROVE  IInv'
  BY <1>3 DEF Cancel
<1>4. ASSUME NEW c \in Callers, GiveUp(c)
      PROVE  IInv'
  BY <1>4 DEF GiveUp, Return, Ops
<1>5. ASSUME NEW c \in Callers, TakeToken(c)
      PROVE  IInv'
  <2>1. op[c] \in Ops
    OBVIOUS
  <2>2. /\ timer' \in 0..WriteDelay
        /\ timer' > 0 => timer' + lastSend >= MinimumDelay(op[c])
    BY <1>5, <2>1, RemainingCompletes DEF TakeToken, Remaining
  <2>3. \A d \in Callers : ~Holds(d)
    BY <1>5 DEF TakeToken
  <2>4. pc' = [pc EXCEPT ![c] = IF timer' > 0 THEN "delayed" ELSE "sending"]
    BY <1>5 DEF TakeToken
  <2> QED
    BY <1>5, <2>2, <2>3, <2>4 DEF TakeToken
<1>6. ASSUME NEW c \in Callers, DelayEnds(c)
      PROVE  IInv'
  <2>1. /\ \A d \in Callers : d # c => ~Holds(d)
        /\ ~token
    BY <1>6 DEF DelayEnds
  <2>2. \A d \in Callers : pc'[d] # "delayed"
    BY <1>6, <2>1 DEF DelayEnds, Return
  <2>3. DelayKept'
    BY <2>2
  <2>4. WriteBeforeSend'
    BY <1>6 DEF DelayEnds
  <2>5. TypeOK'
    <3>1. CASE pc' = [pc EXCEPT ![c] = "sending"] /\ UNCHANGED <<op, ctxDone, token, timer>>
      BY <1>6, <3>1 DEF DelayEnds
    <3>2. CASE Return(c) /\ token' = TRUE /\ timer' = 0
      <4>1. op' \in [Callers -> Ops]
        BY <3>2 DEF Return, Ops
      <4>2. ctxDone' \in [Callers -> BOOLEAN]
        BY <3>2 DEF Return
      <4> QED
        BY <1>6, <3>2, <4>1, <4>2 DEF DelayEnds, Return
    <3> QED
      BY <1>6, <3>1, <3>2 DEF DelayEnds
  <2>6. TokenHeldOnce'
    BY <1>6, <2>1 DEF DelayEnds, Return
  <2> QED
    BY <2>3, <2>4, <2>5, <2>6
<1>7. ASSUME NEW c \in Callers, SendSucceeds(c)
      PROVE  IInv'
  BY <1>7 DEF SendSucceeds, Return, Ops, RecordSend
<1>8. ASSUME NEW c \in Callers, SendFails(c)
      PROVE  IInv'
  BY <1>8 DEF SendFails, Return, Ops
<1>9. CASE UNCHANGED vars
  BY <1>9 DEF vars
<1> QED
  BY <1>1, <1>2, <1>3, <1>4, <1>5, <1>6, <1>7, <1>8, <1>9 DEF Next, Execute, Send

\* The invariant holds at the start.
LEMMA Initial == Init => IInv
BY ExecutorAssumption
   DEF Init, IInv, TypeOK, TokenHeldOnce, DelayKept, WriteBeforeSend, Holds, Ops

\* The state of facade and executor has its type.
THEOREM TypeCorrect == Spec => []TypeOK
<1>1. IInv => TypeOK
  BY DEF IInv
<1> QED
  BY Initial, Inductive, <1>1, PTL DEF Spec

\* Calls of any number of goroutines never overlap in the transport: a caller in
\* it holds the token, and the token is held once.
THEOREM CallsExclusive == Spec => []NeverOverlap
<1>1. IInv => NeverOverlap
  <2> SUFFICES ASSUME IInv
               PROVE  NeverOverlap
    OBVIOUS
  <2> DEFINE S == {c \in Callers : pc[c] = "sending"}
  <2>1. \A c, d \in S : c = d
    BY DEF IInv, TokenHeldOnce, Holds
  <2>2. S = {} \/ \E c : S = {c}
    BY <2>1
  <2>3. Cardinality(S) <= 1
    <3>1. CASE S = {}
      <4>1. Cardinality(S) = 0
        BY <3>1, FS_EmptySet
      <4> QED
        BY <4>1
    <3>2. CASE \E c : S = {c}
      <4>1. PICK c : S = {c}
        BY <3>2
      <4>2. Cardinality({c}) = 1
        BY FS_Singleton
      <4>3. Cardinality(S) = 1
        BY <4>1, <4>2
      <4> QED
        BY <4>3
    <3> QED
      BY <2>2, <3>1, <3>2
  <2> QED
    BY <2>3 DEF NeverOverlap
<1> QED
  BY Initial, Inductive, <1>1, PTL DEF Spec

\* Local writes keep their distance for any callers and delays.  A write goes to
\* the transport when its wait is over or when no delay was left; either way the
\* last local send, and with it the last write, is at least WriteDelay ago.
THEOREM SpacingKept == Spec => WritesSpaced
<1> DEFINE Spaced == \A c \in Callers : Sends(c) /\ op[c] = "write" => sinceWrite >= WriteDelay
<1>1. IInv /\ [Next]_vars => [Spaced]_vars
  <2> SUFFICES ASSUME IInv, Next, NEW c \in Callers, Sends(c), op[c] = "write"
               PROVE  sinceWrite >= WriteDelay
    OBVIOUS
  <2> USE ExecutorAssumption DEF IInv, TypeOK, Sends
  <2>1. MinimumDelay(op[c]) = WriteDelay /\ RecordSend(op[c]) /\ op[c] \in Ops
    BY DEF MinimumDelay, RecordSend
  <2>2. SUFFICES lastSend >= WriteDelay
    BY DEF WriteBeforeSend
  <2>3. TakeToken(c) \/ DelayEnds(c)
    <3>1. ~Tick
      BY DEF Tick
    <3>2. \A d \in Callers : ~Call(d) /\ ~Cancel(d) /\ ~GiveUp(d) /\ ~Send(d)
      BY DEF Call, Cancel, GiveUp, Send, SendSucceeds, SendFails, Return
    <3>3. \A d \in Callers : TakeToken(d) \/ DelayEnds(d) => d = c
      BY DEF TakeToken, DelayEnds, Return
    <3> QED
      BY <3>1, <3>2, <3>3 DEF Next, Execute
  <2>4. CASE TakeToken(c)
    <3>1. timer' = Remaining(op[c]) /\ ~(timer' > 0)
      BY <2>4 DEF TakeToken
    <3>2. Remaining(op[c]) = 0
      BY <3>1, <2>1, RemainingCompletes
    <3> QED
      BY <3>2, <2>1, RemainingCompletes
  <2>5. CASE DelayEnds(c)
    <3>1. timer = 0 /\ pc[c] = "delayed"
      BY <2>5 DEF DelayEnds, Return
    <3> QED
      BY <3>1, <2>1 DEF DelayKept
  <2> QED
    BY <2>3, <2>4, <2>5
<1> QED
  BY Initial, Inductive, <1>1, PTL DEF Spec, WritesSpaced

-----------------------------------------------------------------------------
(***************************************************************************)
(* The frame reader of the transports below the executor, for every number *)
(* of requests and faults.                                                 *)
(***************************************************************************)

\* The bytes of f from place a to place b.
Slice(f, a, b) == SubSeq(f, a + 1, b)

\* The first n bytes and the others.
FirstBytes(bytes, n) == SubSeq(bytes, 1, n)
OtherBytes(bytes, n) == SubSeq(bytes, n + 1, Len(bytes))

\* A frame with a good CRC whose first bytes tell its length.
IsFrame(f) ==
  /\ \E S : f \in Seq(S)
  /\ \/ f[2] >= 128 /\ Len(f) = 5
     \/ f[2] = 16 /\ Len(f) = 8
     \/ f[2] \in {3, 23} /\ f[3] = 2 /\ Len(f) = 7
  /\ f[2] \in Nat
  /\ ValidateCRC(f)

(***************************************************************************)
(* The inductive invariant: as long as nothing has disturbed the call, the *)
(* buffer, the input and the wire hold one frame of the device, cut at two *)
(* places, or nothing because it has not answered yet or has been read.    *)
(***************************************************************************)
Cut(f, a, b) ==
  /\ a \in Nat /\ b \in Nat /\ a <= b /\ b <= Len(f)
  /\ buffer = Slice(f, 0, a) /\ input = Slice(f, a, b) /\ wire = Slice(f, b, Len(f))

Nothing == buffer = <<>> /\ input = <<>> /\ wire = <<>>

OneFrame ==
  \/ reader = "idle" /\ owed = 0 /\ Nothing
  \/ reader = "reading" /\ owed = 1 /\ calls > 0 /\ Nothing
  \/ reader = "reading" /\ owed = 0 /\ \E f, a, b : IsFrame(f) /\ Cut(f, a, b)

ReaderInv ==
  /\ kind \in Kinds /\ owed \in Nat
  /\ calls \in Nat /\ calls <= MaxCalls
  /\ ~spoiled => OneFrame

\* Slices of a sequence.
LEMMA SliceProperties ==
  ASSUME NEW S, NEW f \in Seq(S), NEW a \in Nat, NEW b \in Nat, a <= b, b <= Len(f)
  PROVE  /\ Slice(f, a, b) \in Seq(S)
         /\ Len(Slice(f, a, b)) = b - a
         /\ \A i \in 1..(b - a) : Slice(f, a, b)[i] = f[a + i]
<1>1. Len(f) \in Nat
  BY LenProperties
<1>2. \A i \in (a + 1)..b : f[i] \in S
  <2> TAKE i \in (a + 1)..b
  <2>1. i \in 1..Len(f)
    BY <1>1
  <2>2. QED
    BY <2>1, ElementOfSeq
<1>3. /\ SubSeq(f, a + 1, b) \in Seq(S)
      /\ Len(SubSeq(f, a + 1, b)) = IF a + 1 <= b THEN b - (a + 1) + 1 ELSE 0
      /\ \A i \in 1..(b - (a + 1) + 1) : SubSeq(f, a + 1, b)[i] = f[(a + 1) + i - 1]
  BY <1>2, SubSeqProperties
<1>4. b - (a + 1) + 1 = b - a /\ \A i \in 1..(b - a) : (a + 1) + i - 1 = a + i
  OBVIOUS
<1>5. Len(SubSeq(f, a + 1, b)) = b - a
  BY <1>3
<1>6. QED
  BY <1>3, <1>4, <1>5 DEF Slice

\* Two slices that meet are one.
LEMMA SlicesMeet ==
  ASSUME NEW S, NEW f \in Seq(S), NEW a \in Nat, NEW b \in Nat, NEW c \in Nat,
         a <= b, b <= c, c <= Len(f)
  PROVE  Slice(f, a, b) \o Slice(f, b, c) = Slice(f, a, c)
<1> DEFINE x == Slice(f, a, b)
           y == Slice(f, b, c)
           z == Slice(f, a, c)
<1>0. Len(f) \in Nat /\ b <= Len(f) /\ a <= c
  <2>1. Len(f) \in Nat
    BY LenProperties
  <2>2. QED
    BY <2>1
<1>1. /\ x \in Seq(S) /\ Len(x) = b - a /\ \A i \in 1..(b - a) : x[i] = f[a + i]
  BY <1>0, SliceProperties
<1>2. /\ y \in Seq(S) /\ Len(y) = c - b /\ \A i \in 1..(c - b) : y[i] = f[b + i]
  BY <1>0, SliceProperties
<1>3. /\ z \in Seq(S) /\ Len(z) = c - a /\ \A i \in 1..(c - a) : z[i] = f[a + i]
  BY <1>0, SliceProperties
<1> HIDE DEF x, y, z
<1>4. /\ x \o y \in Seq(S) /\ Len(x \o y) = c - a
      /\ \A i \in 1..(c - a) : (x \o y)[i] = IF i <= b - a THEN x[i] ELSE y[i - (b - a)]
  <2>1. /\ x \o y \in Seq(S) /\ Len(x \o y) = Len(x) + Len(y)
        /\ \A i \in 1..(Len(x) + Len(y)) :
             (x \o y)[i] = IF i <= Len(x) THEN x[i] ELSE y[i - Len(x)]
    BY <1>1, <1>2, ConcatProperties
  <2>2. Len(x) + Len(y) = c - a
    BY <1>1, <1>2
  <2>3. QED
    BY <1>1, <2>1, <2>2
<1>5. \A i \in 1..(c - a) : (x \o y)[i] = z[i]
  <2> TAKE i \in 1..(c - a)
  <2>1. CASE i <= b - a
    <3>1. i \in 1..(b - a)
      BY <2>1
    <3>2. QED
      BY <1>1, <1>3, <1>4, <2>1, <3>1
  <2>2. CASE ~(i <= b - a)
    <3>1. i - (b - a) \in 1..(c - b) /\ b + (i - (b - a)) = a + i /\ ~(i <= b - a)
      BY <2>2
    <3>2. (x \o y)[i] = y[i - (b - a)] /\ y[i - (b - a)] = f[b + (i - (b - a))]
      BY <1>2, <1>4, <3>1
    <3>3. QED
      BY <1>3, <3>1, <3>2
  <2>3. QED
    BY <2>1, <2>2
<1>6. x \o y = z
  BY <1>3, <1>4, <1>5, SeqEqual
<1>7. QED
  BY <1>6 DEF x, y, z

\* A slice of a slice is a slice.
LEMMA SliceOfSlice ==
  ASSUME NEW S, NEW f \in Seq(S), NEW a \in Nat, NEW b \in Nat, a <= b, b <= Len(f),
         NEW n \in Nat, n <= b - a
  PROVE  /\ FirstBytes(Slice(f, a, b), n) = Slice(f, a, a + n)
         /\ OtherBytes(Slice(f, a, b), n) = Slice(f, a + n, b)
<1> DEFINE x == Slice(f, a, b)
<1>0. Len(f) \in Nat
  BY LenProperties
<1>1. /\ x \in Seq(S) /\ Len(x) = b - a /\ \A i \in 1..(b - a) : x[i] = f[a + i]
  BY <1>0, SliceProperties
<1> HIDE DEF x
<1>2. b - a \in Nat /\ n <= Len(x) /\ Len(x) <= Len(x) /\ Len(x) \in Nat
  BY <1>1
<1>3. SubSeq(x, 1, n) = Slice(f, a, a + n)
  <2> DEFINE y == Slice(x, 0, n)
             z == Slice(f, a, a + n)
  <2>1. /\ y \in Seq(S) /\ Len(y) = n - 0 /\ \A i \in 1..(n - 0) : y[i] = x[0 + i]
    <3>1. x \in Seq(S) /\ 0 \in Nat /\ 0 <= n /\ n <= Len(x)
      BY <1>1, <1>2
    <3>2. QED
      BY <3>1, SliceProperties
  <2>2. /\ z \in Seq(S) /\ Len(z) = (a + n) - a /\ \A i \in 1..((a + n) - a) : z[i] = f[a + i]
    <3>1. a + n \in Nat /\ a <= a + n /\ a + n <= Len(f)
      BY <1>0
    <3>2. QED
      BY <3>1, SliceProperties
  <2> HIDE DEF y, z
  <2>3. Len(y) = n /\ Len(z) = n /\ n - 0 = n /\ (a + n) - a = n
    BY <2>1, <2>2
  <2>4. \A i \in 1..n : y[i] = z[i]
    <3> TAKE i \in 1..n
    <3>1. i \in 1..(b - a) /\ 0 + i = i
      BY <1>2
    <3>2. y[i] = x[i] /\ z[i] = f[a + i]
      BY <2>1, <2>2, <2>3, <3>1
    <3>3. QED
      BY <1>1, <3>1, <3>2
  <2>5. y = z
    BY <2>1, <2>2, <2>3, <2>4, SeqEqual
  <2>6. SubSeq(x, 1, n) = y
    BY DEF y, Slice
  <2>7. QED
    BY <2>5, <2>6 DEF z
<1>4. SubSeq(x, n + 1, Len(x)) = Slice(f, a + n, b)
  <2> DEFINE y == Slice(x, n, Len(x))
             z == Slice(f, a + n, b)
             m == b - a - n
  <2>0. Len(x) - n = m /\ m \in Nat /\ b - (a + n) = m
    BY <1>1, <1>2
  <2>1. /\ y \in Seq(S) /\ Len(y) = Len(x) - n /\ \A i \in 1..(Len(x) - n) : y[i] = x[n + i]
    <3>1. x \in Seq(S) /\ Len(x) \in Nat /\ n <= Len(x) /\ Len(x) <= Len(x)
      BY <1>1, <1>2
    <3>2. QED
      BY <3>1, SliceProperties
  <2>2. /\ z \in Seq(S) /\ Len(z) = b - (a + n)
        /\ \A i \in 1..(b - (a + n)) : z[i] = f[(a + n) + i]
    <3>1. a + n \in Nat /\ a + n <= b
      BY <1>0
    <3>2. QED
      BY <3>1, SliceProperties
  <2> HIDE DEF y, z, m
  <2>3. \A i \in 1..m : y[i] = z[i]
    <3> TAKE i \in 1..m
    <3>1. n + i \in 1..(b - a) /\ a + (n + i) = (a + n) + i
      BY <1>2, <2>0 DEF m
    <3>2. y[i] = x[n + i] /\ z[i] = f[(a + n) + i]
      BY <2>0, <2>1, <2>2
    <3>3. QED
      BY <1>1, <3>1, <3>2
  <2>4. y = z
    BY <2>0, <2>1, <2>2, <2>3, SeqEqual
  <2>5. SubSeq(x, n + 1, Len(x)) = y
    BY DEF y, Slice
  <2>6. QED
    BY <2>4, <2>5 DEF z
<1>5. QED
  BY <1>3, <1>4 DEF x, FirstBytes, OtherBytes

\* The whole sequence is a slice, and one without length is empty.
LEMMA SliceEnds ==
  ASSUME NEW S, NEW f \in Seq(S), NEW a \in Nat, NEW b \in Nat, a <= b, b <= Len(f)
  PROVE  /\ Slice(f, 0, Len(f)) = f
         /\ Slice(f, a, b) = <<>> <=> a = b
<1>0. Len(f) \in Nat
  BY LenProperties
<1>1. Slice(f, 0, Len(f)) = f
  <2> DEFINE x == Slice(f, 0, Len(f))
  <2>1. /\ x \in Seq(S) /\ Len(x) = Len(f) - 0
        /\ \A i \in 1..(Len(f) - 0) : x[i] = f[0 + i]
    <3>1. 0 \in Nat /\ 0 <= Len(f) /\ Len(f) <= Len(f)
      BY <1>0
    <3>2. QED
      BY <1>0, <3>1, SliceProperties
  <2> HIDE DEF x
  <2>2. Len(x) = Len(f) /\ \A i \in 1..Len(f) : x[i] = f[i]
    BY <1>0, <2>1
  <2>3. x = f
    BY <2>1, <2>2, SeqEqual
  <2>4. QED
    BY <2>3 DEF x
<1>2. Slice(f, a, b) \in Seq(S) /\ Len(Slice(f, a, b)) = b - a
  BY <1>0, SliceProperties
<1>3. Slice(f, a, b) = <<>> <=> Len(Slice(f, a, b)) = 0
  BY <1>2, EmptySeq
<1>4. b - a = 0 <=> a = b
  OBVIOUS
<1>5. QED
  BY <1>1, <1>2, <1>3, <1>4

\* Bytes taken from the front of one slice and put at the end of the one before
\* it move the place where the two meet.
Moves(f, a, b, c, n) ==
  /\ Slice(f, a, b) \o FirstBytes(Slice(f, b, c), n) = Slice(f, a, b + n)
  /\ OtherBytes(Slice(f, b, c), n) = Slice(f, b + n, c)

\* They do, within the sequence.
LEMMA MoveCut ==
  ASSUME NEW S, NEW f \in Seq(S), NEW a \in Nat, NEW b \in Nat, NEW c \in Nat,
         a <= b, b <= c, c <= Len(f), NEW n \in Nat, n <= c - b
  PROVE  Moves(f, a, b, c, n)
<1>1. /\ FirstBytes(Slice(f, b, c), n) = Slice(f, b, b + n)
      /\ OtherBytes(Slice(f, b, c), n) = Slice(f, b + n, c)
  BY SliceOfSlice
<1>2. b + n \in Nat /\ b <= b + n /\ b + n <= Len(f)
  <2>1. Len(f) \in Nat
    BY LenProperties
  <2>2. QED
    BY <2>1
<1>3. Slice(f, a, b) \o Slice(f, b, b + n) = Slice(f, a, b + n)
  BY <1>2, SlicesMeet
<1>4. QED
  BY <1>1, <1>3 DEF Moves

\* What a payload with its CRC looks like; the bytes of the CRC do not matter.
LEMMA FrameOf ==
  ASSUME NEW S, NEW p \in Seq(S), Len(p) >= 1
  PROVE  LET f == AppendCRC(p)
         IN  /\ \E T : f \in Seq(T)
             /\ Len(f) = Len(p) + 2
             /\ \A i \in 1..Len(p) : f[i] = p[i]
             /\ ValidateCRC(f)
<1> DEFINE c == CRC16(p)
           T == S \cup {c[1], c[2]}
           f == AppendCRC(p)
           n == Len(p)
<1>1. c = <<c[1], c[2]>>
  BY DEF CRC16
<1> HIDE DEF c
<1>2. c \in Seq(T) /\ Len(c) = 2
  <2>1. <<c[1], c[2]>> \in Seq(T) /\ Len(<<c[1], c[2]>>) = 2
    OBVIOUS
  <2>2. QED
    BY <1>1, <2>1
<1>3. p \in Seq(T) /\ n \in Nat /\ n >= 1
  BY SeqMonotonic, LenProperties
<1> HIDE DEF T
<1>4. f = p \o c
  BY DEF AppendCRC, c
<1> HIDE DEF f
<1>5. /\ f \in Seq(T) /\ Len(f) = n + 2
      /\ \A i \in 1..(n + 2) : f[i] = IF i <= n THEN p[i] ELSE c[i - n]
  <2>1. /\ p \o c \in Seq(T) /\ Len(p \o c) = Len(p) + Len(c)
        /\ \A i \in 1..(Len(p) + Len(c)) :
             (p \o c)[i] = IF i <= Len(p) THEN p[i] ELSE c[i - Len(p)]
    BY <1>2, <1>3, ConcatProperties
  <2>2. QED
    BY <1>2, <1>3, <1>4, <2>1
<1> HIDE DEF n
<1>6. \A i \in 1..n : f[i] = p[i]
  <2> TAKE i \in 1..n
  <2>1. i \in 1..(n + 2) /\ i <= n
    BY <1>3
  <2>2. QED
    BY <1>5, <2>1
<1>11. \A i \in Nat, j \in Nat : i <= j /\ j <= Len(f) =>
        /\ Slice(f, i, j) \in Seq(T) /\ Len(Slice(f, i, j)) = j - i
        /\ \A k \in 1..(j - i) : Slice(f, i, j)[k] = f[i + k]
  <2>1. f \in Seq(T)
    BY <1>5
  <2>2. QED
    BY <2>1, SliceProperties
<1>7. SubSeq(f, 1, Len(f) - 2) = p
  <2> DEFINE x == Slice(f, 0, n)
  <2>1. 0 \in Nat /\ 0 <= n /\ n <= Len(f) /\ Len(f) - 2 = n
    BY <1>3, <1>5
  <2>2. /\ x \in Seq(T) /\ Len(x) = n - 0 /\ \A i \in 1..(n - 0) : x[i] = f[0 + i]
    BY <1>3, <1>11, <2>1
  <2>3. x = SubSeq(f, 1, Len(f) - 2)
    BY <2>1 DEF Slice
  <2> HIDE DEF x
  <2>4. Len(x) = n /\ \A i \in 1..n : x[i] = p[i]
    BY <1>3, <1>6, <2>2
  <2>5. x = p
    BY <1>3, <2>2, <2>4, SeqEqual DEF n
  <2>6. QED
    BY <2>3, <2>5
<1>8. SubSeq(f, Len(f) - 1, Len(f)) = c
  <2> DEFINE x == Slice(f, n, Len(f))
  <2>1. n <= Len(f) /\ Len(f) <= Len(f) /\ Len(f) \in Nat /\ Len(f) - 1 = n + 1
    BY <1>3, <1>5
  <2>2. /\ x \in Seq(T) /\ Len(x) = Len(f) - n /\ \A i \in 1..(Len(f) - n) : x[i] = f[n + i]
    BY <1>3, <1>11, <2>1
  <2>3. x = SubSeq(f, Len(f) - 1, Len(f))
    BY <2>1 DEF Slice
  <2> HIDE DEF x
  <2>4. Len(x) = 2 /\ \A i \in 1..2 : x[i] = f[n + i]
    BY <1>3, <1>5, <2>2
  <2>5. \A i \in 1..2 : f[n + i] = c[i]
    <3> TAKE i \in 1..2
    <3>1. n + i \in 1..(n + 2) /\ ~(n + i <= n) /\ (n + i) - n = i
      BY <1>3
    <3>2. QED
      BY <1>5, <3>1
  <2>6. x = c
    BY <1>2, <2>2, <2>4, <2>5, SeqEqual
  <2>7. QED
    BY <2>3, <2>6
<1>9. ValidateCRC(f)
  <2>1. Len(f) >= 2
    BY <1>3, <1>5
  <2>2. QED
    BY <1>7, <1>8, <2>1 DEF ValidateCRC, c
<1>10. QED
  BY <1>5, <1>6, <1>9 DEF f, n

\* Every answer of the device is such a frame.
LEMMA AnswersAreFrames ==
  ASSUME NEW n \in 1..MaxCalls, NEW f \in Answers[n], MaxCalls \in Nat
  PROVE  IsFrame(f)
<1>0. n \in Nat
  OBVIOUS
<1>1. PICK p \in {<<1, 3, 2, 0, n>>, <<1, 16, 0, n, 0, 1>>, <<1, 23, 2, n, 0>>, <<1, 131, n>>} :
        f = AppendCRC(p)
  BY DEF Answers
<1>2. ASSUME p \in Seq(Nat), Len(p) >= 1
      PROVE  /\ \E T : f \in Seq(T)
             /\ Len(f) = Len(p) + 2
             /\ \A i \in 1..Len(p) : f[i] = p[i]
             /\ ValidateCRC(f)
  BY <1>1, <1>2, FrameOf
<1>3. CASE p = <<1, 3, 2, 0, n>>
  <2>1. p \in Seq(Nat) /\ Len(p) = 5 /\ p[2] = 3 /\ p[3] = 2
    BY <1>0, <1>3
  <2>2. Len(f) = 7 /\ f[2] = 3 /\ f[3] = 2
    BY <1>2, <2>1
  <2>3. QED
    BY <1>2, <2>1, <2>2 DEF IsFrame
<1>4. CASE p = <<1, 16, 0, n, 0, 1>>
  <2>1. p \in Seq(Nat) /\ Len(p) = 6 /\ p[2] = 16
    BY <1>0, <1>4
  <2>2. Len(f) = 8 /\ f[2] = 16
    BY <1>2, <2>1
  <2>3. QED
    BY <1>2, <2>1, <2>2 DEF IsFrame
<1>5. CASE p = <<1, 23, 2, n, 0>>
  <2>1. p \in Seq(Nat) /\ Len(p) = 5 /\ p[2] = 23 /\ p[3] = 2
    BY <1>0, <1>5
  <2>2. Len(f) = 7 /\ f[2] = 23 /\ f[3] = 2
    BY <1>2, <2>1
  <2>3. QED
    BY <1>2, <2>1, <2>2 DEF IsFrame
<1>6. CASE p = <<1, 131, n>>
  <2>1. p \in Seq(Nat) /\ Len(p) = 3 /\ p[2] = 131
    BY <1>0, <1>6
  <2>2. Len(f) = 5 /\ f[2] = 131
    BY <1>2, <2>1
  <2>3. QED
    BY <1>2, <2>1, <2>2 DEF IsFrame
<1>7. QED
  BY <1>1, <1>3, <1>4, <1>5, <1>6

\* The length told from the beginning of a frame is unknown or right, and known
\* once the frame is complete.
LEMMA LengthTold ==
  ASSUME NEW f, IsFrame(f), NEW a \in Nat, a <= Len(f)
  PROVE  LET expected == ExpectedResponseLength(Slice(f, 0, a))
         IN  /\ expected \in {0, Len(f)}
             /\ a = Len(f) => expected = Len(f)
             /\ Len(f) \in 5..8 /\ Len(Slice(f, 0, a)) = a
<1> DEFINE x == Slice(f, 0, a)
<1>1. PICK S : f \in Seq(S)
  BY DEF IsFrame
<1>2. Len(f) \in 5..8
  BY DEF IsFrame
<1>3. Len(x) = a /\ \A i \in 1..a : x[i] = f[i]
  <2>1. 0 \in Nat /\ 0 <= a
    OBVIOUS
  <2>2. Len(x) = a - 0 /\ \A i \in 1..(a - 0) : x[i] = f[0 + i]
    BY <1>1, <2>1, SliceProperties
  <2>3. QED
    BY <2>2
<1> HIDE DEF x
<1>4. CASE a < 2
  <2>1. ExpectedResponseLength(x) = 0
    BY <1>3, <1>4 DEF ExpectedResponseLength
  <2>2. a # Len(f)
    BY <1>2, <1>4
  <2>3. QED
    BY <1>2, <1>3, <2>1, <2>2 DEF x
<1>5. CASE a >= 2
  <2>1. x[2] = f[2] /\ Len(x) >= 2 /\ ~(Len(x) < 2)
    BY <1>3, <1>5
  <2>2. a >= 3 => x[3] = f[3]
    BY <1>3
  <2>3. CASE f[2] >= 128 /\ Len(f) = 5
    <3>1. ExpectedResponseLength(x) = 5
      BY <2>1, <2>3 DEF ExpectedResponseLength, IsFrame
    <3>2. QED
      BY <1>2, <1>3, <2>3, <3>1 DEF x
  <2>4. CASE f[2] = 16 /\ Len(f) = 8
    <3>1. ExpectedResponseLength(x) = 8
      BY <2>1, <2>4 DEF ExpectedResponseLength, IsRead
    <3>2. QED
      BY <1>2, <1>3, <2>4, <3>1 DEF x
  <2>5. CASE f[2] \in {3, 23} /\ f[3] = 2 /\ Len(f) = 7
    <3>1. IsRead(x[2]) /\ ~(x[2] >= 128)
      BY <2>1, <2>5 DEF IsRead
    <3>2. ExpectedResponseLength(x) = IF Len(x) < 3 THEN 0 ELSE 3 + x[3] + 2
      BY <2>1, <3>1 DEF ExpectedResponseLength
    <3>3. QED
      BY <1>2, <1>3, <2>2, <2>5, <3>2 DEF x
  <2>6. QED
    BY <2>3, <2>4, <2>5 DEF IsFrame
<1>6. QED
  BY <1>4, <1>5

\* The beginning of a frame, and what a reader that knows its length would say.
LEMMA CutProperties ==
  ASSUME NEW f, IsFrame(f), NEW a, NEW b, Cut(f, a, b)
  PROVE  /\ a \in Nat /\ b \in Nat /\ a <= b /\ b <= Len(f) /\ a <= Len(f)
         /\ Len(f) \in 5..8 /\ Len(buffer) = a
         /\ Len(input) = b - a /\ Len(wire) = Len(f) - b
         /\ input = <<>> <=> a = b
         /\ wire = <<>> <=> b = Len(f)
         /\ ExpectedResponseLength(buffer) \in {0, Len(f)}
         /\ Complete <=> a = Len(f)
<1>1. PICK S : f \in Seq(S)
  BY DEF IsFrame
<1>2. /\ a \in Nat /\ b \in Nat /\ a <= b /\ b <= Len(f)
      /\ buffer = Slice(f, 0, a) /\ input = Slice(f, a, b) /\ wire = Slice(f, b, Len(f))
  BY DEF Cut
<1>3. Len(f) \in Nat /\ a <= Len(f) /\ Len(f) <= Len(f)
  <2>1. Len(f) \in Nat
    BY <1>1, LenProperties
  <2>2. QED
    BY <1>2, <2>1
<1>4. /\ ExpectedResponseLength(buffer) \in {0, Len(f)}
      /\ a = Len(f) => ExpectedResponseLength(buffer) = Len(f)
      /\ Len(f) \in 5..8 /\ Len(buffer) = a
  BY <1>2, <1>3, LengthTold
<1>5. Len(input) = b - a /\ (input = <<>> <=> a = b)
  <2>1. Len(Slice(f, a, b)) = b - a
    BY <1>1, <1>2, SliceProperties
  <2>2. Slice(f, a, b) = <<>> <=> a = b
    BY <1>1, <1>2, SliceEnds
  <2>3. QED
    BY <1>2, <2>1, <2>2
<1>6. Len(wire) = Len(f) - b /\ (wire = <<>> <=> b = Len(f))
  <2>1. Len(Slice(f, b, Len(f))) = Len(f) - b
    BY <1>1, <1>2, <1>3, SliceProperties
  <2>2. Slice(f, b, Len(f)) = <<>> <=> b = Len(f)
    BY <1>1, <1>2, <1>3, SliceEnds
  <2>3. QED
    BY <1>2, <2>1, <2>2
<1>7. Complete <=> a = Len(f)
  <2> DEFINE e == ExpectedResponseLength(buffer)
  <2>1. Complete <=> e \in 1..a
    BY <1>4 DEF Complete
  <2>2. e \in {0, Len(f)} /\ (a = Len(f) => e = Len(f)) /\ Len(f) \in 5..8
    BY <1>4
  <2> HIDE DEF e
  <2>3. e \in 1..a <=> a = Len(f)
    BY <1>2, <1>3, <2>2
  <2>4. QED
    BY <2>1, <2>3
<1>8. QED
  BY <1>2, <1>3, <1>4, <1>5, <1>6, <1>7

\* A reader with an empty buffer has no frame.
LEMMA NothingComplete ==
  ASSUME buffer = <<>>
  PROVE  ~Complete
<1>1. Len(buffer) = 0
  OBVIOUS
<1>2. QED
  BY <1>1 DEF Complete

\* A request begins with one answer owed and nothing left of an older one.
LEMMA SendKeeps ==
  ASSUME MaxCalls \in Nat, ReaderInv, SendRTU
  PROVE  ReaderInv'
<1>1. /\ kind' = kind /\ owed' = owed + 1 /\ calls' = calls + 1 /\ calls < MaxCalls
      /\ reader' = "reading"
      /\ wire' = wire /\ buffer' = buffer /\ input' = ResetInput(input)
      /\ spoiled' = (owed > 0 \/ wire # <<>> \/ buffer # <<>> \/ ResetInput(input) # <<>>)
  BY DEF SendRTU
<1>2. kind \in Kinds /\ owed \in Nat /\ calls \in Nat /\ calls <= MaxCalls
  BY DEF ReaderInv
<1>3. kind' \in Kinds /\ owed' \in Nat /\ calls' \in Nat /\ calls' <= MaxCalls
  BY <1>1, <1>2
<1>4. ~spoiled' => OneFrame'
  <2> SUFFICES ASSUME ~spoiled'
               PROVE  OneFrame'
    OBVIOUS
  <2>1. ~(owed > 0) /\ wire = <<>> /\ buffer = <<>> /\ input' = <<>>
    BY <1>1
  <2>2. owed' = 1 /\ calls' > 0
    BY <1>1, <1>2, <2>1
  <2>3. Nothing'
    BY <1>1, <2>1 DEF Nothing
  <2>4. QED
    BY <1>1, <2>2, <2>3 DEF OneFrame
<1>5. QED
  BY <1>3, <1>4 DEF ReaderInv

\* What the actions do to the counters.
LEMMA CountersKept ==
  ASSUME ReaderInv, kind' = kind, calls' = calls,
         \/ owed' \in {owed, 0}
         \/ owed > 0 /\ owed' = owed - 1
  PROVE  kind' \in Kinds /\ owed' \in Nat /\ calls' \in Nat /\ calls' <= MaxCalls
<1>1. kind \in Kinds /\ owed \in Nat /\ calls \in Nat /\ calls <= MaxCalls
  BY DEF ReaderInv
<1>2. owed' \in Nat
  BY <1>1
<1>3. QED
  BY <1>1, <1>2

\* An undisturbed reader returns the frame, the whole frame and no more.
LEMMA ReturnKeeps ==
  ASSUME ReaderInv, ReturnFrame
  PROVE  ReaderInv'
<1>1. /\ reader = "reading" /\ Complete
      /\ kind' = kind /\ calls' = calls /\ spoiled' = spoiled
  BY DEF ReturnFrame
<1>2. owed' \in {owed, 0}
  BY DEF ReturnFrame, Fail
<1>3. kind' \in Kinds /\ owed' \in Nat /\ calls' \in Nat /\ calls' <= MaxCalls
  BY <1>1, <1>2, CountersKept
<1>4. ASSUME ~spoiled
      PROVE  OneFrame'
  <2>1. owed = 0 /\ \E f, a, b : IsFrame(f) /\ Cut(f, a, b)
    <3>1. OneFrame
      BY <1>4 DEF ReaderInv
    <3>2. ~Nothing
      BY <1>1, NothingComplete DEF Nothing
    <3>3. QED
      BY <1>1, <3>1, <3>2 DEF OneFrame
  <2>2. PICK f, a, b : IsFrame(f) /\ Cut(f, a, b)
    BY <2>1
  <2>3. PICK S : f \in Seq(S)
    BY <2>2 DEF IsFrame
  <2>4. /\ a = Len(f) /\ b = Len(f) /\ Len(f) \in Nat /\ Len(f) # 0
        /\ input = <<>> /\ wire = <<>>
        /\ ExpectedResponseLength(buffer) \in {0, Len(f)}
        /\ Len(buffer) = Len(f)
    <3>1. /\ b \in Nat /\ a <= b /\ b <= Len(f) /\ Len(f) \in 5..8 /\ Len(buffer) = a
          /\ input = <<>> <=> a = b
          /\ wire = <<>> <=> b = Len(f)
          /\ ExpectedResponseLength(buffer) \in {0, Len(f)}
          /\ Complete <=> a = Len(f)
      BY <2>2, CutProperties
    <3>2. a = Len(f)
      BY <1>1, <3>1
    <3>3. b = Len(f) /\ Len(f) \in Nat /\ Len(f) # 0
      BY <3>1, <3>2
    <3>4. QED
      BY <3>1, <3>2, <3>3
  <2>5. buffer = f
    BY <2>2, <2>3, <2>4, SliceEnds DEF Cut
  <2>6. ExpectedResponseLength(buffer) = Len(f)
    BY <1>1, <2>4 DEF Complete
  <2>7. SubSeq(buffer, 1, Len(f)) = f
    <3>1. Slice(f, 0, Len(f)) = f
      BY <2>2, <2>3, <2>4, SliceEnds
    <3>2. QED
      BY <2>5, <3>1 DEF Slice
  <2>8. Rest(Len(f)) = <<>>
    <3>1. Slice(f, Len(f), Len(f)) = <<>>
      BY <2>3, <2>4, SliceEnds
    <3>2. QED
      BY <2>5, <3>1 DEF Slice, Rest
  <2>9. ValidateCRC(f)
    BY <2>2 DEF IsFrame
  <2>10. reader' = "idle" /\ buffer' = <<>> /\ owed' = owed /\ wire' = wire /\ input' = input
    BY <2>6, <2>7, <2>8, <2>9 DEF ReturnFrame
  <2>11. QED
    BY <2>1, <2>4, <2>10 DEF OneFrame, Nothing
<1>5. QED
  BY <1>1, <1>3, <1>4 DEF ReaderInv

\* While nothing has disturbed the call, bytes in the input or on the wire are
\* those of the one frame.
LEMMA BytesAreOfOneFrame ==
  ASSUME ReaderInv, ~spoiled, input # <<>> \/ wire # <<>>
  PROVE  reader = "reading" /\ owed = 0 /\ \E f, a, b : IsFrame(f) /\ Cut(f, a, b)
<1>1. OneFrame
  BY DEF ReaderInv
<1>2. ~Nothing
  BY DEF Nothing
<1>3. QED
  BY <1>1, <1>2 DEF OneFrame

\* The reader never asks for a byte beyond its frame.
LEMMA ReadWithin ==
  ASSUME kind \in Kinds, NEW f, IsFrame(f), NEW a, NEW b, Cut(f, a, b)
  PROVE  LET n == Min({ReadSize, Len(input)})
         IN  n \in Nat /\ n <= b - a
<1> DEFINE e == ExpectedResponseLength(buffer)
           r == ReadSize
           m == Len(input)
<1>1. /\ a \in Nat /\ b \in Nat /\ a <= b /\ b <= Len(f) /\ Len(f) \in 5..8
      /\ Len(buffer) = a /\ m = b - a /\ e \in {0, Len(f)}
  BY CutProperties
<1>2. r \in Nat
  <2>1. r = CASE kind = "modbusrtutcp" -> m
              [] kind = "modbusserial" /\ e > 0 -> e - a
              [] kind = "modbusserial" /\ e = 0 -> IF a < 2 THEN 2 - a ELSE 1
    BY <1>1 DEF ReadSize
  <2> HIDE DEF e, r, m
  <2>2. CASE kind = "modbusrtutcp"
    <3>1. r = m
      BY <2>1, <2>2
    <3>2. QED
      BY <1>1, <3>1
  <2>3. CASE kind = "modbusserial" /\ e = 0
    <3>1. r = IF a < 2 THEN 2 - a ELSE 1
      BY <2>1, <2>3
    <3>2. QED
      BY <1>1, <3>1
  <2>4. CASE kind = "modbusserial" /\ e = Len(f)
    <3>1. e > 0
      BY <1>1, <2>4
    <3>2. r = e - a
      BY <2>1, <2>4, <3>1
    <3>3. QED
      BY <1>1, <2>4, <3>2
  <2>5. QED
    BY <1>1, <2>2, <2>3, <2>4 DEF Kinds
<1>3. m \in Nat
  BY <1>1
<1> HIDE DEF r, m
<1>4. Min({r, m}) \in Nat /\ Min({r, m}) <= m
  <2>1. \E x \in {r, m} : \A y \in {r, m} : x <= y
    BY <1>2, <1>3
  <2>2. /\ Min({r, m}) \in {r, m}
        /\ \A y \in {r, m} : Min({r, m}) <= y
    BY <2>1 DEF Min
  <2>3. QED
    BY <1>2, <1>3, <2>2
<1>5. QED
  BY <1>1, <1>4 DEF r, m

\* A Read moves the first cut.
LEMMA ReadKeeps ==
  ASSUME ReaderInv, Read
  PROVE  ReaderInv'
<1>1. /\ input # <<>> /\ reader' = reader /\ kind' = kind /\ owed' = owed /\ wire' = wire
      /\ calls' = calls /\ spoiled' = spoiled
  BY DEF Read
<1>2. kind' \in Kinds /\ owed' \in Nat /\ calls' \in Nat /\ calls' <= MaxCalls
  BY <1>1, CountersKept
<1>3. ASSUME ~spoiled
      PROVE  OneFrame'
  <2>1. reader = "reading" /\ owed = 0 /\ \E f, a, b : IsFrame(f) /\ Cut(f, a, b)
    BY <1>1, <1>3, BytesAreOfOneFrame
  <2>2. PICK f, a, b : IsFrame(f) /\ Cut(f, a, b)
    BY <2>1
  <2>3. PICK S : f \in Seq(S)
    BY <2>2 DEF IsFrame
  <2>4. PICK n \in Nat :
          /\ n <= b - a /\ buffer' = buffer \o SubSeq(input, 1, n)
          /\ input' = SubSeq(input, n + 1, Len(input))
    <3> DEFINE m == Min({ReadSize, Len(input)})
    <3>1. m \in Nat /\ m <= b - a
      BY <2>2, ReadWithin DEF ReaderInv
    <3>2. buffer' = buffer \o SubSeq(input, 1, m) /\ input' = SubSeq(input, m + 1, Len(input))
      BY DEF Read
    <3> HIDE DEF m
    <3>3. QED
      BY <3>1, <3>2
  <2> DEFINE z == 0
  <2>6. /\ a \in Nat /\ b \in Nat /\ a <= b /\ b <= Len(f) /\ Len(f) \in Nat
        /\ buffer = Slice(f, z, a) /\ input = Slice(f, a, b) /\ wire = Slice(f, b, Len(f))
    BY <2>2, CutProperties DEF Cut
  <2>7. z \in Nat /\ z <= a
    BY <2>6
  <2> HIDE DEF z
  <2>8. a + n \in Nat /\ a + n <= b
    BY <2>4, <2>6
  <2>9. /\ Slice(f, z, a) \o FirstBytes(Slice(f, a, b), n) = Slice(f, z, a + n)
        /\ OtherBytes(Slice(f, a, b), n) = Slice(f, a + n, b)
    <3>1. /\ f \in Seq(S) /\ z \in Nat /\ a \in Nat /\ b \in Nat /\ z <= a /\ a <= b
          /\ b <= Len(f) /\ n \in Nat /\ n <= b - a
      BY <2>3, <2>4, <2>6, <2>7
    <3>2. Moves(f, z, a, b, n)
      BY <3>1, MoveCut
    <3>3. QED
      BY <3>2 DEF Moves
  <2>10. buffer' = Slice(f, z, a + n) /\ input' = Slice(f, a + n, b) /\ wire' = Slice(f, b, Len(f))
    BY <1>1, <2>4, <2>6, <2>9 DEF FirstBytes, OtherBytes
  <2>11. Cut(f, a + n, b)'
    BY <2>6, <2>8, <2>10 DEF Cut, z
  <2>12. QED
    BY <1>1, <2>1, <2>2, <2>11 DEF OneFrame
<1>4. QED
  BY <1>1, <1>2, <1>3 DEF ReaderInv

\* Undisturbed, no deadline passes: the bytes there are complete a frame.
LEMMA TimeoutKeeps ==
  ASSUME ReaderInv, Timeout
  PROVE  ReaderInv'
<1>1. /\ reader = "reading" /\ ~Complete /\ kind' = kind /\ calls' = calls
      /\ \/ input = <<>> /\ wire = <<>> /\ owed = 0 /\ spoiled' = spoiled
         \/ spoiled' = TRUE
  BY DEF Timeout
<1>2. owed' \in {owed, 0}
  BY DEF Timeout, Fail
<1>3. kind' \in Kinds /\ owed' \in Nat /\ calls' \in Nat /\ calls' <= MaxCalls
  BY <1>1, <1>2, CountersKept
<1>4. ASSUME ~spoiled, input = <<>>, wire = <<>>, owed = 0
      PROVE  FALSE
  <2>1. \E f, a, b : IsFrame(f) /\ Cut(f, a, b)
    BY <1>1, <1>4 DEF ReaderInv, OneFrame
  <2>2. PICK f, a, b : IsFrame(f) /\ Cut(f, a, b)
    BY <2>1
  <2>3. a = Len(f)
    BY <1>4, <2>2, CutProperties
  <2>4. QED
    BY <1>1, <2>2, <2>3, CutProperties
<1>5. spoiled'
  BY <1>1, <1>4
<1>6. QED
  BY <1>3, <1>5 DEF ReaderInv

\* The answer of the device is the frame, all of it on the wire.
LEMMA AnswerKeeps ==
  ASSUME MaxCalls \in Nat, ReaderInv, Answer
  PROVE  ReaderInv'
<1>1. /\ owed > 0 /\ owed' = owed - 1 /\ kind' = kind /\ calls' = calls /\ spoiled' = spoiled
      /\ reader' = reader /\ input' = input /\ buffer' = buffer
  BY DEF Answer
<1>2. kind' \in Kinds /\ owed' \in Nat /\ calls' \in Nat /\ calls' <= MaxCalls
  BY <1>1, CountersKept
<1>3. ASSUME ~spoiled
      PROVE  OneFrame'
  <2>1. reader = "reading" /\ owed = 1 /\ calls > 0 /\ Nothing
    BY <1>1, <1>3 DEF ReaderInv, OneFrame
  <2>2. calls \in 1..MaxCalls /\ calls - owed + 1 = calls
    BY <2>1 DEF ReaderInv
  <2>3. PICK f \in Answers[calls] : wire' = wire \o f
    BY <2>2 DEF Answer
  <2>4. IsFrame(f)
    BY <2>2, <2>3, AnswersAreFrames
  <2>5. PICK S : f \in Seq(S)
    BY <2>4 DEF IsFrame
  <2>6. wire' = f
    BY <2>1, <2>3, <2>5 DEF Nothing
  <2> DEFINE z == 0
  <2>7. z \in Nat /\ z <= z /\ z <= Len(f) /\ Len(f) \in Nat
    BY <2>5, LenProperties
  <2>8. Slice(f, z, Len(f)) = f
    BY <2>5, <2>7, SliceEnds
  <2> HIDE DEF z
  <2>9. Slice(f, z, z) = <<>>
    BY <2>5, <2>7, SliceEnds
  <2>10. buffer' = Slice(f, z, z) /\ input' = Slice(f, z, z) /\ wire' = Slice(f, z, Len(f))
    BY <1>1, <2>1, <2>6, <2>8, <2>9 DEF Nothing
  <2>11. Cut(f, z, z)'
    BY <2>7, <2>10 DEF Cut, z
  <2>12. owed' = 0
    BY <1>1, <2>1
  <2>13. QED
    BY <1>1, <2>1, <2>4, <2>11, <2>12 DEF OneFrame
<1>4. QED
  BY <1>1, <1>2, <1>3 DEF ReaderInv

\* Arriving bytes move the second cut.
LEMMA ArriveKeeps ==
  ASSUME ReaderInv, Arrive
  PROVE  ReaderInv'
<1>1. /\ wire # <<>> /\ reader' = reader /\ kind' = kind /\ owed' = owed
      /\ buffer' = buffer /\ calls' = calls /\ spoiled' = spoiled
  BY DEF Arrive
<1>2. kind' \in Kinds /\ owed' \in Nat /\ calls' \in Nat /\ calls' <= MaxCalls
  BY <1>1, CountersKept
<1>3. ASSUME ~spoiled
      PROVE  OneFrame'
  <2>1. reader = "reading" /\ owed = 0 /\ \E f, a, b : IsFrame(f) /\ Cut(f, a, b)
    BY <1>1, <1>3, BytesAreOfOneFrame
  <2>2. PICK f, a, b : IsFrame(f) /\ Cut(f, a, b)
    BY <2>1
  <2>3. PICK S : f \in Seq(S)
    BY <2>2 DEF IsFrame
  <2>4. PICK n \in 1..Len(wire) :
          input' = input \o SubSeq(wire, 1, n) /\ wire' = SubSeq(wire, n + 1, Len(wire))
    BY <2>1 DEF Arrive
  <2> DEFINE c == Len(f)
  <2>5. /\ a \in Nat /\ b \in Nat /\ c \in Nat /\ a <= b /\ b <= c /\ c <= Len(f)
        /\ Len(wire) = c - b
    BY <2>2, CutProperties
  <2>6. buffer = Slice(f, 0, a) /\ input = Slice(f, a, b) /\ wire = Slice(f, b, c)
    BY <2>2 DEF Cut
  <2>7. n \in Nat /\ n <= c - b
    BY <2>4, <2>5
  <2>8. b + n \in Nat /\ b <= b + n /\ b + n <= c /\ a <= b + n /\ b + n <= Len(f)
    BY <2>5, <2>7
  <2> HIDE DEF c
  <2>9. /\ Slice(f, a, b) \o FirstBytes(Slice(f, b, c), n) = Slice(f, a, b + n)
        /\ OtherBytes(Slice(f, b, c), n) = Slice(f, b + n, c)
    <3>1. /\ f \in Seq(S) /\ a \in Nat /\ b \in Nat /\ c \in Nat /\ a <= b /\ b <= c
          /\ c <= Len(f) /\ n \in Nat /\ n <= c - b
      BY <2>3, <2>5, <2>7
    <3>2. Moves(f, a, b, c, n)
      BY <3>1, MoveCut
    <3>3. QED
      BY <3>2 DEF Moves
  <2>10. buffer' = Slice(f, 0, a) /\ input' = Slice(f, a, b + n) /\ wire' = Slice(f, b + n, c)
    BY <1>1, <2>4, <2>6, <2>9 DEF FirstBytes, OtherBytes
  <2>11. Cut(f, a, b + n)'
    BY <2>5, <2>8, <2>10 DEF Cut, c
  <2>12. QED
    BY <1>1, <2>1, <2>2, <2>11 DEF OneFrame
<1>4. QED
  BY <1>1, <1>2, <1>3 DEF ReaderInv

\* Every step keeps the invariant: noise and frames too many spoil the call.
LEMMA ReaderStep == ReaderInv /\ [ReaderNext]_readerVars => ReaderInv'
<1> SUFFICES ASSUME ReaderInv, [ReaderNext]_readerVars
             PROVE  ReaderInv'
  OBVIOUS
<1>0. MaxCalls \in Nat
  BY ReaderAssumption
<1>1. CASE SendRTU
  BY <1>0, <1>1, SendKeeps
<1>2. CASE NextDriver
  <2>1. spoiled' /\ kind' = kind /\ calls' = calls /\ owed' = owed
    BY <1>2 DEF NextDriver, ReaderInv, OneFrame
  <2>2. QED
    BY <2>1, CountersKept DEF ReaderInv
<1>3. CASE ReturnFrame
  BY <1>3, ReturnKeeps
<1>4. CASE Read
  BY <1>4, ReadKeeps
<1>5. CASE Timeout
  BY <1>5, TimeoutKeeps
<1>6. CASE Answer
  BY <1>0, <1>6, AnswerKeeps
<1>7. CASE Arrive
  BY <1>7, ArriveKeeps
<1>8. CASE Noise \/ Repeat
  <2>1. spoiled' /\ kind' = kind /\ calls' = calls /\ owed' = owed
    BY <1>8, Zenon DEF Noise, Repeat
  <2>2. QED
    BY <2>1, CountersKept DEF ReaderInv
<1>9. CASE Done \/ UNCHANGED readerVars
  BY <1>9 DEF Done, readerVars, ReaderInv, OneFrame, Nothing, Cut
<1>10. QED
  BY <1>1, <1>2, <1>3, <1>4, <1>5, <1>6, <1>7, <1>8, <1>9 DEF ReaderNext

\* The reader begins between calls, with nothing on the way.
LEMMA ReaderStarts == ReaderInit => ReaderInv
BY ReaderAssumption DEF ReaderInit, ReaderInv, OneFrame, Nothing

\* For every number of requests, flipped bits, lost bytes, repeated frames and
\* early deadlines: a SendRTU of the RTU-over-TCP and serial transports that met
\* none of them, nor the remains of one, never fails; readFrameLocked finds the
\* frame however the stream is cut into reads.
THEOREM UndisturbedSucceeds == ReaderSpec => []FailsOnlyIfSpoiled
<1>1. ReaderInv => FailsOnlyIfSpoiled
  BY DEF ReaderInv, OneFrame, FailsOnlyIfSpoiled
<1>2. QED
  BY <1>1, ReaderStarts, ReaderStep, PTL DEF ReaderSpec

\* And such a call leaves no byte behind, in transport.pending, in the input or
\* on the wire, that the next call would take for the beginning of its answer.
THEOREM FrameConsumed == ReaderSpec => []ConsumesWholeFrame
<1>1. ReaderInv => ConsumesWholeFrame
  BY DEF ReaderInv, OneFrame, Nothing, ConsumesWholeFrame
<1>2. QED
  BY <1>1, ReaderStarts, ReaderStep, PTL DEF ReaderSpec
=============================================================================
