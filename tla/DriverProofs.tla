---------------------------- MODULE DriverProofs -----------------------------
(***************************************************************************)
(* Proofs about Driver for any number of calls, attempts, sequence numbers *)
(* and stray frames, and for each of the four transports.                  *)
(***************************************************************************)
EXTENDS Driver, FiniteSetTheorems, FunctionTheorems, SequenceTheorems, TLAPS

Busy == {"dial", "redial", "write", "read", "wait"}

Types ==
  /\ LinkTypeOK
  /\ kind \in Kinds
  /\ resends \in 0..(SeqAttempts - 1)
  /\ pending \in Seq(Frames)
  /\ flushed \in [strays : 0..MaxStrays, owed : BOOLEAN]

\* Where a call may be: a failure ends the batch, a retry has no connection.
Placed ==
  /\ pc \in Busy => ~failed /\ call \in Calls
  /\ pc = "wait" => attempt < MaxAttempts
  /\ pc \in {"wait", "redial"} => ~conn
  /\ kind # "modbusrtutcp" => pending = <<>>

(***************************************************************************)
(* Writes after a cancellation.  Without a connection a cancelled call     *)
(* writes nothing, and a call that waits for a retry has none; what is     *)
(* left is the exchange the cancellation came in.                          *)
(***************************************************************************)
LateInv ==
  /\ CancelStops
  /\ kind # "modbusserial" /\ ~ctxDone => lateWrites = 0
  /\ pc \in {"dial", "wait", "redial"} => lateWrites = 0
  /\ pc = "write" => lateWrites <= IF kind = "solarmanv5" THEN resends ELSE 0
  /\ pc = "read" => lateWrites <= IF kind = "solarmanv5" THEN resends + 1 ELSE 1

(***************************************************************************)
(* Sequence numbers.  Each call draws one, so the number a frame of call c *)
(* carries lies Drawn - c steps behind the generator; it is the current    *)
(* one only if c is the current call or a full round of numbers behind it. *)
(***************************************************************************)
Drawn == IF pc = "dial" THEN call - 1 ELSE call

Behind(t, d) == d >= Tags \/ tag = t + d \/ tag + Tags = t + d

Numbered(c, t) == c \in 1..Drawn /\ Behind(t, Drawn - c)

FrameNumbered(f) == (f.call = 0 /\ ~f.good) \/ Numbered(f.call, f.tag)

Sequenced == kind \in {"solarmanv5", "modbustcp"}

AllNumbered ==
  /\ \A i \in DOMAIN inbox : FrameNumbered(inbox[i])
  /\ \A f \in sent : FrameNumbered(f)
  /\ \A i \in DOMAIN todo : Numbered(todo[i].call, todo[i].tag)

TagInv == Sequenced => MatchedByTag /\ (~failed => AllNumbered)

(***************************************************************************)
(* Answers under way.  While no call has failed, a connection and the      *)
(* buffer hold no frame and await no answer beyond the strays and, while   *)
(* a call reads, its own one.                                              *)
(***************************************************************************)
LiveIn(s) == {i \in DOMAIN s : s[i].live}

Live == Cardinality(LiveIn(todo))

BacklogInv ==
  kind # "modbusserial" /\ ~failed =>
    Len(pending) + Len(inbox) + Live <= strays + (IF pc = "read" THEN 1 ELSE 0)

OwnFramesOnly ==
  /\ \A i \in DOMAIN pending : pending[i].call = call
  /\ \A i \in DOMAIN inbox : inbox[i].call = call
  /\ \A i \in LiveIn(todo) : todo[i].call = call

PlaceInv ==
  kind = "modbusrtutcp" /\ strays = 0 => Matched /\ (pc = "read" => OwnFramesOnly)

(***************************************************************************)
(* The serial line.  If nothing was owed at the last flush and no stray    *)
(* frame came in since, the line holds nothing but the current call's.     *)
(***************************************************************************)
Clean == flushed = [strays |-> strays, owed |-> FALSE]

LineInv ==
  /\ flushed.strays <= strays
  /\ \A c \in Calls : c > call \/ (c = call /\ pc \in Busy) => answer[c] = 0
  /\ Clean /\ call > 0 => answer[call] \in {0, call}
  /\ Clean /\ pc = "write" => inbox = <<>> /\ todo = <<>>
  /\ Clean /\ pc = "read" =>
       /\ \A i \in DOMAIN inbox : inbox[i].call = call
       /\ \A i \in DOMAIN todo : todo[i].call = call

FlushInv == kind = "modbusserial" => LineInv

IInv ==
  Types /\ Placed /\ LateInv /\ TagInv /\ BacklogInv /\ PlaceInv /\ FlushInv

-----------------------------------------------------------------------------
(* Lemmas about the operators of the model.                                *)

\* The generator's next number, without division.
LEMMA NextTag ==
  ASSUME NEW t \in 0..(Tags - 1)
  PROVE  (t + 1) % Tags = IF t + 1 = Tags THEN 0 ELSE t + 1
<1>1. Tags \in Nat /\ Tags > 1 /\ t \in Nat /\ t < Tags
  BY LinkAssumption
<1>2. CASE t + 1 = Tags
  BY <1>1, <1>2
<1>3. CASE t + 1 < Tags
  BY <1>1, <1>3
<1>4. QED
  BY <1>1, <1>2, <1>3

\* A queue has finitely many live orders.
LEMMA LiveFinite ==
  ASSUME NEW s \in Seq(Orders)
  PROVE  IsFiniteSet(LiveIn(s)) /\ Cardinality(LiveIn(s)) \in Nat
<1>1. IsFiniteSet(1..Len(s)) /\ LiveIn(s) \subseteq 1..Len(s)
  BY FS_Interval DEF LiveIn
<1>2. IsFiniteSet(LiveIn(s))
  BY <1>1, FS_Subset
<1>3. QED
  BY <1>2, FS_CardinalityType

\* A written request is one more live order.
LEMMA LiveAppend ==
  ASSUME NEW s \in Seq(Orders), NEW o \in Orders, o.live
  PROVE  Cardinality(LiveIn(Append(s, o))) = Cardinality(LiveIn(s)) + 1
<1>1. LiveIn(Append(s, o)) = LiveIn(s) \cup {Len(s) + 1}
  BY DEF LiveIn
<1>2. Len(s) + 1 \notin LiveIn(s)
  BY DEF LiveIn
<1>3. QED
  BY <1>1, <1>2, LiveFinite, FS_AddElement

\* The orders after the first one keep their order one place further on.
LEMMA LiveTail ==
  ASSUME NEW s \in Seq(Orders), s # <<>>
  PROVE  Cardinality(LiveIn(s))
           = Cardinality(LiveIn(Tail(s))) + (IF Head(s).live THEN 1 ELSE 0)
<1> DEFINE later == LiveIn(s) \ {1}
           back == [i \in later |-> i - 1]
<1>1. Tail(s) \in Seq(Orders) /\ Len(s) > 0 /\ Head(s) = s[1]
  BY HeadTailProperties
<1>2. DOMAIN Tail(s) = 1..(Len(s) - 1) /\ \A i \in 1..(Len(s) - 1) : Tail(s)[i] = s[i + 1]
  BY HeadTailProperties
<1>3. back \in Bijection(later, LiveIn(Tail(s)))
  <2>1. later \subseteq 2..Len(s)
    BY DEF LiveIn
  <2>2. \A i \in later : i - 1 \in LiveIn(Tail(s))
    BY <1>2, <2>1 DEF LiveIn
  <2>3. \A j \in LiveIn(Tail(s)) : j + 1 \in later /\ back[j + 1] = j
    BY <1>2 DEF LiveIn
  <2>4. back \in [later -> LiveIn(Tail(s))]
    BY <2>2
  <2>5. \A i, j \in later : back[i] = back[j] => i = j
    BY <2>1
  <2>6. QED
    BY <2>3, <2>4, <2>5, Fun_IsBij
<1>4. Cardinality(later) = Cardinality(LiveIn(Tail(s)))
  <2>1. IsFiniteSet(later)
    BY LiveFinite, FS_Subset
  <2>2. ExistsBijection(later, LiveIn(Tail(s)))
    BY <1>3 DEF ExistsBijection
  <2>3. QED
    BY <2>1, <2>2, FS_Bijection
<1>5. 1 \in LiveIn(s) <=> Head(s).live
  BY <1>1 DEF LiveIn
<1>6. IsFiniteSet(LiveIn(s)) /\ Cardinality(LiveIn(s)) \in Nat
  BY LiveFinite
<1>7. CASE Head(s).live
  <2>1. Cardinality(later) = Cardinality(LiveIn(s)) - 1
    BY <1>5, <1>6, <1>7, FS_RemoveElement
  <2>2. QED
    BY <1>4, <1>6, <1>7, <2>1
<1>8. CASE ~Head(s).live
  <2>1. Cardinality(later) = Cardinality(LiveIn(s))
    BY <1>5, <1>6, <1>8, FS_RemoveElement
  <2>2. QED
    BY <1>4, <1>6, <1>8, <2>1
<1>9. QED
  BY <1>7, <1>8

-----------------------------------------------------------------------------
(***************************************************************************)
(* The steps of a driver, sorted by what they do and not by transport: the *)
(* calls and attempts that the TCP transports share, the three ways to     *)
(* read a frame from a connection, the serial port, and the surroundings.  *)
(***************************************************************************)
LinkMoves ==
  /\ kind # "modbusserial"
  /\ Caller \/ Attempts
  /\ flushed' = flushed
  /\ resends' = resends \/ (pc \in {"dial", "redial"} /\ resends' = 0)
  /\ pending' = pending \/ pending' = <<>>
  /\ pc' = "wait" => pending' = <<>>

NumberedRead ==
  /\ kind \in {"solarmanv5", "modbustcp"}
  /\ pc = "read" /\ inbox # <<>>
  /\ Finish(Head(inbox), Head(inbox).good /\ Head(inbox).tag = tag)
  /\ UNCHANGED <<resends, pending, flushed>>

Resend ==
  /\ kind = "solarmanv5"
  /\ pc = "read" /\ inbox # <<>> /\ resends # SeqAttempts - 1
  /\ pc' = "write"
  /\ inbox' = Tail(inbox)
  /\ resends' = resends + 1
  /\ UNCHANGED <<conn, sent, todo, callVars, ctxDone, failed, history, pending,
                 flushed>>

StreamRead ==
  kind = "modbusrtutcp" /\ RtuTcp!ReadFrame /\ UNCHANGED <<resends, flushed>>

PortMoves ==
  /\ kind = "modbusserial"
  /\ Serial!Transport \/ Serial!Use
  /\ UNCHANGED <<resends, pending>>

Around ==
  /\ Cancel \/ Device \/ UNCHANGED linkVars
  /\ UNCHANGED <<resends, pending, flushed>>

\* An attempt closes its connection when it is going to be repeated.
LEMMA WaitsClosed ==
  ASSUME Attempts \/ Caller, pc' = "wait" PROVE ~conn'
BY DEF Attempts, Caller, Connect, SendRTU, CloseDriver, Dial, Redial, Retry,
   WriteFrame, IOFails, AttemptFails, Fails

\* The transports' steps are the shared ones.
LEMMA SharedSteps ==
  /\ Solarman!Transport =>
       \/ (Dial \/ Redial) /\ resends' = 0
       \/ (Retry \/ WriteFrame \/ IOFails) /\ UNCHANGED resends
       \/ Solarman!ReadFrame
  /\ Tcp!Transport => Attempts \/ Tcp!ReadFrame
  /\ RtuTcp!Transport => (Attempts /\ RtuTcp!KeepPending) \/ RtuTcp!ReadFrame
  /\ RtuTcp!Use => Caller /\ (RtuTcp!KeepPending \/ UNCHANGED pending)
<1>1. /\ Solarman!Dial <=> Dial
      /\ Solarman!Redial <=> Redial
      /\ Solarman!Retry <=> Retry
      /\ Solarman!WriteFrame <=> WriteFrame
      /\ Solarman!IOFails <=> IOFails
  BY DEF Dial, Redial, Retry, WriteFrame, IOFails, AttemptFails,
     Fails, ConnectLocked, callVars, history,
     Solarman!Dial, Solarman!Redial, Solarman!Retry, Solarman!WriteFrame,
     Solarman!IOFails, Solarman!AttemptFails, Solarman!Fails, Solarman!ConnectLocked,
     Solarman!callVars, Solarman!history
<1>2. /\ Tcp!Dial <=> Dial
      /\ Tcp!Redial <=> Redial
      /\ Tcp!Retry <=> Retry
      /\ Tcp!WriteFrame <=> WriteFrame
      /\ Tcp!IOFails <=> IOFails
  BY DEF Dial, Redial, Retry, WriteFrame, IOFails, AttemptFails,
     Fails, ConnectLocked, callVars, history,
     Tcp!Dial, Tcp!Redial, Tcp!Retry, Tcp!WriteFrame,
     Tcp!IOFails, Tcp!AttemptFails, Tcp!Fails, Tcp!ConnectLocked,
     Tcp!callVars, Tcp!history
<1>3. /\ RtuTcp!Dial <=> Dial
      /\ RtuTcp!Redial <=> Redial
      /\ RtuTcp!Retry <=> Retry
      /\ RtuTcp!WriteFrame <=> WriteFrame
      /\ RtuTcp!IOFails <=> IOFails
  BY DEF Dial, Redial, Retry, WriteFrame, IOFails, AttemptFails,
     Fails, ConnectLocked, callVars, history,
     RtuTcp!Dial, RtuTcp!Redial, RtuTcp!Retry, RtuTcp!WriteFrame,
     RtuTcp!IOFails, RtuTcp!AttemptFails, RtuTcp!Fails, RtuTcp!ConnectLocked,
     RtuTcp!callVars, RtuTcp!history
<1>4. /\ RtuTcp!Connect <=> Connect
      /\ RtuTcp!SendRTU <=> SendRTU
      /\ RtuTcp!CloseDriver <=> CloseDriver
  BY DEF Connect, SendRTU, CloseDriver, ConnectLocked, callVars, history,
     RtuTcp!Connect, RtuTcp!SendRTU, RtuTcp!CloseDriver, RtuTcp!ConnectLocked,
     RtuTcp!callVars, RtuTcp!history
<1>5. QED
  BY <1>1, <1>2, <1>3, <1>4 DEF Solarman!Transport, Solarman!Exchange, Tcp!Transport,
     Tcp!InternalSend, RtuTcp!Transport, RtuTcp!InternalSend, RtuTcp!Use, Attempts, Caller

\* Every step of the driver is of one of these sorts.
LEMMA Steps ==
  ASSUME Placed, [Next]_vars
  PROVE  /\ kind' = kind
         /\ \/ LinkMoves \/ NumberedRead \/ Resend \/ StreamRead
            \/ PortMoves \/ Around
<1>1. kind' = kind
  BY DEF Next, vars
<1> SUFFICES \/ LinkMoves \/ NumberedRead \/ Resend \/ StreamRead
             \/ PortMoves \/ Around
  BY <1>1
<1>2. CASE SendRTUWith
  <2>1. CASE kind = "solarmanv5"
    <3>1. CASE Solarman!ReadFrame
      BY <1>2, <2>1, <3>1 DEF SendRTUWith, NumberedRead, Resend, Solarman!ReadFrame,
         Solarman!ParseFrame, Solarman!Finish, Finish, callVars, Solarman!callVars,
         history, Solarman!history
    <3>2. CASE ~Solarman!ReadFrame
      <4>1. /\ Attempts /\ UNCHANGED <<pending, flushed>>
            /\ resends' = resends \/ (pc \in {"dial", "redial"} /\ resends' = 0)
        BY <1>2, <2>1, <3>2, SharedSteps DEF SendRTUWith, Attempts, Dial, Redial
      <4>2. QED
        BY <2>1, <4>1 DEF LinkMoves, Placed
    <3>3. QED
      BY <3>1, <3>2
  <2>2. CASE kind = "modbustcp"
    <3>1. CASE Tcp!ReadFrame
      BY <1>2, <2>2, <3>1 DEF SendRTUWith, NumberedRead, Tcp!ReadFrame,
         Tcp!ParseResponse, Tcp!Finish, Finish, callVars, Tcp!callVars
    <3>2. CASE ~Tcp!ReadFrame
      BY <1>2, <2>2, <3>2, SharedSteps DEF SendRTUWith, LinkMoves, Placed
    <3>3. QED
      BY <3>1, <3>2
  <2>3. CASE kind = "modbusrtutcp"
    <3>1. CASE RtuTcp!ReadFrame
      BY <1>2, <2>3, <3>1 DEF SendRTUWith, StreamRead
    <3>2. CASE ~RtuTcp!ReadFrame
      <4>1. Attempts /\ RtuTcp!KeepPending /\ UNCHANGED <<resends, flushed>>
        BY <1>2, <2>3, <3>2, SharedSteps DEF SendRTUWith
      <4>2. QED
        BY <2>3, <4>1, WaitsClosed DEF LinkMoves, RtuTcp!KeepPending
    <3>3. QED
      BY <3>1, <3>2
  <2>4. CASE kind = "modbusserial"
    BY <1>2, <2>4 DEF SendRTUWith, PortMoves
  <2>5. QED
    BY <1>2, <2>1, <2>2, <2>3, <2>4 DEF SendRTUWith
<1>3. CASE Use
  <2>1. CASE kind = "modbusrtutcp"
    <3>1. /\ Caller /\ UNCHANGED <<resends, flushed>>
          /\ RtuTcp!KeepPending \/ UNCHANGED pending
      BY <1>3, <2>1, SharedSteps DEF Use
    <3>2. pc' # "wait"
      BY <3>1 DEF Caller, Connect, SendRTU, CloseDriver
    <3>3. QED
      BY <2>1, <3>1, <3>2 DEF LinkMoves, RtuTcp!KeepPending
  <2>2. CASE kind = "modbusserial"
    BY <1>3, <2>2 DEF Use, PortMoves
  <2>3. CASE kind \in {"solarmanv5", "modbustcp"}
    BY <1>3, <2>3 DEF Use, LinkMoves, Placed
  <2>4. QED
    BY <1>3, <2>1, <2>2, <2>3 DEF Use
<1>4. CASE Environment
  BY <1>4 DEF Environment, Around, Closed
<1>5. CASE UNCHANGED vars
  BY <1>5 DEF vars, Around
<1>6. QED
  BY <1>2, <1>3, <1>4, <1>5 DEF Next

-----------------------------------------------------------------------------
(* Types, and where a call may be.                                         *)

\* The orders of a closed connection stay orders, none of them live.
LEMMA Orphaned ==
  ASSUME NEW s \in Seq(Orders),
         NEW t, t = [i \in DOMAIN s |-> [s[i] EXCEPT !.live = FALSE]]
  PROVE  /\ t \in Seq(Orders) /\ Len(t) = Len(s)
         /\ \A i \in 1..Len(s) : t[i].call = s[i].call /\ t[i].tag = s[i].tag
         /\ LiveIn(t) = {}
<1>1. DOMAIN s = 1..Len(s) /\ Len(s) \in Nat /\ \A i \in 1..Len(s) : s[i] \in Orders
  BY ElementOfSeq, LenProperties
<1>2. \A i \in 1..Len(s) : /\ t[i] \in Orders /\ t[i].live = FALSE
                           /\ t[i].call = s[i].call /\ t[i].tag = s[i].tag
  BY <1>1 DEF Orders
<1>3. t \in [1..Len(s) -> Orders]
  BY <1>1, <1>2
<1>4. t \in Seq(Orders) /\ Len(t) = Len(s)
  BY <1>1, <1>3
<1>5. QED
  BY <1>1, <1>2, <1>4 DEF LiveIn

\* An emptied connection holds frames.
LEMMA NoFrames == <<>> \in Seq(Frames) /\ {} \subseteq Frames
BY EmptySeq

\* A closed or failed attempt keeps the types.
LEMMA AttemptTypes ==
  ASSUME Types, AttemptFails
  PROVE  /\ conn' \in BOOLEAN /\ failed' \in BOOLEAN /\ pc' \in PCs
         /\ inbox' \in Seq(Frames) /\ sent' \subseteq Frames /\ todo' \in Seq(Orders)
<1>1. todo' \in Seq(Orders)
  BY Orphaned DEF AttemptFails, Types, LinkTypeOK
<1>2. inbox' \in Seq(Frames) /\ sent' \subseteq Frames
  BY NoFrames, Zenon DEF AttemptFails, Types, LinkTypeOK
<1>3. conn' \in BOOLEAN /\ failed' \in BOOLEAN /\ pc' \in PCs
  BY Zenon DEF AttemptFails, Fails, Types, LinkTypeOK, PCs
<1>4. QED
  BY <1>1, <1>2, <1>3

\* The callers' and the attempts' steps keep the types and the places.
LEMMA LinkTypes ==
  ASSUME Types, Placed, LinkMoves, kind' = kind
  PROVE  Types' /\ Placed'
<1> USE LinkAssumption, DriverAssumption DEF Types, LinkTypeOK, Placed
<1>1. /\ kind' \in Kinds /\ flushed' \in [strays : 0..MaxStrays, owed : BOOLEAN]
      /\ resends' \in 0..(SeqAttempts - 1)
  BY DEF LinkMoves
<1>2. pending' \in Seq(Frames) /\ (kind' # "modbusrtutcp" => pending' = <<>>)
  BY NoFrames, Zenon DEF LinkMoves
<1>3. SUFFICES LinkTypeOK' /\ (/\ pc \in Busy => ~failed /\ call \in Calls
                               /\ pc = "wait" => attempt < MaxAttempts
                               /\ pc \in {"wait", "redial"} => ~conn)'
  BY <1>1, <1>2
<1> USE DEF callVars, history, PCs, Busy, Calls
<1>4. ASSUME ConnectLocked
      PROVE  conn' \in BOOLEAN /\ inbox' \in Seq(Frames) /\ sent' \subseteq Frames
  BY <1>4, NoFrames, Zenon DEF ConnectLocked
<1>5. CASE Connect
  <2>1. conn' \in BOOLEAN /\ inbox' \in Seq(Frames) /\ sent' \subseteq Frames
    BY <1>4, <1>5 DEF Connect
  <2>2. failed' \in BOOLEAN
    BY <1>5, Zenon DEF Connect
  <2>3. QED
    BY <1>5, <2>1, <2>2 DEF Connect
<1>6. CASE SendRTU
  BY <1>6 DEF SendRTU
<1>7. CASE CloseDriver
  <2>1. todo' \in Seq(Orders)
    BY <1>7, Orphaned DEF CloseDriver
  <2>2. inbox' \in Seq(Frames) /\ sent' \subseteq Frames
    BY <1>7, NoFrames, Zenon DEF CloseDriver
  <2>3. QED
    BY <1>7, <2>1, <2>2 DEF CloseDriver
<1>8. CASE Dial
  <2>1. conn' \in BOOLEAN /\ inbox' \in Seq(Frames) /\ sent' \subseteq Frames
    BY <1>4, <1>8 DEF Dial
  <2>2. tag' \in 0..(Tags - 1) /\ attempt' \in 0..MaxAttempts
    BY <1>8, NextTag DEF Dial
  <2>3. (pc' = "write" /\ failed' = failed) \/ (pc' = "idle" /\ failed' = TRUE)
    BY <1>8, Zenon DEF Dial, Fails
  <2>4. UNCHANGED <<todo, call, ctxDone, answer, lateWrites, strays>>
    BY <1>8 DEF Dial
  <2>5. call \in Calls /\ ~failed
    BY <1>8 DEF Dial
  <2>6. failed' \in BOOLEAN
    BY <2>3, Zenon
  <2>7. pc' \in {"write", "idle"} /\ (pc' = "write" => ~failed')
    BY <2>3, <2>5
  <2>8. QED
    BY <2>1, <2>2, <2>4, <2>5, <2>6, <2>7
<1>9. ASSUME AttemptFails, pc \in Busy PROVE <1>3!1
  <2>1. /\ conn' \in BOOLEAN /\ failed' \in BOOLEAN /\ pc' \in PCs
        /\ inbox' \in Seq(Frames) /\ sent' \subseteq Frames /\ todo' \in Seq(Orders)
    BY <1>9, AttemptTypes
  <2>2. UNCHANGED <<call, attempt, tag, ctxDone, answer, lateWrites, strays>>
    BY <1>9 DEF AttemptFails
  <2>3. pc' = "idle" \/ (pc' = "wait" /\ ~failed' /\ attempt < MaxAttempts /\ ~conn')
    BY <1>9 DEF AttemptFails, Fails
  <2>4. QED
    BY <1>9, <2>1, <2>2, <2>3
<1>10. CASE Redial
  <2>1. CASE AttemptFails
    BY <1>9, <1>10, <2>1 DEF Redial
  <2>2. CASE ~AttemptFails
    <3>1. conn' \in BOOLEAN /\ inbox' \in Seq(Frames) /\ sent' \subseteq Frames
      BY <1>4, <1>10, <2>2 DEF Redial
    <3>2. pc' = "write" /\ UNCHANGED <<todo, callVars, ctxDone, failed, history>>
      BY <1>10, <2>2 DEF Redial
    <3>3. QED
      BY <1>10, <3>1, <3>2 DEF Redial
  <2>3. QED
    BY <2>1, <2>2
<1>11. CASE Retry
  <2>1. attempt' \in 0..MaxAttempts
    BY <1>11 DEF Retry
  <2>2. (pc' = "redial" /\ failed' = failed) \/ (pc' = "idle" /\ failed' = TRUE)
    BY <1>11, Zenon DEF Retry, Fails
  <2>3. call \in Calls /\ ~failed /\ ~conn
    BY <1>11 DEF Retry
  <2>4. failed' \in BOOLEAN
    BY <2>2, Zenon
  <2>5. pc' \in {"redial", "idle"} /\ (pc' = "redial" => ~failed')
    BY <2>2, <2>3
  <2>6. UNCHANGED <<conn, inbox, sent, todo, call, tag, ctxDone, history>>
    BY <1>11 DEF Retry
  <2>7. QED
    BY <2>1, <2>3, <2>4, <2>5, <2>6
<1>12. CASE WriteFrame
  <2>1. [call |-> call, tag |-> tag, live |-> TRUE] \in Orders
    BY <1>12 DEF WriteFrame, Orders
  <2>2. todo' \in Seq(Orders) /\ lateWrites' \in Nat
    BY <1>12, <2>1 DEF WriteFrame
  <2>3. QED
    BY <1>12, <2>2 DEF WriteFrame
<1>13. CASE IOFails
  BY <1>9, <1>13 DEF IOFails
<1>14. QED
  BY <1>5, <1>6, <1>7, <1>8, <1>10, <1>11, <1>12, <1>13 DEF LinkMoves, Caller, Attempts

\* What a buffer b and the first n frames of the input s leave behind once the
\* first frame of all is returned.
LEMMA FirstFrame ==
  ASSUME NEW b \in Seq(Frames), NEW s \in Seq(Frames),
         NEW n \in IF b = <<>> THEN 1..Len(s) ELSE {0}
  PROVE  LET buffer == b \o SubSeq(s, 1, n)
             rest == SubSeq(s, n + 1, Len(s))
         IN  /\ Tail(buffer) \in Seq(Frames) /\ rest \in Seq(Frames)
             /\ Len(Tail(buffer)) + Len(rest) + 1 = Len(b) + Len(s)
             /\ Head(buffer) \in Frames
             /\ \/ 1 \in DOMAIN b /\ Head(buffer) = b[1]
                \/ 1 \in DOMAIN s /\ Head(buffer) = s[1]
<1> DEFINE read == SubSeq(s, 1, n)
           buffer == b \o read
           rest == SubSeq(s, n + 1, Len(s))
<1>1. /\ Len(s) \in Nat /\ \A i \in 1..Len(s) : s[i] \in Frames
      /\ DOMAIN s = 1..Len(s) /\ DOMAIN b = 1..Len(b) /\ Len(b) \in Nat
      /\ b = <<>> <=> Len(b) = 0
  BY LenProperties, ElementOfSeq, EmptySeq
<1>2. n \in Nat /\ n <= Len(s) /\ Len(s) \in Nat /\ Len(b) \in Nat
  BY <1>1
<1>3. /\ read \in Seq(Frames) /\ Len(read) = n
      /\ \A i \in 1..n : read[i] = s[i]
  BY <1>1, <1>2, SubSeqProperties
<1>4. rest \in Seq(Frames) /\ Len(rest) = Len(s) - n
  <2>1. n + 1 \in Int /\ Len(s) \in Int /\ \A i \in (n + 1)..Len(s) : s[i] \in Frames
    BY <1>1, <1>2
  <2>2. /\ rest \in Seq(Frames)
        /\ Len(rest) = IF n + 1 <= Len(s) THEN Len(s) - (n + 1) + 1 ELSE 0
    BY <2>1, SubSeqProperties
  <2> HIDE DEF rest
  <2>3. CASE n = Len(s)
    BY <1>2, <2>2, <2>3
  <2>4. CASE n < Len(s)
    BY <1>2, <2>2, <2>4
  <2>5. QED
    BY <1>2, <2>3, <2>4
<1> HIDE DEF read, rest
<1>5. /\ buffer \in Seq(Frames) /\ Len(buffer) = Len(b) + n
      /\ \A i \in 1..(Len(b) + n) :
           buffer[i] = IF i <= Len(b) THEN b[i] ELSE read[i - Len(b)]
  BY <1>3, ConcatProperties
<1> HIDE DEF buffer
<1>6. Len(buffer) > 0 /\ buffer[1] = IF Len(b) > 0 THEN b[1] ELSE s[1]
  BY <1>1, <1>2, <1>3, <1>5
<1>7. /\ Head(buffer) \in Frames /\ Head(buffer) = buffer[1]
      /\ Tail(buffer) \in Seq(Frames) /\ Len(Tail(buffer)) = Len(buffer) - 1
  <2>1. buffer # <<>>
    BY <1>5, <1>6
  <2>2. /\ Head(buffer) \in Frames
        /\ Tail(buffer) \in Seq(Frames) /\ Len(Tail(buffer)) = Len(buffer) - 1
    BY <1>5, <2>1, HeadTailProperties
  <2>3. Head(buffer) = buffer[1]
    BY <1>5, <1>6
  <2>4. QED
    BY <2>2, <2>3
<1>8. Len(Tail(buffer)) + Len(rest) + 1 = Len(b) + Len(s)
  <2>1. Len(Tail(buffer)) = Len(b) + n - 1 /\ Len(rest) = Len(s) - n
    BY <1>4, <1>5, <1>7
  <2>2. QED
    BY <1>2, <2>1
<1>9. \/ 1 \in DOMAIN b /\ Head(buffer) = b[1]
      \/ 1 \in DOMAIN s /\ Head(buffer) = s[1]
  BY <1>1, <1>2, <1>6, <1>7
<1>10. QED
  BY <1>4, <1>7, <1>8, <1>9 DEF buffer, rest, read

\* readFrameLocked of the RTU-over-TCP transport returns the oldest frame.
LEMMA StreamReads ==
  ASSUME Types, StreamRead
  PROVE  /\ pc = "read" /\ pc' = "idle"
         /\ UNCHANGED <<conn, sent, todo, call, attempt, tag, ctxDone, lateWrites,
                        strays, resends, flushed>>
         /\ pending' \in Seq(Frames) /\ inbox' \in Seq(Frames)
         /\ Len(pending') + Len(inbox') + 1 = Len(pending) + Len(inbox)
         /\ \E f \in Frames :
              /\ \/ 1 \in DOMAIN pending /\ f = pending[1]
                 \/ 1 \in DOMAIN inbox /\ f = inbox[1]
              /\ failed' = ~f.good
              /\ answer' = [answer EXCEPT ![call] = IF f.good THEN f.call ELSE 0]
<1> USE DEF StreamRead, RtuTcp!ReadFrame
<1>1. /\ pc = "read" /\ pc' = "idle"
      /\ UNCHANGED <<conn, sent, todo, call, attempt, tag, ctxDone, lateWrites,
                     strays, resends, flushed>>
  BY DEF RtuTcp!callVars
<1>2. PICK n \in IF pending = <<>> THEN 1..Len(inbox) ELSE {0} :
        /\ pending' = Tail(pending \o SubSeq(inbox, 1, n))
        /\ inbox' = SubSeq(inbox, n + 1, Len(inbox))
        /\ failed' = ~Head(pending \o SubSeq(inbox, 1, n)).good
        /\ answer' = [answer EXCEPT ![call] =
             IF Head(pending \o SubSeq(inbox, 1, n)).good
             THEN Head(pending \o SubSeq(inbox, 1, n)).call ELSE 0]
  BY DEF RtuTcp!ValidateCRC
<1> DEFINE buffer == pending \o SubSeq(inbox, 1, n)
           rest == SubSeq(inbox, n + 1, Len(inbox))
<1>3. /\ Tail(buffer) \in Seq(Frames) /\ rest \in Seq(Frames)
      /\ Len(Tail(buffer)) + Len(rest) + 1 = Len(pending) + Len(inbox)
      /\ Head(buffer) \in Frames
      /\ \/ 1 \in DOMAIN pending /\ Head(buffer) = pending[1]
         \/ 1 \in DOMAIN inbox /\ Head(buffer) = inbox[1]
  <2>1. pending \in Seq(Frames) /\ inbox \in Seq(Frames)
    BY DEF Types, LinkTypeOK
  <2>2. buffer = pending \o SubSeq(inbox, 1, n) /\ rest = SubSeq(inbox, n + 1, Len(inbox))
    OBVIOUS
  <2> HIDE DEF buffer, rest
  <2>3. QED
    BY <2>1, <2>2, FirstFrame
<1>4. pending' = Tail(buffer) /\ inbox' = rest
  BY <1>2
<1>5. \E f \in Frames :
        /\ \/ 1 \in DOMAIN pending /\ f = pending[1]
           \/ 1 \in DOMAIN inbox /\ f = inbox[1]
        /\ failed' = ~f.good
        /\ answer' = [answer EXCEPT ![call] = IF f.good THEN f.call ELSE 0]
  BY <1>2, <1>3, Zenon
<1> HIDE DEF buffer, rest
<1>6. QED
  BY <1>1, <1>3, <1>4, <1>5

\* The input without its first frame.
LEMMA TailFrames ==
  ASSUME Types, inbox # <<>>
  PROVE  /\ Head(inbox) \in Frames /\ Tail(inbox) \in Seq(Frames)
         /\ Len(inbox) \in Nat /\ Len(Tail(inbox)) = Len(inbox) - 1
         /\ 1 \in DOMAIN inbox /\ Head(inbox) = inbox[1]
         /\ \A i \in DOMAIN Tail(inbox) :
              i + 1 \in DOMAIN inbox /\ Tail(inbox)[i] = inbox[i + 1]
<1>1. inbox \in Seq(Frames)
  BY DEF Types, LinkTypeOK
<1>2. QED
  BY <1>1, HeadTailProperties

\* What SendRTU returns after a frame was read has its type.
LEMMA FinishTypes ==
  ASSUME Types, NEW f \in Frames, NEW good \in BOOLEAN
  PROVE  [answer EXCEPT ![call] = IF good THEN f.call ELSE 0] \in [Calls -> 0..MaxCalls]
<1>1. (IF good THEN f.call ELSE 0) \in 0..MaxCalls
  BY LinkAssumption DEF Frames
<1>2. answer \in [Calls -> 0..MaxCalls]
  BY DEF Types, LinkTypeOK
<1>3. QED
  BY <1>1, <1>2

\* Reading from a connection keeps the types and the places.
LEMMA ReadTypes ==
  ASSUME Types, Placed, NumberedRead \/ Resend \/ StreamRead, kind' = kind
  PROVE  Types' /\ Placed'
<1> USE LinkAssumption, DriverAssumption DEF Types, LinkTypeOK, Placed, PCs, Busy
<1>1. CASE NumberedRead
  <2> DEFINE accepted == Head(inbox).good /\ Head(inbox).tag = tag
  <2>1. inbox' \in Seq(Frames) /\ Head(inbox) \in Frames /\ accepted \in BOOLEAN
    BY <1>1, TailFrames DEF NumberedRead, Finish, Frames
  <2>2. answer' \in [Calls -> 0..MaxCalls]
    BY <1>1, <2>1, FinishTypes DEF NumberedRead, Finish
  <2>3. failed' \in BOOLEAN /\ pc' = "idle"
    BY <1>1, Zenon DEF NumberedRead, Finish
  <2>4. UNCHANGED <<conn, sent, todo, call, attempt, tag, ctxDone, lateWrites, strays,
                    resends, pending, flushed>>
    BY <1>1 DEF NumberedRead, Finish, callVars
  <2>5. QED
    BY <2>1, <2>2, <2>3, <2>4
<1>2. CASE Resend
  <2>1. inbox' \in Seq(Frames)
    BY <1>2, TailFrames DEF Resend
  <2>2. resends' \in 0..(SeqAttempts - 1)
    BY <1>2 DEF Resend
  <2>3. QED
    BY <1>2, <2>1, <2>2 DEF Resend, callVars, history
<1>3. CASE StreamRead
  <2>1. PICK f \in Frames :
          /\ failed' = ~f.good
          /\ answer' = [answer EXCEPT ![call] = IF f.good THEN f.call ELSE 0]
    BY <1>3, StreamReads
  <2>2. f.good \in BOOLEAN
    BY DEF Frames
  <2>3. answer' \in [Calls -> 0..MaxCalls]
    BY <2>1, <2>2, FinishTypes
  <2>4. failed' \in BOOLEAN
    BY <2>1, Zenon
  <2>5. QED
    BY <1>3, <2>3, <2>4, StreamReads DEF StreamRead
<1>4. QED
  BY <1>1, <1>2, <1>3

\* The steps of a serial call, and what each of them leaves alone.
LEMMA PortSteps ==
  ASSUME PortMoves
  PROVE  \/ Serial!Prepare \/ Serial!WriteRequest \/ Serial!ReadFails
         \/ /\ pc = "read" /\ inbox # <<>> /\ flushed' = flushed
            /\ Finish(Head(inbox), Head(inbox).good)
         \/ (Connect \/ SendRTU) /\ flushed' = flushed
         \/ Serial!Close \/ Serial!NextDriver
<1>1. (Serial!Connect <=> Connect) /\ (Serial!SendRTU <=> SendRTU)
  BY DEF Connect, SendRTU, ConnectLocked, callVars, history, Serial!Connect,
     Serial!SendRTU, Serial!ConnectLocked, Serial!callVars, Serial!history
<1>2. Serial!ReadFrame => /\ pc = "read" /\ inbox # <<>> /\ flushed' = flushed
                          /\ Finish(Head(inbox), Head(inbox).good)
  BY DEF Serial!ReadFrame, Serial!Finish, Finish, callVars, Serial!callVars
<1>3. QED
  BY <1>1, <1>2 DEF PortMoves, Serial!Transport, Serial!Use

\* The steps of the serial port keep the types and the places.
LEMMA PortTypes ==
  ASSUME Types, Placed, PortMoves, kind' = kind
  PROVE  Types' /\ Placed'
<1> USE LinkAssumption DEF Types, LinkTypeOK, Placed, PCs, Busy, Calls,
        callVars, history, Serial!callVars, Serial!history, Serial!Fails
<1>1. /\ kind' \in Kinds /\ resends' \in 0..(SeqAttempts - 1)
      /\ pending' \in Seq(Frames) /\ (kind' # "modbusrtutcp" => pending' = <<>>)
  BY DEF PortMoves
<1>2. SUFFICES /\ LinkTypeOK' /\ flushed' \in [strays : 0..MaxStrays, owed : BOOLEAN]
               /\ (/\ pc \in Busy => ~failed /\ call \in Calls
                   /\ pc = "wait" => attempt < MaxAttempts
                   /\ pc \in {"wait", "redial"} => ~conn)'
  BY <1>1
<1>3. CASE Serial!Prepare
  <2>1. Serial!LineState \in [strays : 0..MaxStrays, owed : BOOLEAN]
    BY DEF Serial!LineState
  <2>2. flushed' \in [strays : 0..MaxStrays, owed : BOOLEAN]
    BY <1>3, <2>1 DEF Serial!Prepare
  <2>3. inbox' \in Seq(Frames)
    BY <1>3, NoFrames, Zenon DEF Serial!Prepare
  <2>4. conn' \in BOOLEAN /\ failed' \in BOOLEAN
    BY <1>3, Zenon DEF Serial!Prepare, Serial!OpenPort
  <2>5. pc = "dial" /\ ((pc' = "write" /\ failed' = failed) \/ pc' = "idle")
    BY <1>3 DEF Serial!Prepare
  <2>6. UNCHANGED <<sent, todo, callVars, ctxDone, history>>
    BY <1>3 DEF Serial!Prepare
  <2>7. QED
    BY <2>2, <2>3, <2>4, <2>5, <2>6
<1>4. CASE Serial!WriteRequest
  <2>1. [call |-> call, tag |-> tag, live |-> TRUE] \in Orders
    BY <1>4 DEF Serial!WriteRequest, Orders
  <2>2. Append(todo, [call |-> call, tag |-> tag, live |-> TRUE]) \in Seq(Orders)
    BY <2>1
  <2>3. todo' \in Seq(Orders)
    BY <1>4, <2>2 DEF Serial!WriteRequest
  <2>4. inbox' \in Seq(Frames) /\ sent' \subseteq Frames
    BY <1>4, NoFrames, Zenon DEF Serial!WriteRequest, Serial!CloseAfterError,
       Serial!ClosePort
  <2>5. conn' \in BOOLEAN /\ failed' \in BOOLEAN
    BY <1>4, Zenon DEF Serial!WriteRequest, Serial!CloseAfterError, Serial!ClosePort
  <2>6. pc = "write" /\ ((pc' = "read" /\ failed' = failed) \/ pc' = "idle")
    BY <1>4 DEF Serial!WriteRequest, Serial!CloseAfterError
  <2>7. lateWrites' \in Nat /\ UNCHANGED <<callVars, ctxDone, answer, strays, flushed>>
    BY <1>4 DEF Serial!WriteRequest
  <2>8. QED
    BY <2>3, <2>4, <2>5, <2>6, <2>7
<1>5. ASSUME pc = "read", inbox # <<>>, flushed' = flushed,
             Finish(Head(inbox), Head(inbox).good)
      PROVE  <1>2!1
  <2>1. inbox' \in Seq(Frames) /\ Head(inbox) \in Frames /\ Head(inbox).good \in BOOLEAN
    BY <1>5, TailFrames DEF Finish, Frames
  <2>2. answer' \in [Calls -> 0..MaxCalls]
    BY <1>5, <2>1, FinishTypes DEF Finish
  <2>3. failed' \in BOOLEAN /\ pc' = "idle"
    BY <1>5, Zenon DEF Finish
  <2>4. UNCHANGED <<conn, sent, todo, callVars, ctxDone, lateWrites, strays>>
    BY <1>5 DEF Finish
  <2>5. QED
    BY <1>5, <2>1, <2>2, <2>3, <2>4
<1>6. CASE Serial!ReadFails \/ Serial!Close \/ Serial!NextDriver
  <2>1. inbox' \in Seq(Frames) /\ sent' \subseteq Frames
    BY <1>6, NoFrames, Zenon DEF Serial!ReadFails, Serial!Close, Serial!NextDriver,
       Serial!CloseAfterError, Serial!ClosePort
  <2>2. conn' \in BOOLEAN /\ failed' \in BOOLEAN /\ ctxDone' \in BOOLEAN
    BY <1>6, Zenon DEF Serial!ReadFails, Serial!Close, Serial!NextDriver,
       Serial!CloseAfterError, Serial!ClosePort
  <2>3. /\ pc' \in {"idle", "closed", "new"}
        /\ UNCHANGED <<todo, callVars, history, flushed>>
    BY <1>6 DEF Serial!ReadFails, Serial!Close, Serial!NextDriver,
       Serial!CloseAfterError
  <2>4. QED
    BY <2>1, <2>2, <2>3
<1>7. CASE Connect /\ flushed' = flushed
  <2>1. inbox' \in Seq(Frames) /\ sent' \subseteq Frames
    BY <1>7, NoFrames, Zenon DEF Connect, ConnectLocked
  <2>2. conn' \in BOOLEAN /\ failed' \in BOOLEAN
    BY <1>7, Zenon DEF Connect, ConnectLocked
  <2>3. QED
    BY <1>7, <2>1, <2>2 DEF Connect
<1>8. CASE SendRTU /\ flushed' = flushed
  BY <1>8 DEF SendRTU
<1>9. QED
  BY <1>3, <1>4, <1>5, <1>6, <1>7, <1>8, PortSteps

\* The device takes the oldest order and answers it with a frame, or not at all.
LEMMA DeviceAnswers ==
  ASSUME Types, DeviceExecutes
  PROVE  /\ todo # <<>> /\ Head(todo) \in Orders
         /\ todo' = Tail(todo) /\ Tail(todo) \in Seq(Orders)
         /\ \/ UNCHANGED <<inbox, sent>>
            \/ \E f \in Frames :
                 /\ f.call = Head(todo).call /\ f.tag = Head(todo).tag /\ Head(todo).live
                 /\ inbox' = Append(inbox, f) /\ sent' = sent \cup {f}
<1>1. todo \in Seq(Orders) /\ todo # <<>> /\ todo' = Tail(todo)
  BY DEF Types, LinkTypeOK, DeviceExecutes
<1>2. Tail(todo) \in Seq(Orders) /\ Head(todo) \in Orders
  BY <1>1, HeadTailProperties
<1>3. Head(todo).call \in 0..MaxCalls /\ Head(todo).tag \in 0..(Tags - 1)
  BY <1>2, LinkAssumption DEF Orders, Calls
<1>4. ASSUME NEW g \in BOOLEAN
      PROVE  LET f == [call |-> Head(todo).call, tag |-> Head(todo).tag, good |-> g]
             IN  f \in Frames /\ f.call = Head(todo).call /\ f.tag = Head(todo).tag
  BY <1>3 DEF Frames
<1>5. ASSUME ~UNCHANGED <<inbox, sent>>
      PROVE  \E f \in Frames :
               /\ f.call = Head(todo).call /\ f.tag = Head(todo).tag /\ Head(todo).live
               /\ inbox' = Append(inbox, f) /\ sent' = sent \cup {f}
  <2>1. Head(todo).live
    BY <1>5 DEF DeviceExecutes
  <2>2. PICK g \in BOOLEAN :
          LET f == [call |-> Head(todo).call, tag |-> Head(todo).tag, good |-> g]
          IN  inbox' = Append(inbox, f) /\ sent' = sent \cup {f}
    BY <1>5, Zenon DEF DeviceExecutes
  <2>3. QED
    BY <1>4, <2>1, <2>2, Zenon
<1>6. QED
  BY <1>1, <1>2, <1>5

\* The device's answers are frames.
LEMMA DeviceTypes ==
  ASSUME Types, Device
  PROVE  /\ inbox' \in Seq(Frames) /\ sent' \subseteq Frames /\ todo' \in Seq(Orders)
         /\ strays' \in 0..MaxStrays
         /\ UNCHANGED <<conn, pc, callVars, ctxDone, failed, answer, lateWrites>>
<1> USE LinkAssumption DEF Types, LinkTypeOK
<1>1. CASE DeviceExecutes
  <2>1. inbox' \in Seq(Frames) /\ sent' \subseteq Frames
    <3>1. CASE UNCHANGED <<inbox, sent>>
      BY <3>1
    <3>2. CASE ~UNCHANGED <<inbox, sent>>
      <4>1. PICK f \in Frames : inbox' = Append(inbox, f) /\ sent' = sent \cup {f}
        BY <1>1, <3>2, DeviceAnswers
      <4>2. inbox \in Seq(Frames) /\ sent \subseteq Frames
        OBVIOUS
      <4>3. QED
        BY <4>1, <4>2, AppendProperties
    <3>3. QED
      BY <3>1, <3>2
  <2>2. QED
    BY <1>1, <2>1, DeviceAnswers DEF DeviceExecutes
<1>2. CASE DeviceBabbles
  <2>1. \A t \in 0..(Tags - 1) : [call |-> 0, tag |-> t, good |-> FALSE] \in Frames
    BY DEF Frames
  <2>2. PICK f \in sent \cup {[call |-> 0, tag |-> t, good |-> FALSE] : t \in 0..(Tags - 1)} :
          inbox' = Append(inbox, f)
    BY <1>2 DEF DeviceBabbles
  <2>3. f \in Frames
    BY <2>1, Zenon
  <2>4. inbox' \in Seq(Frames)
    BY <2>2, <2>3
  <2>5. strays' \in 0..MaxStrays
    BY <1>2 DEF DeviceBabbles
  <2>6. QED
    BY <1>2, <2>4, <2>5, Zenon DEF DeviceBabbles
<1>3. QED
  BY <1>1, <1>2 DEF Device

\* Types and places are inductive.
LEMMA TypeStep ==
  ASSUME Types, Placed, [Next]_vars PROVE Types' /\ Placed'
<1>1. CASE LinkMoves
  BY <1>1, LinkTypes, Steps
<1>2. CASE NumberedRead \/ Resend \/ StreamRead
  BY <1>2, ReadTypes, Steps
<1>3. CASE PortMoves
  BY <1>3, PortTypes, Steps
<1>4. CASE Around
  <2>1. kind' = kind /\ UNCHANGED <<resends, pending, flushed>>
    BY <1>4, Steps DEF Around
  <2>2. CASE Cancel
    BY <2>1, <2>2 DEF Cancel, Types, LinkTypeOK, Placed, callVars, history
  <2>3. CASE Device
    BY <2>1, <2>3, DeviceTypes DEF Types, LinkTypeOK, Placed, callVars
  <2>4. CASE UNCHANGED linkVars
    BY <2>1, <2>4 DEF linkVars, Types, LinkTypeOK, Placed, callVars, history
  <2>5. QED
    BY <1>4, <2>2, <2>3, <2>4 DEF Around
<1>5. QED
  BY <1>1, <1>2, <1>3, <1>4, Steps

-----------------------------------------------------------------------------
(* Writes after a cancellation.                                            *)

\* A failed attempt of a cancelled call is the last one.
LEMMA LateStep ==
  ASSUME Types, Placed, LateInv, [Next]_vars PROVE LateInv'
<1>1. /\ kind' = kind /\ lateWrites \in Nat /\ SeqAttempts \in Nat \ {0}
      /\ resends \in Nat /\ resends < SeqAttempts /\ kind \in Kinds
  BY Steps, DriverAssumption DEF Types, LinkTypeOK
<1> USE <1>1 DEF LateInv, CancelStops, Placed, callVars, history
<1>2. CASE LinkMoves
  <2>1. kind # "modbusserial" /\ resends' \in Nat
    BY <1>2 DEF LinkMoves
  <2>2. CASE Connect \/ SendRTU \/ CloseDriver
    BY <1>2, <2>1, <2>2 DEF Connect, SendRTU, CloseDriver
  <2>3. CASE Dial \/ Retry
    BY <1>2, <2>1, <2>3 DEF Dial, Retry, Fails
  <2>4. ASSUME AttemptFails PROVE LateInv'
    BY <1>2, <2>1, <2>4 DEF AttemptFails, Fails
  <2>5. CASE Redial
    <3>1. CASE AttemptFails
      BY <2>4, <3>1
    <3>2. CASE ~AttemptFails
      BY <1>2, <2>1, <2>5, <3>2 DEF Redial, ConnectLocked
    <3>3. QED
      BY <3>1, <3>2
  <2>6. CASE WriteFrame
    <3>1. pc = "write" /\ pc' = "read" /\ resends' = resends /\ ctxDone' = ctxDone
      BY <1>2, <2>6 DEF LinkMoves, WriteFrame
    <3>2. lateWrites' = lateWrites + (IF ctxDone THEN 1 ELSE 0)
      BY <2>6 DEF WriteFrame
    <3>3. QED
      BY <2>1, <3>1, <3>2
  <2>7. CASE IOFails
    BY <2>4, <2>7 DEF IOFails
  <2>8. QED
    BY <1>2, <2>2, <2>3, <2>5, <2>6, <2>7 DEF LinkMoves, Caller, Attempts
<1>3. CASE NumberedRead
  BY <1>3 DEF NumberedRead, Finish
<1>4. CASE Resend
  BY <1>4 DEF Resend
<1>5. CASE StreamRead
  BY <1>5, StreamReads DEF StreamRead
<1>6. CASE PortMoves
  <2> USE DEF Serial!callVars, Serial!history, Serial!Fails
  <2>1. kind = "modbusserial" /\ resends' = resends
    BY <1>6 DEF PortMoves
  <2>2. CASE Serial!Prepare
    BY <2>1, <2>2 DEF Serial!Prepare
  <2>3. CASE Serial!WriteRequest
    BY <2>1, <2>3 DEF Serial!WriteRequest, Serial!CloseAfterError
  <2>4. CASE Serial!ReadFails \/ Serial!Close \/ Serial!NextDriver
    BY <2>1, <2>4 DEF Serial!ReadFails, Serial!Close, Serial!NextDriver,
       Serial!CloseAfterError
  <2>5. CASE pc = "read" /\ Finish(Head(inbox), Head(inbox).good)
    BY <2>1, <2>5 DEF Finish
  <2>6. CASE Connect \/ SendRTU
    BY <2>1, <2>6 DEF Connect, SendRTU
  <2>7. QED
    BY <1>6, <2>2, <2>3, <2>4, <2>5, <2>6, PortSteps
<1>7. CASE Around
  <2>1. pc' = pc /\ lateWrites' = lateWrites /\ resends' = resends
        /\ (ctxDone => ctxDone')
    BY <1>7 DEF Around, Cancel, Device, DeviceExecutes, DeviceBabbles, linkVars
  <2>2. QED
    BY <2>1
<1>8. QED
  BY <1>2, <1>3, <1>4, <1>5, <1>6, <1>7, Steps

-----------------------------------------------------------------------------
(* Sequence numbers.                                                       *)

\* Drawing the next number moves every earlier one a step further behind, and
\* none comes round again in less than a full round.
LEMMA DrawStep ==
  ASSUME Types, Placed, Dial, pc' = "write",
         NEW c \in Nat, NEW t \in 0..(Tags - 1), Numbered(c, t)
  PROVE  Numbered(c, t)'
<1>1. /\ tag \in 0..(Tags - 1) /\ Tags \in Nat /\ MaxCalls \in Nat /\ call \in 1..MaxCalls
      /\ pc = "dial" /\ call' = call
  BY LinkAssumption DEF Types, LinkTypeOK, Placed, Busy, Calls, Dial
<1>2. tag' = IF tag + 1 = Tags THEN 0 ELSE tag + 1
  <2>1. tag' = (tag + 1) % Tags
    BY DEF Dial, Fails
  <2>2. QED
    BY <1>1, <2>1, NextTag
<1>3. /\ c \in 1..(call - 1)
      /\ \/ call - 1 - c >= Tags
         \/ tag = t + (call - 1 - c)
         \/ tag + Tags = t + (call - 1 - c)
  BY <1>1 DEF Numbered, Behind, Drawn
<1>4. /\ c \in 1..call
      /\ call - c >= Tags \/ tag' = t + (call - c) \/ tag' + Tags = t + (call - c)
  BY <1>1, <1>2, <1>3
<1>5. QED
  BY <1>1, <1>4 DEF Numbered, Behind, Drawn

\* While the generator stands still, so do the numbers.
LEMMA NumberKept ==
  ASSUME UNCHANGED tag, Drawn' = Drawn, NEW c, NEW t, Numbered(c, t)
  PROVE  Numbered(c, t)'
BY DEF Numbered, Behind

\* A step that adds no frame and no order keeps them numbered.
LEMMA AllKept ==
  ASSUME Types, AllNumbered,
         \A c \in Nat, t \in 0..(Tags - 1) : Numbered(c, t) => Numbered(c, t)',
         \A i \in DOMAIN inbox' : \E j \in DOMAIN inbox : inbox'[i] = inbox[j],
         sent' \subseteq sent,
         \A i \in DOMAIN todo' : \E j \in DOMAIN todo :
            todo'[i].call = todo[j].call /\ todo'[i].tag = todo[j].tag
  PROVE  AllNumbered'
<1>1. \A f \in Frames : FrameNumbered(f) => FrameNumbered(f)'
  <2> SUFFICES ASSUME NEW f \in Frames, FrameNumbered(f) PROVE FrameNumbered(f)'
    OBVIOUS
  <2>1. f.call \in Nat /\ f.tag \in 0..(Tags - 1)
    BY LinkAssumption DEF Frames
  <2>2. QED
    BY <2>1 DEF FrameNumbered
<1>2. /\ \A i \in DOMAIN inbox : inbox[i] \in Frames
      /\ \A f \in sent : f \in Frames
      /\ \A i \in DOMAIN todo : todo[i].call \in Nat /\ todo[i].tag \in 0..(Tags - 1)
  <2>1. inbox \in Seq(Frames) /\ sent \subseteq Frames /\ todo \in Seq(Orders)
    BY DEF Types, LinkTypeOK
  <2>2. /\ \A i \in DOMAIN inbox : inbox[i] \in Frames
        /\ \A i \in DOMAIN todo : todo[i] \in Orders
    BY <2>1, ElementOfSeq, LenProperties
  <2>3. \A o \in Orders : o.call \in Nat /\ o.tag \in 0..(Tags - 1)
    BY LinkAssumption DEF Orders, Calls
  <2>4. QED
    BY <2>1, <2>2, <2>3
<1>3. \A i \in DOMAIN inbox' : FrameNumbered(inbox[i])'
  <2>1. \A i \in DOMAIN inbox' : \E f \in Frames : f = inbox'[i] /\ FrameNumbered(f)'
    BY <1>1, <1>2 DEF AllNumbered
  <2>2. QED
    BY <2>1 DEF FrameNumbered, Numbered, Behind
<1>4. \A f \in sent' : FrameNumbered(f)'
  BY <1>1, <1>2 DEF AllNumbered
<1>5. \A i \in DOMAIN todo' : Numbered(todo[i].call, todo[i].tag)'
  <2>1. \A i \in DOMAIN todo' : \E c \in Nat, t \in 0..(Tags - 1) :
          c = todo'[i].call /\ t = todo'[i].tag /\ Numbered(c, t)'
    BY <1>2 DEF AllNumbered
  <2>2. QED
    BY <2>1 DEF Numbered, Behind
<1>6. QED
  BY <1>3, <1>4, <1>5 DEF AllNumbered

\* A closed connection takes its frames along; its orders stay in the device.
LEMMA QueuesKept ==
  ASSUME Types, inbox' = inbox \/ inbox' = <<>>,
         \/ todo' = todo
         \/ todo' = [i \in DOMAIN todo |-> [todo[i] EXCEPT !.live = FALSE]]
  PROVE  /\ \A i \in DOMAIN inbox' : \E j \in DOMAIN inbox : inbox'[i] = inbox[j]
         /\ \A i \in DOMAIN todo' : \E j \in DOMAIN todo :
              todo'[i].call = todo[j].call /\ todo'[i].tag = todo[j].tag
<1>1. todo \in Seq(Orders)
  BY DEF Types, LinkTypeOK
<1>2. \A i \in DOMAIN inbox' : \E j \in DOMAIN inbox : inbox'[i] = inbox[j]
  <2>1. CASE inbox' = inbox
    BY <2>1
  <2>2. CASE inbox' = <<>>
    BY <2>2
  <2>3. QED
    BY <2>1, <2>2
<1>3. CASE todo' = todo
  BY <1>2, <1>3
<1>4. CASE todo' = [i \in DOMAIN todo |-> [todo[i] EXCEPT !.live = FALSE]]
  <2>1. /\ DOMAIN todo' = DOMAIN todo
        /\ \A i \in DOMAIN todo : todo'[i].call = todo[i].call /\ todo'[i].tag = todo[i].tag
    <3>1. /\ Len(todo') = Len(todo) /\ todo' \in Seq(Orders)
          /\ \A i \in 1..Len(todo) : todo'[i].call = todo[i].call /\ todo'[i].tag = todo[i].tag
      BY <1>1, <1>4, Orphaned
    <3>2. DOMAIN todo = 1..Len(todo) /\ DOMAIN todo' = 1..Len(todo')
      BY <1>1, <3>1, LenProperties
    <3>3. QED
      BY <3>1, <3>2
  <2>2. QED
    BY <1>2, <2>1
<1>5. QED
  BY <1>3, <1>4

\* A numbered frame that carries the current number is the current call's or
\* that of one a full round before.
LEMMA OwnNumber ==
  ASSUME Types, pc = "read",
         NEW f \in Frames, FrameNumbered(f), f.good, f.tag = tag
  PROVE  f.call = call \/ f.call + Tags <= call
<1>1. /\ tag \in Nat /\ tag < Tags /\ Tags \in Nat /\ MaxCalls \in Nat
      /\ call \in Nat /\ call <= MaxCalls /\ f.call \in Nat
  BY LinkAssumption DEF Types, LinkTypeOK, Frames
<1>2. /\ f.call \in 1..call
      /\ \/ call - f.call >= Tags
         \/ tag = tag + (call - f.call)
         \/ tag + Tags = tag + (call - f.call)
  BY <1>1 DEF FrameNumbered, Numbered, Behind, Drawn
<1>3. QED
  BY <1>1, <1>2

\* The attempts and the caller add no frame, and each order under the number in use.
LEMMA LinkNumbered ==
  ASSUME Types, Placed, Sequenced, AllNumbered, LinkMoves, ~failed'
  PROVE  AllNumbered'
<1> USE DEF callVars, history
<1>1. ASSUME UNCHANGED tag, Drawn' = Drawn
      PROVE  \A c \in Nat, t \in 0..(Tags - 1) : Numbered(c, t) => Numbered(c, t)'
  BY <1>1, NumberKept
<1>2. ASSUME Connect \/ CloseDriver \/ SendRTU \/ Redial \/ Retry \/ IOFails
      PROVE  AllNumbered'
  <2>1. /\ inbox' = inbox \/ inbox' = <<>>
        /\ sent' \subseteq sent
        /\ \/ todo' = todo
           \/ todo' = [i \in DOMAIN todo |-> [todo[i] EXCEPT !.live = FALSE]]
    BY <1>2 DEF Connect, CloseDriver, SendRTU, Redial, Retry, IOFails, ConnectLocked,
       AttemptFails
  <2>2. tag' = tag
    BY <1>2 DEF Connect, CloseDriver, SendRTU, Redial, Retry, IOFails, AttemptFails
  <2>3. Drawn' = Drawn
    <3>1. call \in Nat
      BY LinkAssumption DEF Types, LinkTypeOK
    <3>2. CASE SendRTU
      BY <3>1, <3>2 DEF SendRTU, Drawn
    <3>3. CASE ~SendRTU
      <4>1. pc # "dial" /\ pc' # "dial" /\ call' = call
        BY <1>2, <3>3 DEF Connect, CloseDriver, Redial, Retry, IOFails, AttemptFails, Fails
      <4>2. QED
        BY <4>1 DEF Drawn
    <3>4. QED
      BY <3>2, <3>3
  <2>4. QED
    BY <1>1, <2>1, <2>2, <2>3, QueuesKept, AllKept
<1>3. CASE Dial
  <2>1. pc' = "write" /\ ConnectLocked /\ todo' = todo
    BY <1>3 DEF Dial, Fails
  <2>2. (inbox' = inbox \/ inbox' = <<>>) /\ sent' \subseteq sent
    BY <2>1 DEF ConnectLocked
  <2>3. \A c \in Nat, t \in 0..(Tags - 1) : Numbered(c, t) => Numbered(c, t)'
    BY <1>3, <2>1, DrawStep DEF Sequenced
  <2>4. QED
    BY <2>1, <2>2, <2>3, QueuesKept, AllKept
<1>4. CASE WriteFrame
  <2>1. /\ pc = "write" /\ pc' = "read" /\ UNCHANGED <<inbox, sent, call, tag>>
        /\ todo' = Append(todo, [call |-> call, tag |-> tag, live |-> TRUE])
    BY <1>4 DEF WriteFrame
  <2>2. /\ todo \in Seq(Orders) /\ call \in Calls /\ call \in Nat
        /\ tag \in 0..(Tags - 1) /\ tag \in Nat /\ MaxCalls \in Nat
    BY <2>1, LinkAssumption DEF Types, LinkTypeOK, Placed, Busy
  <2>3. Drawn = call /\ Drawn' = call /\ tag' = tag
    BY <2>1 DEF Drawn
  <2>4. Numbered(call, tag)
    BY <2>2, <2>3 DEF Numbered, Behind, Calls
  <2>5. /\ \A i \in DOMAIN inbox : FrameNumbered(inbox[i])'
        /\ \A f \in sent : FrameNumbered(f)'
    BY <2>1, <2>3 DEF AllNumbered, FrameNumbered, Numbered, Behind
  <2>6. ASSUME NEW i \in DOMAIN todo' PROVE Numbered(todo[i].call, todo[i].tag)'
    <3>1. CASE i \in DOMAIN todo
      <4>1. todo'[i] = todo[i]
        BY <2>1, <2>2, <3>1, AppendProperties
      <4>2. Numbered(todo[i].call, todo[i].tag)
        BY <3>1 DEF AllNumbered
      <4>3. QED
        BY <2>3, <4>1, <4>2 DEF Numbered, Behind
    <3>2. CASE i \notin DOMAIN todo
      <4>1. [call |-> call, tag |-> tag, live |-> TRUE] \in Orders
        BY <2>2 DEF Orders
      <4>2. todo'[i] = [call |-> call, tag |-> tag, live |-> TRUE]
        BY <2>1, <2>2, <3>2, <4>1, AppendProperties
      <4>3. todo'[i].call = call /\ todo'[i].tag = tag
        BY <4>2
      <4>4. QED
        BY <2>3, <2>4, <4>3 DEF Numbered, Behind
    <3>3. QED
      BY <3>1, <3>2
  <2>7. QED
    BY <2>1, <2>5, <2>6 DEF AllNumbered
<1>5. QED
  BY <1>2, <1>3, <1>4 DEF LinkMoves, Caller, Attempts

\* Whatever the device sends carries the number of an order, or is not valid.
LEMMA DeviceNumbered ==
  ASSUME Types, AllNumbered, Device
  PROVE  AllNumbered'
<1>1. UNCHANGED <<pc, call, tag>>
  BY DEF Device, DeviceExecutes, DeviceBabbles, callVars
<1>2. /\ \A f : FrameNumbered(f) => FrameNumbered(f)'
      /\ \A c, t : Numbered(c, t) => Numbered(c, t)'
  BY <1>1 DEF FrameNumbered, Numbered, Behind, Drawn
<1>3. inbox \in Seq(Frames) /\ todo \in Seq(Orders) /\ sent \subseteq Frames
  BY DEF Types, LinkTypeOK
<1>4. ASSUME NEW f \in Frames, FrameNumbered(f), inbox' = Append(inbox, f)
      PROVE  \A i \in DOMAIN inbox' : FrameNumbered(inbox[i])'
  <2> SUFFICES ASSUME NEW i \in DOMAIN inbox' PROVE FrameNumbered(inbox[i])'
    OBVIOUS
  <2>1. (i \in DOMAIN inbox /\ inbox'[i] = inbox[i]) \/ inbox'[i] = f
    BY <1>3, <1>4, AppendProperties
  <2>2. FrameNumbered(inbox'[i])
    BY <1>4, <2>1 DEF AllNumbered
  <2>3. QED
    BY <1>1, <2>2 DEF FrameNumbered, Numbered, Behind, Drawn
<1>5. CASE DeviceExecutes
  <2>1. todo # <<>> /\ todo' = Tail(todo) /\ Head(todo) = todo[1] /\ 1 \in DOMAIN todo
    BY <1>3, <1>5, DeviceAnswers, HeadTailProperties
  <2>2. \A i \in DOMAIN Tail(todo) : i + 1 \in DOMAIN todo /\ Tail(todo)[i] = todo[i + 1]
    BY <1>3, <2>1, HeadTailProperties
  <2>3. \A i \in DOMAIN todo' : Numbered(todo[i].call, todo[i].tag)'
    <3>1. \A i \in DOMAIN todo' : Numbered(todo'[i].call, todo'[i].tag)
      BY <2>1, <2>2 DEF AllNumbered
    <3>2. QED
      BY <1>1, <3>1 DEF Numbered, Behind, Drawn
  <2>4. CASE UNCHANGED <<inbox, sent>>
    <3>1. \A i \in DOMAIN inbox' : FrameNumbered(inbox[i])'
      BY <1>1, <2>4 DEF AllNumbered, FrameNumbered, Numbered, Behind, Drawn
    <3>2. \A f \in sent' : FrameNumbered(f)'
      BY <1>2, <2>4 DEF AllNumbered
    <3>3. QED
      BY <2>3, <3>1, <3>2 DEF AllNumbered
  <2>5. CASE ~UNCHANGED <<inbox, sent>>
    <3>1. PICK f \in Frames :
            /\ f.call = Head(todo).call /\ f.tag = Head(todo).tag
            /\ inbox' = Append(inbox, f) /\ sent' = sent \cup {f}
      BY <1>5, <2>5, DeviceAnswers
    <3>2. FrameNumbered(f)
      BY <2>1, <3>1 DEF AllNumbered, FrameNumbered
    <3>3. \A i \in DOMAIN inbox' : FrameNumbered(inbox[i])'
      BY <1>4, <3>1, <3>2
    <3>4. \A g \in sent' : FrameNumbered(g)'
      BY <1>2, <3>1, <3>2 DEF AllNumbered
    <3>5. QED
      BY <2>3, <3>3, <3>4 DEF AllNumbered
  <2>6. QED
    BY <2>4, <2>5
<1>6. CASE DeviceBabbles
  <2>1. \A t \in 0..(Tags - 1) : [call |-> 0, tag |-> t, good |-> FALSE] \in Frames
    BY LinkAssumption DEF Frames
  <2>2. PICK f \in sent \cup {[call |-> 0, tag |-> t, good |-> FALSE] : t \in 0..(Tags - 1)} :
          inbox' = Append(inbox, f)
    BY <1>6 DEF DeviceBabbles
  <2>3. f \in Frames
    BY <1>3, <2>1, Zenon
  <2>4. FrameNumbered(f)
    <3>1. CASE f \in sent
      BY <3>1 DEF AllNumbered
    <3>2. CASE f \notin sent
      <4>1. PICK t \in 0..(Tags - 1) : f = [call |-> 0, tag |-> t, good |-> FALSE]
        BY <3>2
      <4>2. f.call = 0 /\ ~f.good
        BY <4>1
      <4>3. QED
        BY <4>2 DEF FrameNumbered
    <3>3. QED
      BY <3>1, <3>2
  <2>5. \A i \in DOMAIN inbox' : FrameNumbered(inbox[i])'
    BY <1>4, <2>2, <2>3, <2>4
  <2>6. UNCHANGED <<sent, todo>>
    BY <1>6 DEF DeviceBabbles
  <2>7. \A g \in sent' : FrameNumbered(g)'
    BY <1>2, <2>6 DEF AllNumbered
  <2>8. \A i \in DOMAIN todo' : Numbered(todo[i].call, todo[i].tag)'
    BY <1>1, <2>6 DEF AllNumbered, Numbered, Behind, Drawn
  <2>9. QED
    BY <2>5, <2>7, <2>8 DEF AllNumbered
<1>7. QED
  BY <1>5, <1>6 DEF Device

\* A numbered transport takes no answer but the current call's.
LEMMA TagStep ==
  ASSUME Types, Placed, TagInv, [Next]_vars PROVE TagInv'
<1>1. kind' = kind
  BY Steps
<1>2. SUFFICES ASSUME Sequenced PROVE MatchedByTag' /\ (~failed' => AllNumbered')
  BY <1>1 DEF TagInv, Sequenced
<1>3. MatchedByTag /\ (~failed => AllNumbered)
  BY <1>2 DEF TagInv, Sequenced
<1>4. answer \in [Calls -> 0..MaxCalls] /\ MaxCalls \in Nat /\ failed \in BOOLEAN
  BY LinkAssumption DEF Types, LinkTypeOK
<1>5. CASE LinkMoves
  <2>1. answer' = answer /\ (~failed' => ~failed)
    BY <1>5 DEF LinkMoves, Caller, Attempts, Connect, SendRTU, CloseDriver, Dial, Redial,
       Retry, WriteFrame, IOFails, AttemptFails, Fails, history
  <2>2. MatchedByTag'
    BY <1>3, <2>1 DEF MatchedByTag
  <2>3. QED
    BY <1>2, <1>3, <1>5, <2>1, <2>2, LinkNumbered
<1>6. ASSUME pc = "read", inbox # <<>>, inbox' = Tail(inbox),
             pc' \in {"idle", "write"}, UNCHANGED <<sent, todo, call, tag>>, ~failed
      PROVE  AllNumbered'
  <2>1. Drawn' = Drawn
    BY <1>6 DEF Drawn
  <2>2. \A c \in Nat, t \in 0..(Tags - 1) : Numbered(c, t) => Numbered(c, t)'
    BY <1>6, <2>1, NumberKept
  <2>3. \A i \in DOMAIN inbox' : \E j \in DOMAIN inbox : inbox'[i] = inbox[j]
    BY <1>6, TailFrames
  <2>4. QED
    BY <1>3, <1>6, <2>2, <2>3, AllKept
<1>7. CASE NumberedRead
  <2>1. pc = "read" /\ inbox # <<>> /\ ~failed /\ call \in Calls
    BY <1>7 DEF NumberedRead, Placed, Busy
  <2>2. /\ pc' = "idle" /\ inbox' = Tail(inbox) /\ UNCHANGED <<sent, todo, call, tag>>
        /\ answer' = [answer EXCEPT ![call] =
             IF Head(inbox).good /\ Head(inbox).tag = tag THEN Head(inbox).call ELSE 0]
    BY <1>7 DEF NumberedRead, Finish, callVars
  <2>3. Head(inbox) \in Frames /\ FrameNumbered(Head(inbox))
    BY <1>3, <2>1, TailFrames DEF AllNumbered
  <2>4. Head(inbox).good /\ Head(inbox).tag = tag =>
          Head(inbox).call = call \/ Head(inbox).call + Tags <= call
    BY <1>3, <2>1, <2>3, OwnNumber
  <2>5. /\ answer'[call] \in {0, call} \/ answer'[call] + Tags <= call
        /\ \A c \in Calls \ {call} : answer'[c] = answer[c]
    BY <1>4, <2>1, <2>2, <2>4
  <2>6. MatchedByTag'
    BY <1>3, <2>5 DEF MatchedByTag
  <2>7. AllNumbered'
    BY <1>6, <2>1, <2>2
  <2>8. QED
    BY <2>6, <2>7
<1>8. CASE Resend
  <2>1. pc = "read" /\ inbox # <<>> /\ ~failed
    BY <1>8 DEF Resend, Placed, Busy
  <2>2. /\ pc' = "write" /\ inbox' = Tail(inbox) /\ UNCHANGED <<sent, todo, call, tag>>
        /\ answer' = answer
    BY <1>8 DEF Resend, callVars, history
  <2>3. AllNumbered'
    BY <1>6, <2>1, <2>2
  <2>4. QED
    BY <1>3, <2>2, <2>3 DEF MatchedByTag
<1>9. CASE StreamRead \/ PortMoves
  BY <1>2, <1>9 DEF StreamRead, PortMoves, Sequenced
<1>10. CASE Around
  <2>1. answer' = answer /\ failed' = failed
    BY <1>10 DEF Around, Cancel, Device, DeviceExecutes, DeviceBabbles, linkVars, history
  <2>2. MatchedByTag'
    BY <1>3, <2>1 DEF MatchedByTag
  <2>3. CASE Device
    BY <1>3, <2>1, <2>2, <2>3, DeviceNumbered
  <2>4. CASE ~Device
    <3>1. UNCHANGED <<inbox, sent, todo, pc, call, tag>>
      BY <1>10, <2>4 DEF Around, Cancel, linkVars, callVars
    <3>2. AllNumbered => AllNumbered'
      BY <3>1 DEF AllNumbered, FrameNumbered, Numbered, Behind, Drawn
    <3>3. QED
      BY <1>3, <2>1, <2>2, <3>2
  <2>5. QED
    BY <2>3, <2>4
<1>11. QED
  BY <1>5, <1>7, <1>8, <1>9, <1>10, Steps

-----------------------------------------------------------------------------
(* Answers under way.                                                      *)

\* The lengths of the queues are numbers.
LEMMA Lengths ==
  ASSUME Types
  PROVE  /\ Len(pending) \in Nat /\ Len(inbox) \in Nat /\ Live \in Nat /\ strays \in Nat
         /\ Len(<<>>) = 0 /\ Cardinality({}) = 0
<1>1. Live \in Nat
  BY LiveFinite DEF Types, LinkTypeOK, Live
<1>2. QED
  BY <1>1, FS_EmptySet, LinkAssumption DEF Types, LinkTypeOK

\* The steps of a call and their caller, as far as the answers under way go.
LEMMA LinkBacklog ==
  ASSUME Types, Placed, LinkMoves, ~failed'
  PROVE  /\ ~failed /\ strays' = strays
         /\ Len(pending') <= Len(pending)
         /\ \/ /\ pc # "read" /\ pc' # "read"
               /\ Len(inbox') <= Len(inbox) /\ Live' <= Live
            \/ pc' # "read" /\ Len(pending') = 0 /\ Len(inbox') = 0 /\ Live' = 0
            \/ /\ WriteFrame /\ pc = "write" /\ pc' = "read"
               /\ inbox' = inbox /\ Live' = Live + 1
<1> USE DEF history, callVars
<1>1. ~failed /\ strays' = strays
  BY DEF LinkMoves, Caller, Attempts, Connect, SendRTU, CloseDriver, Dial, Redial,
     Retry, WriteFrame, IOFails, AttemptFails, Fails
<1>2. Len(pending') <= Len(pending) /\ (pc' = "wait" => Len(pending') = 0)
  BY Lengths DEF LinkMoves
<1>3. todo \in Seq(Orders)
  BY DEF Types, LinkTypeOK
<1>4. ASSUME todo' = [i \in DOMAIN todo |-> [todo[i] EXCEPT !.live = FALSE]]
      PROVE  Live' = 0
  <2>1. LiveIn(todo') = {}
    BY <1>3, <1>4, Orphaned
  <2>2. QED
    BY <2>1, FS_EmptySet DEF Live, LiveIn
<1>5. ASSUME todo' = todo PROVE Live' = Live
  BY <1>5 DEF Live, LiveIn
<1>6. ASSUME AttemptFails
      PROVE  pc' # "read" /\ Len(pending') = 0 /\ Len(inbox') = 0 /\ Live' = 0
  <2>1. /\ pc' = "wait" /\ inbox' = <<>>
        /\ todo' = [i \in DOMAIN todo |-> [todo[i] EXCEPT !.live = FALSE]]
    BY <1>6 DEF AttemptFails, Fails
  <2>2. QED
    BY <1>2, <1>4, <2>1
<1>7. ASSUME ConnectLocked \/ UNCHANGED inbox PROVE Len(inbox') <= Len(inbox)
  BY <1>7, Lengths DEF ConnectLocked
<1>8. CASE Connect \/ SendRTU \/ Dial \/ Retry
  <2>1. /\ pc # "read" /\ pc' # "read" /\ todo' = todo
        /\ ConnectLocked \/ UNCHANGED inbox
    BY <1>8 DEF Connect, SendRTU, Dial, Retry, Fails
  <2>2. Len(inbox') <= Len(inbox) /\ Live' <= Live
    BY <1>5, <1>7, <2>1, Lengths
  <2>3. QED
    BY <1>1, <1>2, <2>1, <2>2
<1>9. CASE CloseDriver
  <2>1. /\ pc = "idle" /\ pc' = "closed" /\ inbox' = <<>>
        /\ todo' = [i \in DOMAIN todo |-> [todo[i] EXCEPT !.live = FALSE]]
    BY <1>9 DEF CloseDriver
  <2>2. Live' = 0 /\ Len(inbox') = 0
    BY <1>4, <2>1
  <2>3. QED
    BY <1>1, <1>2, <2>1, <2>2, Lengths
<1>10. CASE Redial
  <2>1. CASE AttemptFails
    BY <1>1, <1>2, <1>6, <2>1
  <2>2. CASE ~AttemptFails
    <3>1. pc = "redial" /\ pc' = "write" /\ todo' = todo /\ ConnectLocked
      BY <1>10, <2>2 DEF Redial
    <3>2. Len(inbox') <= Len(inbox) /\ Live' <= Live
      BY <1>5, <1>7, <3>1, Lengths
    <3>3. QED
      BY <1>1, <1>2, <3>1, <3>2
  <2>3. QED
    BY <2>1, <2>2
<1>11. CASE IOFails
  BY <1>1, <1>2, <1>6, <1>11 DEF IOFails
<1>12. ASSUME WriteFrame
      PROVE  pc = "write" /\ pc' = "read" /\ inbox' = inbox /\ Live' = Live + 1
  <2>1. /\ pc = "write" /\ pc' = "read" /\ inbox' = inbox
        /\ todo' = Append(todo, [call |-> call, tag |-> tag, live |-> TRUE])
    BY <1>12 DEF WriteFrame
  <2>2. [call |-> call, tag |-> tag, live |-> TRUE] \in Orders
    BY <1>12, <2>1 DEF Types, LinkTypeOK, Placed, Busy, Orders
  <2>3. Live' = Cardinality(LiveIn(Append(todo, [call |-> call, tag |-> tag, live |-> TRUE])))
    BY <2>1 DEF Live, LiveIn
  <2>4. QED
    BY <1>3, <2>1, <2>2, <2>3, LiveAppend DEF Live
<1>13. QED
  BY <1>1, <1>2, <1>8, <1>9, <1>10, <1>11, <1>12 DEF LinkMoves, Caller, Attempts

\* The device answers an order once; a frame more than that is a stray one.
LEMMA DeviceBacklog ==
  ASSUME Types, Device
  PROVE  Len(inbox') + Live' <= Len(inbox) + Live + (strays' - strays)
<1>1. todo \in Seq(Orders) /\ inbox \in Seq(Frames)
  BY DEF Types, LinkTypeOK
<1>2. CASE DeviceExecutes
  <2>1. strays' = strays /\ todo' = Tail(todo) /\ todo # <<>>
    BY <1>2 DEF DeviceExecutes
  <2>2. Live' = Cardinality(LiveIn(Tail(todo)))
    BY <2>1 DEF Live, LiveIn
  <2>3. Tail(todo) \in Seq(Orders)
    BY <1>2, DeviceAnswers
  <2>4. Live' \in Nat /\ Live = Live' + (IF Head(todo).live THEN 1 ELSE 0)
    BY <1>1, <2>1, <2>2, <2>3, LiveTail, LiveFinite DEF Live
  <2>5. Len(inbox') = Len(inbox) \/ (Head(todo).live /\ Len(inbox') = Len(inbox) + 1)
    <3>1. CASE UNCHANGED <<inbox, sent>>
      BY <3>1
    <3>2. CASE ~UNCHANGED <<inbox, sent>>
      <4>1. PICK f \in Frames : Head(todo).live /\ inbox' = Append(inbox, f)
        BY <1>2, <3>2, DeviceAnswers
      <4>2. QED
        BY <1>1, <4>1
    <3>3. QED
      BY <3>1, <3>2
  <2>6. QED
    BY <2>1, <2>4, <2>5, Lengths
<1>3. CASE DeviceBabbles
  <2>1. strays' = strays + 1 /\ todo' = todo /\ \E f : inbox' = Append(inbox, f)
    BY <1>3 DEF DeviceBabbles
  <2>2. Len(inbox') = Len(inbox) + 1
    BY <1>1, <2>1
  <2>3. Live' = Live
    BY <2>1 DEF Live, LiveIn
  <2>4. QED
    BY <2>1, <2>2, <2>3, Lengths
<1>4. QED
  BY <1>2, <1>3 DEF Device

\* Retries and resends do not pile up answers.
LEMMA BacklogStep ==
  ASSUME Types, Placed, BacklogInv, [Next]_vars PROVE BacklogInv'
<1>1. kind' = kind /\ Types'
  BY Steps, TypeStep
<1>2. SUFFICES ASSUME kind # "modbusserial", ~failed'
               PROVE  (Len(pending) + Len(inbox) + Live
                         <= strays + (IF pc = "read" THEN 1 ELSE 0))'
  BY <1>1 DEF BacklogInv
<1>3. ~failed => Len(pending) + Len(inbox) + Live
                   <= strays + (IF pc = "read" THEN 1 ELSE 0)
  BY <1>2 DEF BacklogInv
<1>4. /\ Len(pending) \in Nat /\ Len(inbox) \in Nat /\ Live \in Nat /\ strays \in Nat
      /\ Len(pending') \in Nat /\ Len(inbox') \in Nat /\ Live' \in Nat /\ strays' \in Nat
  <2>1. (Len(pending) \in Nat /\ Len(inbox) \in Nat /\ Live \in Nat /\ strays \in Nat)'
    <3>1. Live' \in Nat
      <4>1. todo' \in Seq(Orders)
        BY <1>1 DEF Types, LinkTypeOK
      <4>2. Cardinality(LiveIn(todo')) \in Nat
        BY <4>1, LiveFinite
      <4>3. QED
        BY <4>2 DEF Live, LiveIn
    <3>2. pending' \in Seq(Frames) /\ inbox' \in Seq(Frames) /\ strays' \in Nat
      BY <1>1, LinkAssumption DEF Types, LinkTypeOK
    <3>3. QED
      BY <3>1, <3>2, LenProperties
  <2>2. QED
    BY <2>1, Lengths
<1>5. CASE LinkMoves
  BY <1>2, <1>3, <1>4, <1>5, LinkBacklog
<1>6. ASSUME todo' = todo PROVE Live' = Live
  BY <1>6 DEF Live, LiveIn
<1>7. CASE NumberedRead \/ Resend
  <2>1. /\ pc = "read" /\ pc' # "read" /\ inbox # <<>> /\ inbox' = Tail(inbox)
        /\ UNCHANGED <<todo, strays, pending>> /\ ~failed
    BY <1>7 DEF NumberedRead, Resend, Finish, history, Placed, Busy
  <2>2. Len(inbox') = Len(inbox) - 1 /\ Live' = Live
    BY <1>6, <2>1, TailFrames
  <2>3. QED
    BY <1>3, <1>4, <2>1, <2>2
<1>8. CASE StreamRead
  <2>1. /\ pc = "read" /\ pc' = "idle" /\ UNCHANGED <<todo, strays>>
        /\ Len(pending') + Len(inbox') + 1 = Len(pending) + Len(inbox)
    BY <1>8, StreamReads
  <2>2. Live' = Live /\ ~failed
    BY <1>6, <2>1 DEF Placed, Busy
  <2>3. QED
    BY <1>3, <1>4, <2>1, <2>2
<1>9. CASE PortMoves
  BY <1>2, <1>9 DEF PortMoves
<1>10. CASE Around
  <2>1. pending' = pending /\ pc' = pc /\ failed' = failed
    BY <1>10 DEF Around, Cancel, Device, DeviceExecutes, DeviceBabbles, linkVars
  <2>2. CASE Device
    BY <1>2, <1>3, <1>4, <2>1, <2>2, DeviceBacklog
  <2>3. CASE ~Device
    <3>1. UNCHANGED <<inbox, todo, strays>>
      BY <1>10, <2>3 DEF Around, Cancel, linkVars, history
    <3>2. QED
      BY <1>2, <1>3, <1>6, <2>1, <3>1
  <2>4. QED
    BY <2>2, <2>3
<1>11. QED
  BY <1>5, <1>7, <1>8, <1>9, <1>10, Steps

\* A call starts to read with nothing under way, so it reads its own answer.
LEMMA PlaceStep ==
  ASSUME Types, Placed, BacklogInv, PlaceInv, [Next]_vars PROVE PlaceInv'
<1>1. kind' = kind
  BY Steps
<1>2. SUFFICES ASSUME kind = "modbusrtutcp", strays' = 0
               PROVE  Matched' /\ (pc' = "read" => OwnFramesOnly')
  BY <1>1 DEF PlaceInv
<1>3. /\ inbox \in Seq(Frames) /\ pending \in Seq(Frames) /\ todo \in Seq(Orders)
      /\ strays \in Nat /\ answer \in [Calls -> 0..MaxCalls] /\ tag \in 0..(Tags - 1)
  BY LinkAssumption DEF Types, LinkTypeOK
<1>4. ASSUME strays = 0 PROVE Matched /\ (pc = "read" => OwnFramesOnly)
  BY <1>2, <1>4 DEF PlaceInv
<1>5. CASE LinkMoves
  <2>1. strays' = strays /\ answer' = answer /\ (pc' = "read" => WriteFrame)
    BY <1>5 DEF LinkMoves, Caller, Attempts, Connect, SendRTU, CloseDriver, Dial, Redial,
       Retry, WriteFrame, IOFails, AttemptFails, Fails, history
  <2>2. Matched'
    BY <1>2, <1>4, <2>1 DEF Matched
  <2>3. ASSUME WriteFrame PROVE OwnFramesOnly'
    <3>1. /\ pc = "write" /\ UNCHANGED <<inbox, call, tag>>
          /\ todo' = Append(todo, [call |-> call, tag |-> tag, live |-> TRUE])
      BY <2>3 DEF WriteFrame, callVars
    <3>2. ~failed /\ call \in Calls
      BY <3>1 DEF Placed, Busy
    <3>3. Len(pending) = 0 /\ Len(inbox) = 0 /\ Live = 0
      <4>1. Len(pending) + Len(inbox) + Live <= strays
        BY <1>2, <3>1, <3>2, Lengths DEF BacklogInv
      <4>2. QED
        BY <1>2, <2>1, <4>1, Lengths
    <3>4. pending = <<>> /\ inbox = <<>>
      BY <1>3, <3>3, EmptySeq
    <3>5. LiveIn(todo) = {}
      BY <1>3, <3>3, LiveFinite, FS_EmptySet DEF Live
    <3>6. pending' = <<>> /\ inbox' = <<>>
      BY <1>5, <3>1, <3>4 DEF LinkMoves
    <3>7. [call |-> call, tag |-> tag, live |-> TRUE] \in Orders
      BY <1>3, <3>2 DEF Orders
    <3>8. \A i \in DOMAIN todo' : \/ i \in DOMAIN todo /\ todo'[i] = todo[i]
                                  \/ todo'[i].call = call
      BY <1>3, <3>1, <3>7, AppendProperties
    <3>9. \A i \in DOMAIN todo' : todo'[i].live => todo'[i].call = call
      BY <3>5, <3>8 DEF LiveIn
    <3>10. QED
      BY <3>1, <3>6, <3>9 DEF OwnFramesOnly, LiveIn
  <2>4. QED
    BY <2>1, <2>2, <2>3
<1>6. CASE StreamRead
  <2>1. /\ pc = "read" /\ pc' = "idle" /\ UNCHANGED <<call, strays>>
        /\ \E f \in Frames :
              /\ \/ 1 \in DOMAIN pending /\ f = pending[1]
                 \/ 1 \in DOMAIN inbox /\ f = inbox[1]
              /\ answer' = [answer EXCEPT ![call] = IF f.good THEN f.call ELSE 0]
    BY <1>6, StreamReads
  <2>2. Matched /\ OwnFramesOnly /\ call \in Calls
    BY <1>2, <1>4, <2>1 DEF Placed, Busy
  <2>3. PICK f \in Frames :
              /\ f.call = call
              /\ answer' = [answer EXCEPT ![call] = IF f.good THEN f.call ELSE 0]
    BY <2>1, <2>2 DEF OwnFramesOnly
  <2>4. answer'[call] \in {0, call} /\ \A c \in Calls \ {call} : answer'[c] = answer[c]
    BY <1>3, <2>2, <2>3
  <2>5. Matched'
    BY <2>2, <2>4 DEF Matched
  <2>6. QED
    BY <2>1, <2>5
<1>7. CASE NumberedRead \/ Resend \/ PortMoves
  BY <1>2, <1>7 DEF NumberedRead, Resend, PortMoves
<1>8. CASE Around
  <2>1. /\ UNCHANGED <<pending, pc, answer, call>>
        /\ strays' = strays \/ (DeviceBabbles /\ strays' = strays + 1)
    BY <1>8 DEF Around, Cancel, Device, DeviceExecutes, DeviceBabbles, linkVars, history,
       callVars
  <2>2. strays = 0 /\ strays' = strays /\ ~DeviceBabbles
    <3>1. strays' = strays
      BY <1>2, <1>3, <2>1
    <3>2. QED
      BY <1>2, <1>3, <3>1 DEF DeviceBabbles
  <2>3. Matched'
    BY <1>4, <2>1, <2>2 DEF Matched
  <2>4. ASSUME pc = "read" PROVE OwnFramesOnly'
    <3>1. OwnFramesOnly
      BY <1>4, <2>2, <2>4
    <3>2. CASE DeviceExecutes
      <4>1. todo # <<>> /\ todo' = Tail(todo)
        BY <3>2, DeviceAnswers
      <4>2. Head(todo) = todo[1] /\ 1 \in DOMAIN todo
        BY <1>3, <4>1, HeadTailProperties
      <4>3. \A i \in DOMAIN Tail(todo) :
              i + 1 \in DOMAIN todo /\ Tail(todo)[i] = todo[i + 1]
        BY <1>3, <4>1, HeadTailProperties
      <4>4. \A i \in DOMAIN todo' : todo'[i].live => todo'[i].call = call
        BY <3>1, <4>1, <4>3 DEF OwnFramesOnly, LiveIn
      <4>5. \A i \in DOMAIN inbox' : inbox'[i].call = call
        <5>1. CASE UNCHANGED <<inbox, sent>>
          BY <3>1, <5>1 DEF OwnFramesOnly
        <5>2. CASE ~UNCHANGED <<inbox, sent>>
          <6>1. PICK f \in Frames : /\ f.call = Head(todo).call /\ Head(todo).live
                                    /\ inbox' = Append(inbox, f)
            BY <3>2, <5>2, DeviceAnswers
          <6>2. f.call = call
            BY <3>1, <4>2, <6>1 DEF OwnFramesOnly, LiveIn
          <6>3. \A i \in DOMAIN inbox' :
                  (i \in DOMAIN inbox /\ inbox'[i] = inbox[i]) \/ inbox'[i] = f
            BY <1>3, <6>1, AppendProperties
          <6>4. QED
            BY <3>1, <6>2, <6>3 DEF OwnFramesOnly
        <5>3. QED
          BY <5>1, <5>2
      <4>6. QED
        BY <2>1, <3>1, <4>4, <4>5 DEF OwnFramesOnly, LiveIn
    <3>3. CASE ~DeviceExecutes
      <4>1. UNCHANGED <<inbox, todo>>
        BY <1>8, <2>2, <3>3 DEF Around, Cancel, Device, linkVars
      <4>2. QED
        BY <2>1, <3>1, <4>1 DEF OwnFramesOnly, LiveIn
    <3>4. QED
      BY <3>2, <3>3
  <2>5. QED
    BY <2>1, <2>3, <2>4
<1>9. QED
  BY <1>5, <1>6, <1>7, <1>8, Steps

-----------------------------------------------------------------------------
(* The serial line.                                                        *)

\* A step that ends outside an exchange and changes no answer and no history.
LEMMA LineRests ==
  ASSUME LineInv, UNCHANGED <<flushed, answer, strays, call>>, pc' \notin Busy
  PROVE  LineInv'
<1>1. pc' # "write" /\ pc' # "read"
  BY DEF Busy
<1>2. Clean' = Clean
  BY DEF Clean
<1>3. QED
  BY <1>1, <1>2 DEF LineInv

\* The steps of a serial call keep the line apart from earlier ones.
LEMMA PortFlush ==
  ASSUME Types, Placed, LineInv, PortMoves PROVE LineInv'
<1> USE DEF callVars, history, Serial!callVars, Serial!history, Serial!Fails
<1>1. /\ call \in Nat /\ strays \in Nat /\ MaxCalls \in Nat
      /\ tag \in 0..(Tags - 1) /\ answer \in [Calls -> 0..MaxCalls]
      /\ pc \in Busy => call \in Calls
  BY LinkAssumption DEF Types, LinkTypeOK, Placed
<1>2. CASE Serial!Prepare
  <2>1. pc = "dial" /\ UNCHANGED <<todo, call, answer, strays>> /\ answer[call] = 0
    BY <1>1, <1>2 DEF Serial!Prepare, LineInv, Busy
  <2>2. CASE pc' = "idle" /\ flushed' = flushed
    BY <2>1, <2>2, LineRests DEF Busy
  <2>3. CASE pc' = "write" /\ inbox' = <<>> /\ flushed' = Serial!LineState
    <3>1. flushed' = [strays |-> strays, owed |-> todo # <<>>] /\ flushed'.strays = strays
      BY <2>3 DEF Serial!LineState
    <3>2. Clean' => todo = <<>>
      <4>1. Clean' => [strays |-> strays, owed |-> todo # <<>>].owed
                        = [strays |-> strays', owed |-> FALSE].owed
        BY <3>1, Zenon DEF Clean
      <4>2. QED
        BY <4>1
    <3>3. \A c \in Calls : c > call \/ c = call => answer[c] = 0
      BY <2>1 DEF LineInv
    <3>4. QED
      BY <1>1, <2>1, <2>3, <3>1, <3>2, <3>3 DEF LineInv
  <2>4. QED
    BY <1>2, <2>2, <2>3 DEF Serial!Prepare
<1>3. CASE Serial!WriteRequest
  <2>1. pc = "write" /\ UNCHANGED <<flushed, answer, strays, call>>
    BY <1>3 DEF Serial!WriteRequest
  <2>2. CASE pc' = "idle"
    BY <2>1, <2>2, LineRests DEF Busy
  <2>3. CASE pc' # "idle"
    <3>1. /\ pc' = "read" /\ inbox' = inbox
          /\ todo' = Append(todo, [call |-> call, tag |-> tag, live |-> TRUE])
      BY <1>3, <2>3 DEF Serial!WriteRequest, Serial!CloseAfterError
    <3>2. Clean' = Clean
      BY <2>1 DEF Clean
    <3>3. ASSUME Clean
          PROVE  /\ \A i \in DOMAIN inbox' : inbox'[i].call = call
                 /\ \A i \in DOMAIN todo' : todo'[i].call = call
      <4>1. inbox = <<>> /\ todo = <<>>
        BY <2>1, <3>3 DEF LineInv
      <4>2. [call |-> call, tag |-> tag, live |-> TRUE] \in Orders
        BY <1>1, <2>1 DEF Busy, Orders
      <4>3. todo' = <<[call |-> call, tag |-> tag, live |-> TRUE]>>
        BY <3>1, <4>1, <4>2
      <4>4. QED
        BY <3>1, <4>1, <4>3
    <3>4. QED
      BY <2>1, <3>1, <3>2, <3>3 DEF LineInv, Busy
  <2>4. QED
    BY <2>2, <2>3
<1>4. CASE Serial!ReadFails \/ Serial!Close \/ Serial!NextDriver
  BY <1>4, LineRests DEF Serial!ReadFails, Serial!Close, Serial!NextDriver,
     Serial!CloseAfterError, Busy
<1>5. CASE /\ pc = "read" /\ inbox # <<>> /\ flushed' = flushed
           /\ Finish(Head(inbox), Head(inbox).good)
  <2>1. /\ pc' = "idle" /\ UNCHANGED <<flushed, strays, call>> /\ call \in Calls
        /\ answer' = [answer EXCEPT ![call] = IF Head(inbox).good THEN Head(inbox).call ELSE 0]
    BY <1>1, <1>5 DEF Finish, Busy
  <2>2. Clean' = Clean
    BY <2>1 DEF Clean
  <2>3. Clean => Head(inbox).call = call
    BY <1>5, TailFrames DEF LineInv
  <2>4. \A c \in Calls : c # call => answer'[c] = answer[c]
    BY <1>1, <2>1
  <2>5. Clean => answer'[call] \in {0, call}
    BY <1>1, <2>1, <2>3
  <2>6. \A c \in Calls : c > call => answer'[c] = 0
    BY <1>1, <2>4 DEF LineInv, Calls
  <2>7. QED
    BY <2>1, <2>2, <2>5, <2>6 DEF LineInv, Busy
<1>6. CASE Connect /\ flushed' = flushed
  BY <1>6, LineRests DEF Connect, Busy
<1>7. CASE SendRTU /\ flushed' = flushed
  <2>1. /\ pc' = "dial" /\ call' = call + 1 /\ call + 1 \in Calls
        /\ UNCHANGED <<flushed, strays, answer>>
    BY <1>1, <1>7 DEF SendRTU, Calls
  <2>2. \A c \in Calls : c > call => answer[c] = 0
    BY DEF LineInv
  <2>3. answer[call + 1] = 0 /\ \A c \in Calls : c > call + 1 \/ c = call + 1 => answer[c] = 0
    BY <1>1, <2>1, <2>2 DEF Calls
  <2>4. QED
    BY <2>1, <2>3 DEF LineInv
<1>8. QED
  BY <1>2, <1>3, <1>4, <1>5, <1>6, <1>7, PortSteps

\* A frame that comes in on a clean line is the answer to the current request.
LEMMA DeviceFlush ==
  ASSUME Types, LineInv, Device, UNCHANGED flushed PROVE LineInv'
<1>1. /\ inbox \in Seq(Frames) /\ todo \in Seq(Orders) /\ strays \in Nat
      /\ flushed.strays \in Nat
  BY LinkAssumption DEF Types, LinkTypeOK
<1>2. CASE DeviceBabbles
  <2>1. strays' = strays + 1 /\ UNCHANGED <<call, pc, answer>>
    BY <1>2 DEF DeviceBabbles, callVars
  <2>2. flushed'.strays <= strays' /\ flushed'.strays # strays'
    BY <1>1, <2>1 DEF LineInv
  <2>3. ~Clean'
    BY <2>2 DEF Clean
  <2>4. QED
    BY <2>1, <2>2, <2>3 DEF LineInv
<1>3. CASE DeviceExecutes
  <2>1. /\ UNCHANGED <<strays, call, pc, answer>> /\ todo # <<>> /\ todo' = Tail(todo)
    BY <1>3 DEF DeviceExecutes, callVars
  <2>2. Clean' = Clean
    BY <2>1 DEF Clean
  <2>3. Head(todo) = todo[1] /\ 1 \in DOMAIN todo
    BY <1>1, <2>1, HeadTailProperties
  <2>4. \A i \in DOMAIN Tail(todo) : i + 1 \in DOMAIN todo /\ Tail(todo)[i] = todo[i + 1]
    BY <1>1, <2>1, HeadTailProperties
  <2>5. ASSUME Clean, pc = "read"
        PROVE  /\ \A i \in DOMAIN inbox' : inbox'[i].call = call
               /\ \A i \in DOMAIN todo' : todo'[i].call = call
    <3>1. /\ \A i \in DOMAIN inbox : inbox[i].call = call
          /\ \A i \in DOMAIN todo : todo[i].call = call
      BY <2>5 DEF LineInv
    <3>2. \A i \in DOMAIN todo' : todo'[i].call = call
      BY <2>1, <2>4, <3>1
    <3>3. CASE UNCHANGED <<inbox, sent>>
      BY <3>1, <3>2, <3>3
    <3>4. CASE ~UNCHANGED <<inbox, sent>>
      <4>1. PICK f \in Frames : f.call = Head(todo).call /\ inbox' = Append(inbox, f)
        BY <1>3, <3>4, DeviceAnswers
      <4>2. f.call = call
        BY <2>3, <3>1, <4>1
      <4>3. \A i \in DOMAIN inbox' :
              (i \in DOMAIN inbox /\ inbox'[i] = inbox[i]) \/ inbox'[i] = f
        BY <1>1, <4>1, AppendProperties
      <4>4. QED
        BY <3>1, <3>2, <4>2, <4>3
    <3>5. QED
      BY <3>3, <3>4
  <2>6. ~(Clean /\ pc = "write")
    BY <2>1 DEF LineInv
  <2>7. QED
    BY <2>1, <2>2, <2>5, <2>6 DEF LineInv
<1>4. QED
  BY <1>2, <1>3 DEF Device

\* The flush separates one request from the next.
LEMMA FlushStep ==
  ASSUME Types, Placed, FlushInv, [Next]_vars PROVE FlushInv'
<1>1. kind' = kind
  BY Steps
<1>2. SUFFICES ASSUME kind = "modbusserial", LineInv PROVE LineInv'
  BY <1>1 DEF FlushInv
<1>3. CASE LinkMoves \/ NumberedRead \/ Resend \/ StreamRead
  BY <1>2, <1>3 DEF LinkMoves, NumberedRead, Resend, StreamRead
<1>4. CASE PortMoves
  BY <1>2, <1>4, PortFlush
<1>5. CASE Around
  <2>1. flushed' = flushed
    BY <1>5 DEF Around
  <2>2. CASE Device
    BY <1>2, <2>1, <2>2, DeviceFlush
  <2>3. CASE ~Device
    <3>1. UNCHANGED <<strays, call, pc, answer, inbox, todo>>
      BY <1>5, <2>3 DEF Around, Cancel, linkVars, callVars, history
    <3>2. Clean' = Clean
      BY <2>1, <3>1 DEF Clean
    <3>3. QED
      BY <1>2, <2>1, <3>1, <3>2 DEF LineInv
  <2>4. QED
    BY <2>2, <2>3
<1>6. QED
  BY <1>3, <1>4, <1>5, Steps

-----------------------------------------------------------------------------
(* The theorems.                                                           *)

LEMMA Initial == Init => IInv
<1> SUFFICES ASSUME Init PROVE IInv
  OBVIOUS
<1>1. LinkInit /\ kind \in Kinds /\ resends = 0 /\ pending = <<>>
      /\ flushed = [strays |-> strays, owed |-> todo # <<>>]
  BY DEF Init, Solarman!Init, Solarman!LinkInit, LinkInit, RtuTcp!Init, Serial!Init,
     Serial!LineState, Solarman!Calls, Calls
<1>2. /\ conn = FALSE /\ inbox = <<>> /\ sent = {} /\ todo = <<>> /\ pc = "new"
      /\ call = 0 /\ attempt = 0 /\ tag \in 0..(Tags - 2) /\ ctxDone = FALSE
      /\ failed = FALSE /\ answer = [c \in Calls |-> 0] /\ lateWrites = 0 /\ strays = 0
  BY <1>1 DEF LinkInit
<1>3. flushed = [strays |-> 0, owed |-> FALSE]
  <2>1. (todo # <<>>) = FALSE
    BY <1>2
  <2>2. QED
    BY <1>1, <1>2, <2>1
<1>4. Types
  <2>1. inbox \in Seq(Frames) /\ pending \in Seq(Frames) /\ todo \in Seq(Orders)
    BY <1>1, <1>2, EmptySeq, Zenon
  <2>2. LinkTypeOK
    <3>1. conn \in BOOLEAN /\ ctxDone \in BOOLEAN /\ failed \in BOOLEAN /\ sent \subseteq Frames
      BY <1>2
    <3>2. /\ call \in 0..MaxCalls /\ attempt \in 0..MaxAttempts /\ tag \in 0..(Tags - 1)
          /\ lateWrites \in Nat /\ strays \in 0..MaxStrays /\ pc \in PCs
      BY <1>2, LinkAssumption DEF PCs
    <3>3. answer \in [Calls -> 0..MaxCalls]
      BY <1>2, LinkAssumption
    <3>4. QED
      BY <2>1, <3>1, <3>2, <3>3 DEF LinkTypeOK
  <2>3. QED
    BY <1>1, <1>3, <2>1, <2>2, LinkAssumption, DriverAssumption DEF Types
<1>5. Placed /\ LateInv
  BY <1>1, <1>2, DriverAssumption DEF Placed, LateInv, CancelStops, Busy
<1>6. Matched /\ MatchedByTag
  BY <1>2 DEF Matched, MatchedByTag
<1>7. TagInv /\ PlaceInv
  BY <1>2, <1>6 DEF TagInv, AllNumbered, PlaceInv
<1>8. BacklogInv
  <2>1. LiveIn(todo) = {}
    BY <1>2 DEF LiveIn
  <2>2. Live = 0 /\ Len(pending) = 0 /\ Len(inbox) = 0
    BY <1>1, <1>2, <2>1, FS_EmptySet DEF Live
  <2>3. QED
    BY <1>2, <2>2 DEF BacklogInv
<1>9. FlushInv
  BY <1>2, <1>3 DEF FlushInv, LineInv
<1>10. QED
  BY <1>4, <1>5, <1>7, <1>8, <1>9 DEF IInv

\* The inductive invariant holds in every reachable state.
LEMMA Invariance == Spec => []IInv
<1>1. IInv /\ [Next]_vars => IInv'
  BY TypeStep, LateStep, TagStep, BacklogStep, PlaceStep, FlushStep DEF IInv
<1>2. QED
  BY Initial, <1>1, PTL DEF Spec

\* The state of the four transports has its types: in particular the resends of
\* exchangeLocked stay below sequenceAttempts, the connection attempts of
\* internalSendLocked do not exceed connectionAttempts, and the generator stays
\* within its range when it wraps round.
THEOREM TypeCorrect == Spec => []TypeOK
<1>1. IInv => TypeOK
  BY DEF IInv, Types, TypeOK, LinkTypeOK, Calls, Frames, Orders, PCs,
     Solarman!TypeOK, Solarman!LinkTypeOK, Solarman!Calls, Solarman!Frames,
     Solarman!Orders, Solarman!PCs,
     Tcp!TypeOK, Tcp!LinkTypeOK, Tcp!Calls, Tcp!Frames, Tcp!Orders, Tcp!PCs,
     RtuTcp!TypeOK, RtuTcp!LinkTypeOK, RtuTcp!Calls, RtuTcp!Frames, RtuTcp!Orders,
     RtuTcp!PCs,
     Serial!TypeOK, Serial!LinkTypeOK, Serial!Calls, Serial!Frames, Serial!Orders,
     Serial!PCs
<1>2. QED
  BY Invariance, <1>1, PTL

\* A response that SendRTU returns answers the request of that very call: by its
\* number with Solarman V5 and Modbus TCP, unless the number has come round again
\* since the call whose answer was returned; by its place in the stream with RTU
\* over TCP, where the device sends no frame of its own accord; by the flush on a
\* serial line.
THEOREM OwnAnswers == Spec => []AnswersOwnRequest
<1>1. ASSUME IInv PROVE AnswersOwnRequest
  <2>1. CASE kind \in {"solarmanv5", "modbustcp"}
    BY <1>1, <2>1 DEF IInv, TagInv, Sequenced, AnswersOwnRequest, MatchedByTag, Calls,
       Solarman!AnswersOwnRequest, Solarman!MatchedByTag, Solarman!Calls,
       Tcp!AnswersOwnRequest, Tcp!MatchedByTag, Tcp!Calls
  <2>2. CASE kind = "modbusrtutcp"
    BY <1>1, <2>2 DEF IInv, PlaceInv, AnswersOwnRequest, Matched, Calls,
       RtuTcp!AnswersOwnRequest, RtuTcp!Matched, RtuTcp!Calls
  <2>3. CASE kind = "modbusserial"
    BY <1>1, <2>3 DEF IInv, FlushInv, LineInv, Clean, AnswersOwnRequest,
       Serial!AnswersOwnRequest
  <2>4. QED
    BY <1>1, <2>1, <2>2, <2>3 DEF IInv, Types, Kinds
<1>2. QED
  BY Invariance, <1>1, PTL

\* A call whose context is cancelled writes no more than what is left of the
\* exchange the cancellation came in: internalSendLocked starts no attempt for it.
THEOREM CancelBinds == Spec => []CancelStops
<1>1. IInv => CancelStops
  BY DEF IInv, LateInv
<1>2. QED
  BY Invariance, <1>1, PTL

\* Between the calls of a request that has not failed, a connection and the buffer
\* of readFrameLocked hold and await no more frames than the device sent beyond
\* its duty, however many resends and retries there were.
THEOREM NoPileUp == Spec => []BacklogBounded
<1>1. ASSUME IInv PROVE BacklogBounded
  <2>1. Backlog = Len(inbox) + Live
    BY DEF Backlog, Live, LiveIn
  <2>2. /\ Len(pending) \in Nat /\ Len(inbox) \in Nat /\ Live \in Nat /\ strays \in Nat
    BY <1>1, Lengths DEF IInv
  <2>3. SUFFICES ASSUME kind # "modbusserial", pc = "idle", ~failed
                 PROVE  Len(pending) + (Len(inbox) + Live) <= strays
    BY <2>1 DEF BacklogBounded
  <2>4. Len(pending) + Len(inbox) + Live <= strays
    BY <1>1, <2>2, <2>3 DEF IInv, BacklogInv
  <2>5. QED
    BY <2>2, <2>4
<1>2. QED
  BY Invariance, <1>1, PTL
=============================================================================
