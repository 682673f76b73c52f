-------------------------- MODULE CloudHandlerProofs -------------------------
(***************************************************************************)
(* Proofs about CloudHandler for every list of sub-inverters and messages  *)
(* of any number of lines.                                                 *)
(***************************************************************************)
EXTENDS CloudHandler, TLAPS

\* The lines of the message.
N == Len(message.lines)

Shape ==
  /\ N \in Nat
  /\ message.lines \in [1..N -> Contents]
  /\ lines \in [1..N -> LineStates]
  /\ index \in Nat

Before == {"start", "decode", "level", "target", "factory", "connect"}
After  == {"lastLog", "publish", "commit"}

(***************************************************************************)
(* The lines: as received until they are processed, in front of index      *)
(* answered and behind it as received, and in the end a cascade.           *)
(***************************************************************************)
Received(i) == lines[i].modbus = message.lines[i] /\ ~lines[i].error

Through(i) ==
  /\ lines[i].modbus = (IF message.lines[i] = "null" THEN "null" ELSE "answer")
  /\ ~lines[i].error

Cleared(i) == lines[i].modbus = "null"

Cascade ==
  IF header
  THEN \A i \in 1..N : Cleared(i) /\ ~lines[i].error
  ELSE \E k \in 1..(N + 1) :
         /\ \A i \in 1..(k - 1) : Through(i)
         /\ \A i \in k..N : Cleared(i) /\ (lines[i].error <=> i = k)

LinesInv ==
  /\ pc \in Before => ~header /\ index = 1 /\ \A i \in 1..N : Received(i)
  /\ pc = "lines" =>
       /\ ~header /\ index \in 1..(N + 1)
       /\ \A i \in 1..(index - 1) : Through(i)
       /\ \A i \in index..N : Received(i)
  /\ pc \in After => Cascade

ResponseInv ==
  /\ response.sent => ErrorCascade
  /\ response.sent => pc \in {"commit", "returned"}

(***************************************************************************)
(* The target, the driver and the token, by where Handle is.               *)
(***************************************************************************)
Routed == IF target = 0 THEN message.sub = Blank ELSE SubInverters[target] = message.sub

RouteInv ==
  /\ pc \in {"start", "decode", "level", "target"} => target = 0 /\ driver = "none"
  /\ pc = "factory" => driver = "none"
  /\ pc \in {"connect", "lines"} => driver = "open"
  /\ pc = "factory" \/ driver # "none" => Routed

HoldInv ==
  /\ driver = "open" => pc \in {"connect", "lines"}
  /\ token = "mine" => pc \notin {"start", "returned"}

IInv == Shape /\ LinesInv /\ ResponseInv /\ RouteInv /\ HoldInv
-----------------------------------------------------------------------------
\* A function on 1..n is a sequence of length n.
LEMMA FunctionLength ==
  ASSUME NEW n \in Nat, NEW S, NEW f \in [1..n -> S]
  PROVE  Len(f) = n /\ DOMAIN f = 1..n
OBVIOUS

\* What clearing does to the lines.
LEMMA Clearing ==
  ASSUME Shape, NEW from \in Nat
  PROVE  /\ ClearModbus(from) \in [1..N -> LineStates]
         /\ \A i \in 1..N :
              /\ i >= from => ClearModbus(from)[i].modbus = "null"
              /\ i < from => ClearModbus(from)[i] = lines[i]
              /\ ClearModbus(from)[i].error = lines[i].error
BY DEF Shape, ClearModbus, LineStates, Contents

\* The message does not change.
LEMMA MessageKept == [Next]_vars => message' = message /\ N' = N
BY DEF Next, Cancel, OtherReturns, Handle, Local, GiveUp, TakeToken, Decode, Step, Return,
       ApplyLogLevel, Execute, ResolveTarget, NewDriver, Connect, SkipLine, AnswerLine,
       FailLine, EndLines, PrepareLastLog, Publish, PublishCancelled, CommitLastLog, Panics,
       Done, vars, N

\* The shape of message and lines is kept.
LEMMA ShapeStep == Shape /\ [Next]_vars => Shape'
<1> SUFFICES ASSUME Shape, [Next]_vars
             PROVE  Shape'
  OBVIOUS
<1>1. message' = message /\ N' = N
  BY MessageKept
<1>2. CASE UNCHANGED <<lines, index>>
  BY <1>1, <1>2 DEF Shape
<1>3. CASE SetGlobalError /\ UNCHANGED index
  BY <1>1, <1>3, Clearing DEF Shape, SetGlobalError
<1>4. CASE SkipLine
  BY <1>1, <1>4 DEF Shape, SkipLine
<1>5. CASE AnswerLine
  <2>1. [lines EXCEPT ![index].modbus = "answer"] \in [1..N -> LineStates]
    BY DEF Shape, LineStates
  <2> QED
    BY <1>1, <1>5, <2>1 DEF Shape, AnswerLine
<1>6. CASE FailLine
  <2>1. ClearModbus(index) \in [1..N -> LineStates]
    BY Clearing DEF Shape
  <2>2. [ClearModbus(index) EXCEPT ![index].error = TRUE] \in [1..N -> LineStates]
    BY <2>1 DEF LineStates
  <2> QED
    BY <1>1, <1>6, <2>2 DEF Shape, FailLine
<1> QED
  BY <1>2, <1>3, <1>4, <1>5, <1>6
     DEF Next, Cancel, OtherReturns, Handle, Local, GiveUp, TakeToken, Decode, ApplyLogLevel,
         Execute, ResolveTarget, NewDriver, Connect, EndLines, PrepareLastLog, Publish,
         PublishCancelled, CommitLastLog, Panics, Done, vars, bodyVars

\* The driver is for the inverter that the message names.
LEMMA RouteStep == RouteInv /\ [Next]_vars => RouteInv'
<1> SUFFICES ASSUME RouteInv, [Next]_vars
             PROVE  RouteInv'
  OBVIOUS
<1> USE DEF RouteInv, Routed, Step, Return, bodyVars
<1>1. CASE ResolveTarget
  <2>1. 0 \notin DOMAIN SubInverters
    BY HandlerAssumption
  <2> QED
    BY <1>1, <2>1 DEF ResolveTarget, Listed
<1>2. CASE NewDriver \/ Connect \/ SkipLine \/ AnswerLine \/ FailLine \/ EndLines
  BY <1>2 DEF NewDriver, Connect, SkipLine, AnswerLine, FailLine, EndLines
<1>3. CASE GiveUp \/ TakeToken \/ Decode \/ ApplyLogLevel
  BY <1>3 DEF GiveUp, TakeToken, Decode, ApplyLogLevel
<1>4. CASE PrepareLastLog \/ Publish \/ PublishCancelled \/ CommitLastLog \/ Panics
  BY <1>4 DEF PrepareLastLog, Publish, PublishCancelled, CommitLastLog, Panics, Running
<1>5. CASE Cancel \/ OtherReturns \/ UNCHANGED vars
  BY <1>5 DEF Cancel, OtherReturns, vars
<1> QED
  BY <1>1, <1>2, <1>3, <1>4, <1>5 DEF Next, Handle, Local, Execute, Done

\* Driver and token are held only where Handle gives them back.
LEMMA HoldStep == RouteInv /\ HoldInv /\ [Next]_vars => HoldInv'
<1> SUFFICES ASSUME RouteInv, HoldInv, [Next]_vars
             PROVE  HoldInv'
  OBVIOUS
<1> USE DEF RouteInv, HoldInv, Step, Return, bodyVars
<1>1. CASE ResolveTarget \/ NewDriver
  BY <1>1 DEF ResolveTarget, NewDriver
<1>2. CASE Connect \/ SkipLine \/ AnswerLine \/ FailLine \/ EndLines
  BY <1>2 DEF Connect, SkipLine, AnswerLine, FailLine, EndLines
<1>3. CASE GiveUp \/ TakeToken \/ Decode \/ ApplyLogLevel
  BY <1>3 DEF GiveUp, TakeToken, Decode, ApplyLogLevel
<1>4. CASE PrepareLastLog \/ Publish \/ PublishCancelled \/ CommitLastLog \/ Panics
  BY <1>4 DEF PrepareLastLog, Publish, PublishCancelled, CommitLastLog, Panics, Running
<1>5. CASE Cancel \/ OtherReturns \/ UNCHANGED vars
  BY <1>5 DEF Cancel, OtherReturns, vars
<1> QED
  BY <1>1, <1>2, <1>3, <1>4, <1>5 DEF Next, Handle, Local, Execute, Done

\* The lines are as received, then answered one after the other, and in the end
\* a cascade.
LEMMA LinesStep == Shape /\ LinesInv /\ [Next]_vars => LinesInv'
<1> SUFFICES ASSUME Shape, LinesInv, [Next]_vars
             PROVE  LinesInv'
  OBVIOUS
<1>1. message' = message /\ N' = N /\ N \in Nat /\ Len(lines) = N
  BY MessageKept, FunctionLength DEF Shape
<1>2. ASSUME UNCHANGED <<lines, header, index>>,
             \/ pc' = pc
             \/ pc \in Before /\ pc' \in Before \cup {"returned"}
             \/ pc \in Before /\ pc' = "lines"
             \/ pc \in After /\ pc' \in After
             \/ pc' = "returned"
      PROVE  LinesInv'
  <2>1. \A i \in 1..N : Received(i)' = Received(i) /\ Through(i)' = Through(i)
    BY <1>1, <1>2 DEF Received, Through
  <2>2. Cascade' = Cascade
    BY <1>1, <1>2 DEF Cascade, Through, Cleared
  <2>3. pc' \in Before => pc \in Before
    BY <1>2 DEF Before, After
  <2>4. pc' \in After => pc \in After
    BY <1>2 DEF Before, After
  <2>5. pc' = "lines" => pc \in Before \cup {"lines"}
    BY <1>2 DEF Before, After
  <2>6. pc' \in Before => ~header' /\ index' = 1 /\ \A i \in 1..N' : Received(i)'
    BY <1>1, <1>2, <2>1, <2>3 DEF LinesInv
  <2>7. (pc' \in After) => Cascade'
    BY <2>2, <2>4 DEF LinesInv
  <2>8. pc' = "lines" =>
          /\ ~header' /\ index' \in 1..(N' + 1)
          /\ \A i \in 1..(index' - 1) : Through(i)'
          /\ \A i \in index'..N' : Received(i)'
    BY <1>1, <1>2, <2>1, <2>5 DEF LinesInv
  <2> QED
    BY <2>6, <2>7, <2>8 DEF LinesInv, Before, After
<1>3. ASSUME pc \in Before, pc' = "lastLog", SetGlobalError
      PROVE  LinesInv'
  <2>1. \A i \in 1..N : lines'[i].modbus = "null" /\ lines'[i].error = lines[i].error
    BY <1>3, Clearing DEF SetGlobalError
  <2>2. Cascade'
    BY <1>1, <1>3, <2>1 DEF Cascade, Cleared, SetGlobalError, LinesInv, Received
  <2> QED
    BY <1>3, <2>2 DEF LinesInv, Before, After
<1>4. CASE SkipLine
  <2>1. pc = "lines" /\ pc' = "lines" /\ index \in 1..N /\ index' = index + 1
    BY <1>1, <1>4 DEF SkipLine, Step, LinesInv
  <2>2. Through(index)
    BY <1>4, <2>1 DEF SkipLine, LinesInv, Received, Through
  <2>3. \A i \in 1..N : Through(i)' = Through(i) /\ Received(i)' = Received(i)
    BY <1>1, <1>4 DEF SkipLine, Through, Received
  <2> QED
    BY <1>1, <1>4, <2>1, <2>2, <2>3 DEF SkipLine, LinesInv, Before, After
<1>5. CASE AnswerLine
  <2>1. pc = "lines" /\ pc' = "lines" /\ index \in 1..N /\ index' = index + 1
    BY <1>1, <1>5 DEF AnswerLine, Step, LinesInv
  <2>2. /\ lines'[index].modbus = "answer" /\ lines'[index].error = lines[index].error
        /\ \A i \in 1..N : i # index => lines'[i] = lines[i]
    BY <1>5, <2>1 DEF AnswerLine, Shape, LineStates
  <2>3. \A i \in 1..N : i = index => Through(i)'
    BY <1>1, <1>5, <2>1, <2>2 DEF AnswerLine, LinesInv, Received, Through
  <2>4. \A i \in 1..N : i # index => Through(i)' = Through(i) /\ Received(i)' = Received(i)
    BY <1>1, <2>2 DEF Through, Received
  <2> QED
    BY <1>1, <1>5, <2>1, <2>3, <2>4 DEF AnswerLine, LinesInv, Before, After
<1>6. CASE FailLine
  <2>1. pc = "lines" /\ pc' = "lastLog" /\ index \in 1..N /\ ~header /\ header' = header
    BY <1>1, <1>6 DEF FailLine, Step, LinesInv
  <2>2. /\ \A i \in 1..N : i >= index => lines'[i].modbus = "null"
        /\ \A i \in 1..(index - 1) : lines'[i] = lines[i]
        /\ \A i \in 1..N : i # index => lines'[i].error = lines[i].error
        /\ lines'[index].error = TRUE
    <3>1. index \in Nat
      BY <2>1
    <3> DEFINE C == ClearModbus(index)
    <3>2. /\ C \in [1..N -> LineStates]
          /\ \A i \in 1..N :
               /\ i >= index => C[i].modbus = "null"
               /\ i < index => C[i] = lines[i]
               /\ C[i].error = lines[i].error
      BY <3>1, Clearing
    <3>3. lines' = [C EXCEPT ![index].error = TRUE]
      BY <1>6 DEF FailLine
    <3>4. /\ \A i \in 1..N : i # index => lines'[i] = C[i]
          /\ lines'[index].modbus = C[index].modbus
          /\ lines'[index].error = TRUE
      <4> HIDE DEF C
      <4> QED
        BY <2>1, <3>2, <3>3 DEF LineStates
    <3> QED
      <4> HIDE DEF C
      <4> QED
        BY <1>1, <2>1, <3>2, <3>4
  <2>3. \A i \in 1..(index - 1) : Through(i)'
    BY <1>1, <2>1, <2>2 DEF LinesInv, Through
  <2>4. \A i \in index..N : Cleared(i)' /\ (lines'[i].error <=> i = index)
    BY <1>1, <2>1, <2>2 DEF LinesInv, Received, Cleared
  <2>5. PICK k \in 1..(N + 1) : k = index
    BY <1>1, <2>1
  <2>6. /\ \A i \in 1..(k - 1) : Through(i)'
        /\ \A i \in k..N : Cleared(i)' /\ (lines'[i].error <=> i = k)
    BY <2>3, <2>4, <2>5
  <2>7. Cascade'
    BY <1>1, <2>1, <2>6 DEF Cascade
  <2> QED
    BY <2>1, <2>7 DEF LinesInv, Before, After
<1>7. CASE EndLines
  <2>1. /\ pc = "lines" /\ pc' = "lastLog" /\ index = N + 1
        /\ ~header /\ UNCHANGED <<lines, header>>
    BY <1>1, <1>7 DEF EndLines, Step, LinesInv, Shape
  <2>2. \A i \in 1..N : Through(i)'
    BY <1>1, <2>1 DEF LinesInv, Through
  <2>3. Cascade'
    BY <1>1, <2>1, <2>2 DEF Cascade
  <2> QED
    BY <2>1, <2>3 DEF LinesInv, Before, After
<1>8. CASE ResolveTarget \/ NewDriver \/ Connect
  BY <1>2, <1>3, <1>8 DEF ResolveTarget, NewDriver, Connect, Step, Before
<1>9. CASE Cancel \/ OtherReturns \/ GiveUp \/ TakeToken \/ Decode \/ ApplyLogLevel
  BY <1>2, <1>9
     DEF Cancel, OtherReturns, GiveUp, TakeToken, Decode, ApplyLogLevel, Step, Return, bodyVars,
         Before
<1>10. CASE \/ PrepareLastLog \/ Publish \/ PublishCancelled \/ CommitLastLog
            \/ Panics \/ UNCHANGED vars
  BY <1>2, <1>10
     DEF PrepareLastLog, Publish, PublishCancelled, CommitLastLog, Panics, Step, Return, vars,
         bodyVars, After
<1> QED
  BY <1>4, <1>5, <1>6, <1>7, <1>8, <1>9, <1>10 DEF Next, Handle, Local, Execute, Done

\* A response that is published is a cascade, and stays as it was published.
LEMMA ResponseStep == Shape /\ LinesInv /\ ResponseInv /\ [Next]_vars => ResponseInv'
<1> SUFFICES ASSUME Shape, LinesInv, ResponseInv, [Next]_vars
             PROVE  ResponseInv'
  OBVIOUS
<1>1. message' = message /\ N' = N /\ N \in Nat /\ Len(lines) = N
  BY MessageKept, FunctionLength DEF Shape
<1>2. CASE Publish /\ response' # response
  <2>1. /\ pc = "publish" /\ pc' = "commit"
        /\ response'.sent /\ response'.lines = lines /\ response'.header = header
    BY <1>2 DEF Publish, Step
  <2>2. Cascade
    BY <2>1 DEF LinesInv, After
  <2>3. ErrorCascade'
    BY <1>1, <2>1, <2>2 DEF ErrorCascade, Cascade, Cleared, Through, Answered
  <2> QED
    BY <2>1, <2>3 DEF ResponseInv
<1>3. ASSUME response' = response, response.sent => pc' \in {"commit", "returned"}
      PROVE  ResponseInv'
  BY <1>1, <1>3 DEF ResponseInv, ErrorCascade, Answered
<1>4. CASE UNCHANGED response
  <2>1. response.sent => pc' \in {"commit", "returned"}
    BY DEF ResponseInv, Next, Cancel, OtherReturns, Handle, Local, GiveUp, TakeToken, Decode,
           ApplyLogLevel, Execute, ResolveTarget, NewDriver, Connect, SkipLine, AnswerLine,
           FailLine, EndLines, PrepareLastLog, Publish, PublishCancelled, CommitLastLog, Panics,
           Done, vars, Step, Return
  <2> QED
    BY <1>3, <1>4, <2>1
<1>5. response' # response => Publish
  BY DEF Next, Cancel, OtherReturns, Handle, Local, GiveUp, TakeToken, Decode, ApplyLogLevel,
         Execute, ResolveTarget, NewDriver, Connect, SkipLine, AnswerLine, FailLine, EndLines,
         PrepareLastLog, PublishCancelled, CommitLastLog, Panics, Done, vars, bodyVars
<1> QED
  BY <1>2, <1>4, <1>5

-----------------------------------------------------------------------------
\* The inductive invariant.
LEMMA Invariance == Spec => []IInv
<1>1. Init => IInv
  <2> SUFFICES ASSUME Init
               PROVE  IInv
    OBVIOUS
  <2>1. PICK n \in Nat : message.lines \in [1..n -> Contents]
    BY HandlerAssumption DEF Init, Messages
  <2>2. N = n /\ DOMAIN message.lines = 1..N
    BY <2>1, FunctionLength DEF N
  <2>3. Shape
    BY <2>1, <2>2 DEF Init, Shape, LineStates
  <2>4. LinesInv
    BY <2>2 DEF Init, LinesInv, Received, Before, After
  <2>5. ResponseInv /\ RouteInv /\ HoldInv
    BY DEF Init, NoResponse, ResponseInv, RouteInv, HoldInv
  <2> QED
    BY <2>3, <2>4, <2>5 DEF IInv
<1>2. IInv /\ [Next]_vars => IInv'
  BY ShapeStep, LinesStep, ResponseStep, RouteStep, HoldStep DEF IInv
<1> QED
  BY <1>1, <1>2, PTL DEF Spec

\* However many lines a message has and whichever call fails, the response is the
\* error cascade: answers up to the first failed line and nothing after it.
THEOREM CascadeCorrect == Spec => []ErrorCascade
<1>1. IInv => ErrorCascade
  BY DEF IInv, ResponseInv, ErrorCascade
<1> QED
  BY <1>1, Invariance, PTL

\* For any list of sub-inverters, repeated serials included, the driver is for
\* the inverter that the message names.
THEOREM RoutingCorrect == Spec => []RoutesToNamedInverter
<1>1. IInv => RoutesToNamedInverter
  BY DEF IInv, RouteInv, Routed, RoutesToNamedInverter
<1> QED
  BY <1>1, Invariance, PTL

\* Handle leaves neither an open driver nor the token behind.
THEOREM EverythingReleased == Spec => []ReleasesEverything
<1>1. IInv => ReleasesEverything
  BY DEF IInv, HoldInv, ReleasesEverything
<1> QED
  BY <1>1, Invariance, PTL
=============================================================================
