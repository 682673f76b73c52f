---------------------------- MODULE CloudHandler -----------------------------
(***************************************************************************)
(* RequestHandler.Handle for one cloud message: decode, log level, routing *)
(* to an inverter, the Modbus lines with their error cascade, the log      *)
(* text, the response and the commit of the log cursor.  Every call it     *)
(* makes may fail, and the request's context may be cancelled at any time. *)
(* A line is abstracted to what its Modbus field holds.                    *)
(***************************************************************************)
EXTENDS Naturals, Sequences

CONSTANTS
  SubInverters,  \* the plant's sub-inverters: serials in configured order
  Unlisted,      \* a serial that is not on that list
  Blank,         \* no SubInverterSN, or only spaces
  MaxLines       \* bound: lines of a message

Serials == {SubInverters[i] : i \in DOMAIN SubInverters}

ASSUME HandlerAssumption ==
  /\ MaxLines \in Nat
  /\ SubInverters \in Seq(Serials)
  /\ Serials \cap {Unlisted, Blank} = {}
  /\ Unlisted # Blank

VARIABLES
  message,    \* the received header
  pc,         \* where Handle is
  ctxDone,    \* the request's context is cancelled
  token,      \* who has the handler's token
  lines,      \* header.Lines as they are rewritten
  header,     \* header.Error is set
  index,      \* the line being processed
  target,     \* inverter: 0 the plant's own, i its i-th sub-inverter
  driver,     \* the inverter driver
  level,      \* the cloud log level was handled
  logText,    \* the response carries log text to commit
  response,   \* the published response
  committed   \* the log cursor was committed

vars == <<message, pc, ctxDone, token, lines, header, index, target, driver,
          level, logText, response, committed>>

Contents == {"null", "request", "badHex"}
Messages ==
  [json : {"object", "null", "malformed"},
   logLevel : {"absent", "known", "unknown"},
   sub : {Blank, Unlisted} \cup Serials,
   sendLastLog : BOOLEAN,
   lines : UNION {[1..n -> Contents] : n \in 0..MaxLines}]
LineStates == [modbus : Contents \cup {"answer"}, error : BOOLEAN]
NoResponse == [sent |-> FALSE]
Running == {"level", "target", "factory", "connect", "lines", "lastLog", "publish",
            "commit"}

TypeOK ==
  /\ message \in Messages
  /\ pc \in {"start", "decode", "returned"} \cup Running
  /\ ctxDone \in BOOLEAN /\ token \in {"free", "other", "mine"}
  /\ lines \in Seq(LineStates) /\ Len(lines) = Len(message.lines)
  /\ header \in BOOLEAN /\ level \in BOOLEAN
  /\ index \in 1..(MaxLines + 1)
  /\ target \in 0..Len(SubInverters)
  /\ driver \in {"none", "open", "closed"}
  /\ logText \in BOOLEAN /\ committed \in BOOLEAN
  /\ response.sent \in BOOLEAN

Init ==
  /\ message \in Messages
  /\ pc = "start"
  /\ ctxDone \in BOOLEAN
  /\ token \in {"free", "other"}
  /\ lines = [i \in DOMAIN message.lines |->
                [modbus |-> message.lines[i], error |-> FALSE]]
  /\ header = FALSE /\ index = 1 /\ target = 0 /\ driver = "none"
  /\ level = FALSE /\ logText = FALSE
  /\ response = NoResponse /\ committed = FALSE

-----------------------------------------------------------------------------
bodyVars == <<lines, header, index, target, driver, level, logText, response,
              committed>>

Cancel ==
  /\ ~ctxDone
  /\ ctxDone' = TRUE
  /\ UNCHANGED <<message, pc, token, bodyVars>>

\* The request that held the token before this one returns.
OtherReturns ==
  /\ token = "other"
  /\ token' = "free"
  /\ UNCHANGED <<message, pc, ctxDone, bodyVars>>

\* Faulty variant: the token is awaited without the context.
GiveUpNever == FALSE /\ UNCHANGED vars

\* The context is done before the token is taken.
GiveUp ==
  /\ pc = "start" /\ ctxDone
  /\ pc' = "returned"
  /\ UNCHANGED <<message, ctxDone, token, bodyVars>>

TakeToken ==
  /\ pc = "start" /\ token = "free"
  /\ pc' = "decode"
  /\ token' = "mine"
  /\ UNCHANGED <<message, ctxDone, bodyVars>>

Step(from, to) == pc = from /\ pc' = to /\ UNCHANGED <<message, ctxDone, token>>

\* Handle returns; the deferred function puts the token back.
Return(from) ==
  /\ pc = from /\ pc' = "returned"
  /\ token' = "free"
  /\ UNCHANGED <<message, ctxDone>>

\* protocol.Decode: malformed JSON and the null document end the request.
Decode ==
  /\ IF message.json = "object" THEN Step("decode", "level") ELSE Return("decode")
  /\ UNCHANGED bodyVars

\* applyLogLevel: an unknown level is ignored; one that cannot be persisted
\* ends the request without a response.
ApplyLogLevel ==
  /\ level' = TRUE
  /\ \/ Step("level", "target")
     \/ message.logLevel = "known" /\ Return("level")
  /\ UNCHANGED <<lines, header, index, target, driver, logText, response, committed>>

ClearModbus(from) ==
  [i \in DOMAIN lines |->
     IF i >= from THEN [lines[i] EXCEPT !.modbus = "null"] ELSE lines[i]]

SetGlobalError == header' = TRUE /\ lines' = ClearModbus(1)

Listed == {i \in DOMAIN SubInverters : SubInverters[i] = message.sub}

\* Faulty variant: an unknown serial falls back to the plant's own inverter.
ResolveTargetFallsBack ==
  /\ Step("target", "factory")
  /\ target' \in {i \in Listed : \A j \in Listed : i <= j} \cup (IF Listed = {} THEN {0} ELSE {})
  /\ UNCHANGED <<lines, header, index, driver, level, logText, response, committed>>

\* resolveTarget: the plant, the first sub-inverter with the serial, or an error.
ResolveTarget ==
  /\ \/ /\ message.sub = Blank
        /\ Step("target", "factory")
        /\ UNCHANGED <<lines, header, target>>
     \/ /\ message.sub # Blank /\ Listed # {}
        /\ Step("target", "factory")
        /\ target' \in {i \in Listed : \A j \in Listed : i <= j}
        /\ UNCHANGED <<lines, header>>
     \/ /\ message.sub # Blank /\ Listed = {}
        /\ Step("target", "lastLog")
        /\ SetGlobalError
        /\ UNCHANGED target
  /\ UNCHANGED <<index, driver, level, logText, response, committed>>

\* newDriver succeeds, or fails (or returns nil) and nothing is open.
NewDriver ==
  /\ \/ /\ Step("factory", "connect")
        /\ driver' = "open"
        /\ UNCHANGED <<lines, header>>
     \/ /\ Step("factory", "lastLog")
        /\ SetGlobalError
        /\ UNCHANGED driver
  /\ UNCHANGED <<index, target, level, logText, response, committed>>

\* Faulty variant: Close is not deferred until after a failed Connect.
ConnectLeaksDriver ==
  /\ \/ ~ctxDone /\ Step("connect", "lines") /\ UNCHANGED <<lines, header>>
     \/ Step("connect", "lastLog") /\ SetGlobalError
  /\ UNCHANGED <<index, target, driver, level, logText, response, committed>>

\* Connect; a failure closes the driver (deferred) and is a global error.
Connect ==
  /\ \/ ~ctxDone /\ Step("connect", "lines") /\ UNCHANGED <<lines, header, driver>>
     \/ Step("connect", "lastLog") /\ SetGlobalError /\ driver' = "closed"
  /\ UNCHANGED <<index, target, level, logText, response, committed>>

\* A line without Modbus is left alone.
SkipLine ==
  /\ index <= Len(lines) /\ lines[index].modbus = "null"
  /\ Step("lines", "lines")
  /\ index' = index + 1
  /\ UNCHANGED <<lines, header, target, driver, level, logText, response, committed>>

\* SendDataToDevice answers.
AnswerLine ==
  /\ index <= Len(lines) /\ lines[index].modbus = "request" /\ ~ctxDone
  /\ Step("lines", "lines")
  /\ lines' = [lines EXCEPT ![index].modbus = "answer"]
  /\ index' = index + 1
  /\ UNCHANGED <<header, target, driver, level, logText, response, committed>>

\* Faulty variant: the lines after the failed one are not cleared.
FailLineKeepsRest ==
  /\ index <= Len(lines) /\ lines[index].modbus \in {"request", "badHex"}
  /\ Step("lines", "lastLog")
  /\ lines' = [lines EXCEPT ![index] = [modbus |-> "null", error |-> TRUE]]
  /\ driver' = "closed"
  /\ UNCHANGED <<header, index, target, level, logText, response, committed>>

\* The hex text or the transaction is bad: the line gets the error, it and the
\* following lines lose their Modbus, and the batch stops.
FailLine ==
  /\ index <= Len(lines) /\ lines[index].modbus \in {"request", "badHex"}
  /\ Step("lines", "lastLog")
  /\ lines' = [ClearModbus(index) EXCEPT ![index].error = TRUE]
  /\ driver' = "closed"
  /\ UNCHANGED <<header, index, target, level, logText, response, committed>>

EndLines ==
  /\ index > Len(lines)
  /\ Step("lines", "lastLog")
  /\ driver' = "closed"
  /\ UNCHANGED <<lines, header, index, target, level, logText, response, committed>>

\* prepareLastLog: an error leaves the response without log text.
PrepareLastLog ==
  /\ Step("lastLog", "publish")
  /\ logText' \in {FALSE, message.sendLastLog}
  /\ UNCHANGED <<lines, header, index, target, driver, level, response, committed>>

\* Encode and PublishContext: the broker acknowledges the response, or the
\* response cannot be encoded, is refused or its session is lost.
Publish ==
  /\ \/ /\ Step("publish", "commit")
        /\ response' = [sent |-> TRUE, lines |-> lines, header |-> header]
     \/ Return("publish") /\ UNCHANGED response
  /\ UNCHANGED <<lines, header, index, target, driver, level, logText, committed>>

\* Faulty variant: the acknowledgement is awaited without the context.
PublishUncancellable == FALSE /\ UNCHANGED vars

\* PublishContext does not wait on for an acknowledgement when the context is done.
PublishCancelled ==
  /\ ctxDone
  /\ Return("publish")
  /\ UNCHANGED bodyVars

\* Commit of the log cursor, if there was log text; then Handle returns.
CommitLastLog ==
  /\ Return("commit")
  /\ committed' \in {FALSE, logText}
  /\ UNCHANGED <<lines, header, index, target, driver, level, logText, response>>

\* Faulty variant: the token is put back only by an ordinary return.
PanicsKeepsToken ==
  /\ pc \in Running
  /\ pc' = "returned"
  /\ driver' = IF driver = "open" THEN "closed" ELSE driver
  /\ UNCHANGED <<message, ctxDone, token, lines, header, index, target, level,
                 logText, response, committed>>

\* A panic: the deferred functions close the driver and put the token back.
Panics ==
  /\ pc \in Running
  /\ Return(pc)
  /\ driver' = IF driver = "open" THEN "closed" ELSE driver
  /\ UNCHANGED <<lines, header, index, target, level, logText, response, committed>>

Execute ==
  \/ ResolveTarget \/ NewDriver \/ Connect
  \/ SkipLine \/ AnswerLine \/ FailLine \/ EndLines

\* The steps of Handle that wait neither for the broker nor for another request.
Local ==
  \/ GiveUp \/ TakeToken \/ Decode \/ ApplyLogLevel
  \/ Execute
  \/ PrepareLastLog \/ PublishCancelled \/ CommitLastLog

Handle == Local \/ Publish

Done == pc = "returned" /\ token # "other" /\ UNCHANGED vars

Next == Cancel \/ OtherReturns \/ Handle \/ Panics \/ Done

Spec == Init /\ [][Next]_vars

\* Local code goes on, the calls of a transport return (CallsReturn of Driver), and
\* a select sees that its context is done.  The acknowledgement of the broker and
\* the return of the request that holds the token may never come.
FairSpec == Spec /\ WF_vars(Local)

-----------------------------------------------------------------------------
(* Properties.                                                             *)

Answered(i) ==
  response.lines[i].modbus = (IF message.lines[i] = "null" THEN "null" ELSE "answer")

\* The error cascade of a published response: with a global error no line has
\* Modbus or an error; otherwise there is a first failed line (or none), the
\* lines before it are answered, and it and all later ones have no Modbus; so no
\* response ever echoes request bytes as if the inverter had sent them.
ErrorCascade ==
  response.sent =>
    LET n == Len(response.lines)
        Cleared(i) == response.lines[i].modbus = "null"
    IN  IF response.header
        THEN \A i \in 1..n : Cleared(i) /\ ~response.lines[i].error
        ELSE \E k \in 1..(n + 1) :
               /\ \A i \in 1..(k - 1) : Answered(i) /\ ~response.lines[i].error
               /\ \A i \in k..n : Cleared(i) /\ (response.lines[i].error <=> i = k)

\* A driver is opened only for the inverter the message names: never for the
\* plant's own inverter when the serial is a sub-inverter's or is not listed.
RoutesToNamedInverter ==
  driver # "none" =>
    IF target = 0 THEN message.sub = Blank ELSE SubInverters[target] = message.sub

\* Whatever way Handle leaves, by an error, a cancellation or a panic, the
\* driver's connection is closed and the token is back, so the next request
\* can run.
ReleasesEverything ==
  /\ pc \in {"lastLog", "publish", "commit", "returned"} => driver # "open"
  /\ pc = "returned" => token # "mine"

\* A request whose context is cancelled comes back, wherever the cancellation
\* meets it: it waits neither for the token of a request that never returns nor
\* for the acknowledgement of a broker that keeps the session and stays silent.
\* Nothing else ends these two waits: the publish has no deadline of its own.
CancelledReturns == ctxDone ~> (pc = "returned")
=============================================================================
