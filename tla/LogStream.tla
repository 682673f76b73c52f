------------------------------ MODULE LogStream ------------------------------
(***************************************************************************)
(* Streaming of the daily log to the cloud: the file sink of logbuf that   *)
(* stamps a line and appends it to the file of the stamped day, and the    *)
(* requests of one plant that read from the durable cursor (Prepare),      *)
(* publish the text and only then move the cursor (Commit).  Midnight,     *)
(* crashes and failed publishes may come between any two steps, and the    *)
(* shutdown path loads and saves the cursor again (persistPlantState).     *)
(* Positions count lines; days count from the first.                       *)
(***************************************************************************)
EXTENDS Naturals

CONSTANTS
  MaxDay,    \* bound: the last day
  MaxLines,  \* bound: lines in one day's file
  MaxFaults, \* bound: crashes, failed publishes, commits and reads, late grace
  NoDay      \* no date: nothing stamped, or an empty last_log_date

ASSUME StreamAssumption ==
  /\ MaxDay \in Nat /\ MaxLines \in Nat /\ MaxFaults \in Nat
  /\ NoDay \notin Nat

VARIABLES
  day,        \* today
  size,       \* lines in each day's file
  stamped,    \* day of the line the sink is about to append
  cursor,     \* the plant's durable state: LastLogDate, LastLogPos
  phase,      \* where the plant's request is
  today,      \* the day the request's Prepare computed
  loaded,     \* the cursor the request loaded
  text,       \* the lines the request read
  target,       \* the cursor the request will commit
  jumps,      \* the request started over at the end of today's file
  supervisor, \* the shutdown path
  snapshot,   \* the cursor persistPlantState loaded
  late,       \* the grace period expired with a request in flight
  shipped,    \* lines the broker has received
  twice,      \* lines the broker has received more than once
  excused,    \* lines skipped on purpose by a fresh start
  straddled,  \* lines appended after the midnight that ended their day
  faults      \* faults so far

logVars     == <<day, size, stamped, straddled>>
requestVars == <<phase, today, loaded, text, target, jumps>>
brokerVars  == <<shipped, twice>>
stopVars    == <<supervisor, snapshot, late>>
vars == <<logVars, requestVars, brokerVars, stopVars, cursor, excused, faults>>

Days == 0..MaxDay
Lines == Days \X (1..MaxLines)
Cursors == [date : Days \cup {NoDay}, pos : 0..MaxLines]
ZeroCursor == [date |-> NoDay, pos |-> 0]

TypeOK ==
  /\ day \in Days
  /\ size \in [Days -> 0..MaxLines]
  /\ stamped \in Days \cup {NoDay}
  /\ {cursor, loaded, target, snapshot} \subseteq Cursors
  /\ phase \in {"idle", "loaded", "prepared", "published"}
  /\ today \in Days
  /\ jumps \in BOOLEAN /\ late \in BOOLEAN
  /\ supervisor \in {"run", "persist", "exited"}
  /\ {text, shipped, twice, excused, straddled} \subseteq SUBSET Lines
  /\ faults \in 0..MaxFaults

Written == {l \in Lines : l[2] <= size[l[1]]}

\* The lines that a stream standing at c will not send any more.
Behind(c) == {l \in Lines : c.date # NoDay /\
                (l[1] < c.date \/ (l[1] = c.date /\ l[2] <= c.pos))}

Fault == faults < MaxFaults /\ faults' = faults + 1

Init ==
  /\ day = 0
  /\ size = [d \in Days |-> 0]
  /\ stamped = NoDay
  /\ cursor = ZeroCursor
  /\ phase = "idle" /\ today = 0 /\ loaded = ZeroCursor
  /\ text = {} /\ target = ZeroCursor /\ jumps = FALSE
  /\ supervisor = "run" /\ snapshot = ZeroCursor /\ late = FALSE
  /\ shipped = {} /\ twice = {} /\ excused = {} /\ straddled = {}
  /\ faults = 0

-----------------------------------------------------------------------------
(* The clock and the log sink.                                             *)

Midnight ==
  /\ day < MaxDay
  /\ day' = day + 1
  /\ UNCHANGED <<size, stamped, straddled, requestVars, brokerVars, stopVars,
                 cursor, excused, faults>>

\* write takes the time, formats the line and opens the file of that day.
Stamp ==
  /\ stamped = NoDay
  /\ size[day] < MaxLines
  /\ stamped' = day
  /\ UNCHANGED <<day, size, straddled, requestVars, brokerVars, stopVars, cursor,
                 excused, faults>>

\* The line reaches the file, or the write fails and the line is dropped.
Append ==
  /\ stamped # NoDay
  /\ stamped' = NoDay
  /\ \/ /\ size' = [size EXCEPT ![stamped] = @ + 1]
        /\ straddled' = IF stamped < day
                        THEN straddled \cup {<<stamped, size[stamped] + 1>>}
                        ELSE straddled
     \/ UNCHANGED <<size, straddled>>
  /\ UNCHANGED <<day, requestVars, brokerVars, stopVars, cursor, excused, faults>>

-----------------------------------------------------------------------------
(* A request with SendLastLog: Prepare, publish, Commit.                   *)

EndRequest ==
  /\ phase' = "idle"
  /\ text' = {} /\ target' = ZeroCursor /\ jumps' = FALSE
  /\ loaded' = ZeroCursor /\ today' = 0

\* Prepare loads the cursor and takes today's date.
PrepareLoad ==
  /\ phase = "idle" /\ supervisor = "run"
  /\ phase' = "loaded"
  /\ loaded' = cursor
  /\ today' = day
  /\ UNCHANGED <<text, target, jumps, logVars, brokerVars, stopVars, cursor,
                 excused, faults>>

\* No cursor yet, or one older than yesterday.
StartsOver ==
  \/ loaded.date = NoDay
  \/ loaded.date \in Days /\ loaded.date + 1 < today

\* initializeAtEnd: no text, the cursor goes to the end of today's file.
InitializeAtEnd ==
  /\ phase = "loaded" /\ StartsOver
  /\ phase' = "prepared"
  /\ jumps' = TRUE
  /\ text' = {}
  /\ target' = [date |-> today, pos |-> size[today]]
  /\ UNCHANGED <<today, loaded, logVars, brokerVars, stopVars, cursor, excused,
                 faults>>

\* Faulty variant: yesterday's cursor moves to today without yesterday's rest.
ReadFromDropsRest ==
  /\ phase = "loaded" /\ ~StartsOver
  /\ phase' = "prepared"
  /\ text' = {l \in Written : l[1] = loaded.date /\ l[1] = today /\ l[2] > loaded.pos}
  /\ target' = IF loaded.date + 1 = today THEN [date |-> today, pos |-> 0]
             ELSE [loaded EXCEPT !.pos = IF size[loaded.date] > @ THEN size[loaded.date] ELSE @]
  /\ UNCHANGED <<today, loaded, jumps, logVars, brokerVars, stopVars, cursor,
                 excused, faults>>

\* Faulty variant: the position is left where it was.
ReadFromKeepsPosition ==
  /\ phase = "loaded" /\ ~StartsOver
  /\ phase' = "prepared"
  /\ text' = {l \in Written : l[1] = loaded.date /\ l[2] > loaded.pos}
  /\ target' = IF loaded.date + 1 = today THEN [date |-> today, pos |-> 0] ELSE loaded
  /\ UNCHANGED <<today, loaded, jumps, logVars, brokerVars, stopVars, cursor,
                 excused, faults>>

\* Faulty variant: yesterday's cursor is not moved to today's file.
ReadFromStaysYesterday ==
  /\ phase = "loaded" /\ ~StartsOver
  /\ phase' = "prepared"
  /\ text' = {l \in Written : l[1] = loaded.date /\ l[2] > loaded.pos}
  /\ target' = [loaded EXCEPT !.pos = IF size[loaded.date] > @ THEN size[loaded.date] ELSE @]
  /\ UNCHANGED <<today, loaded, jumps, logVars, brokerVars, stopVars, cursor,
                 excused, faults>>

\* readFrom: the rest of the cursor's file; from yesterday the cursor goes to
\* the start of today's.
ReadFrom ==
  /\ phase = "loaded" /\ ~StartsOver
  /\ phase' = "prepared"
  /\ text' = {l \in Written : l[1] = loaded.date /\ l[2] > loaded.pos}
  /\ target' = IF loaded.date + 1 = today THEN [date |-> today, pos |-> 0]
             ELSE [loaded EXCEPT !.pos = IF size[loaded.date] > @ THEN size[loaded.date] ELSE @]
  /\ UNCHANGED <<today, loaded, jumps, logVars, brokerVars, stopVars, cursor,
                 excused, faults>>

\* Prepare fails: the response goes out without a log and nothing is committed.
PrepareFails ==
  /\ phase = "loaded"
  /\ Fault
  /\ EndRequest
  /\ UNCHANGED <<logVars, brokerVars, stopVars, cursor, excused>>

Ship ==
  /\ shipped' = shipped \cup text
  /\ twice' = twice \cup (text \cap shipped)

Publish ==
  /\ phase = "prepared"
  /\ phase' = "published"
  /\ Ship
  /\ UNCHANGED <<today, loaded, text, target, jumps, logVars, stopVars, cursor,
                 excused, faults>>

\* The publish reports an error; the broker may have received it all the same.
PublishFails ==
  /\ phase = "prepared"
  /\ Fault
  /\ EndRequest
  /\ Ship \/ UNCHANGED brokerVars
  /\ UNCHANGED <<logVars, stopVars, cursor, excused>>

\* Commit: store.Save of the prepared cursor (atomic, see StateStore).
Commit ==
  /\ phase = "published"
  /\ cursor' = target
  /\ excused' = IF jumps THEN excused \cup Behind(target) ELSE excused
  /\ EndRequest
  /\ UNCHANGED <<logVars, brokerVars, stopVars, faults>>

CommitFails ==
  /\ phase = "published"
  /\ Fault
  /\ EndRequest
  /\ UNCHANGED <<logVars, brokerVars, stopVars, cursor, excused>>

-----------------------------------------------------------------------------
(* Shutdown, exit and restart of the process.                              *)

\* Faulty variant: the shutdown path does not wait for the request.
PersistLoadAtOnce ==
  /\ supervisor = "run"
  /\ supervisor' = "persist"
  /\ snapshot' = cursor
  /\ UNCHANGED <<logVars, requestVars, brokerVars, cursor, excused, late, faults>>

\* persistPlantState loads once the request is over, or the grace expired.
PersistLoad ==
  /\ supervisor = "run"
  /\ supervisor' = "persist"
  /\ snapshot' = cursor
  /\ \/ phase = "idle" /\ UNCHANGED <<late, faults>>
     \/ phase # "idle" /\ late' = TRUE /\ Fault
  /\ UNCHANGED <<logVars, requestVars, brokerVars, cursor, excused>>

\* ... and saves what it loaded, or fails to.
PersistSave ==
  /\ supervisor = "persist"
  /\ supervisor' = "exited"
  /\ cursor' \in {snapshot, cursor}
  /\ UNCHANGED <<logVars, requestVars, brokerVars, snapshot, late, excused, faults>>

NewProcess ==
  /\ supervisor' = "run" /\ snapshot' = ZeroCursor
  /\ EndRequest
  /\ stamped' = NoDay
  /\ UNCHANGED <<day, size, straddled, brokerVars, cursor, late, excused>>

Restart == supervisor = "exited" /\ NewProcess /\ UNCHANGED faults

Crash == Fault /\ NewProcess

Stream ==
  \/ PrepareLoad \/ InitializeAtEnd \/ ReadFrom \/ PrepareFails
  \/ Publish \/ PublishFails \/ Commit \/ CommitFails

Next ==
  \/ Midnight \/ Stamp \/ Append
  \/ Stream
  \/ PersistLoad \/ PersistSave \/ Restart \/ Crash

Spec == Init /\ [][Next]_vars

(* The cloud keeps asking for the log, requests make progress, and a stopped *)
(* process is started again.                                                 *)
FairSpec ==
  /\ Spec
  /\ WF_vars(Append)
  /\ WF_vars(InitializeAtEnd \/ ReadFrom)
  /\ WF_vars(Publish) /\ WF_vars(Commit)
  /\ SF_vars(PrepareLoad)
  /\ WF_vars(PersistSave) /\ WF_vars(Restart)

-----------------------------------------------------------------------------
(* Properties.                                                             *)

\* The durable cursor never passes a line that was neither received by the
\* broker nor skipped by a fresh start, whatever crashes, failed publishes and
\* midnights happened; except a line that reached its file after midnight.
NoLineSkipped ==
  Written \cap Behind(cursor) \subseteq shipped \cup excused \cup straddled

\* Day rollover misses no text: as above, without the exception.
NoTextMissedAcrossMidnight ==
  Written \cap Behind(cursor) \subseteq shipped \cup excused

\* Without faults no line is sent twice, across midnights and restarts.
NoTextDuplicated == faults = 0 => twice = {}

NotBefore(c, d) ==
  \/ d.date = NoDay
  \/ c.date # NoDay /\ (c.date > d.date \/ (c.date = d.date /\ c.pos >= d.pos))

\* The cursor moves backwards only when a request outlives the shutdown grace:
\* persistPlantState then may save a cursor it loaded before the commit.
CursorAdvances == [][~late => NotBefore(cursor', cursor)]_vars

\* Every line that reached a file is eventually sent, skipped by a fresh start
\* or is one that reached its file after midnight.
EventuallyStreamed ==
  \A l \in Lines : (l \in Written) ~> (l \in shipped \cup excused \cup straddled)
=============================================================================
