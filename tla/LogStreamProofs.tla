--------------------------- MODULE LogStreamProofs ---------------------------
(***************************************************************************)
(* Proofs about LogStream for any number of days, lines and faults.        *)
(***************************************************************************)
EXTENDS LogStream, TLAPS

(***************************************************************************)
(* The inductive invariant.  A cursor is within what is written, so a line *)
(* that is appended later is behind it only if it straddles a midnight;    *)
(* and what is behind a cursor, or will be once the request is committed,  *)
(* is accounted for.                                                       *)
(***************************************************************************)
Within(c) == c.date # NoDay => c.date <= day /\ c.pos <= size[c.date]

Accounted == shipped \cup excused \cup straddled

Safe(c) == Written \cap Behind(c) \subseteq Accounted

SinkInv == stamped # NoDay => stamped <= day /\ size[stamped] < MaxLines

CursorInv ==
  /\ Within(cursor) /\ Within(loaded) /\ Within(target) /\ Within(snapshot)
  /\ Safe(cursor) /\ Safe(loaded) /\ Safe(snapshot)

Prepared == phase \in {"prepared", "published"}

RequestInv ==
  /\ today <= day
  /\ phase # "idle" /\ loaded.date # NoDay => loaded.date <= today
  /\ Prepared =>
       /\ Behind(loaded) \subseteq Behind(target)
       /\ text \subseteq Behind(target) \ Behind(loaded)
       /\ NotBefore(target, loaded)
  /\ Prepared /\ ~jumps => Written \cap Behind(target) \subseteq Accounted \cup text
  /\ phase = "published" => text \subseteq shipped

\* Unless a request outlives the grace period, nobody else moves the cursor
\* while a request or persistPlantState has loaded it.
PromptInv ==
  ~late =>
    /\ phase # "idle" => loaded = cursor /\ supervisor = "run"
    /\ supervisor = "persist" => snapshot = cursor

\* Without faults the broker has what is behind the cursor, and the text of the
\* request that is not committed yet.
OnceInv ==
  /\ late => faults > 0
  /\ faults = 0 =>
       /\ twice = {}
       /\ shipped \subseteq Behind(cursor) \cup (IF phase = "published" THEN text ELSE {})

IInv == TypeOK /\ SinkInv /\ CursorInv /\ RequestInv /\ PromptInv /\ OnceInv
-----------------------------------------------------------------------------
\* What TypeOK says of each variable.
LEMMA Types ==
  ASSUME TypeOK
  PROVE  /\ day \in Nat /\ day \in Days /\ today \in Days
         /\ cursor \in Cursors /\ loaded \in Cursors /\ target \in Cursors
         /\ snapshot \in Cursors
         /\ text \subseteq Lines /\ shipped \subseteq Lines /\ twice \subseteq Lines
         /\ excused \subseteq Lines /\ straddled \subseteq Lines
         /\ faults \in Nat
BY StreamAssumption DEF TypeOK, Days

\* The start cursor has a type, and nothing is behind it.
LEMMA ZeroType == ZeroCursor \in Cursors /\ Behind(ZeroCursor) = {} /\ 0 \in Days
BY StreamAssumption DEF ZeroCursor, Cursors, Behind, Days

\* What a stream reads and where it goes have their types.
LEMMA ReadTypes ==
  ASSUME TypeOK
  PROVE  /\ phase = "loaded" /\ StartsOver =>
              [date |-> today, pos |-> size[today]] \in Cursors
         /\ phase = "loaded" /\ ~StartsOver =>
              /\ loaded.date \in Days
              /\ [date |-> today, pos |-> 0] \in Cursors
              /\ [loaded EXCEPT !.pos = IF size[loaded.date] > @ THEN size[loaded.date] ELSE @]
                   \in Cursors
<1>1. size \in [Days -> 0..MaxLines] /\ today \in Days /\ loaded \in Cursors
  BY DEF TypeOK
<1>2. [date |-> today, pos |-> size[today]] \in Cursors
  BY <1>1 DEF Cursors
<1>3. ~StartsOver => loaded.date \in Days
  BY <1>1 DEF StartsOver, Cursors
<1>4. [date |-> today, pos |-> 0] \in Cursors
  BY <1>1, StreamAssumption DEF Cursors
<1>5. loaded.date \in Days =>
        [loaded EXCEPT !.pos = IF size[loaded.date] > @ THEN size[loaded.date] ELSE @] \in Cursors
  BY <1>1 DEF Cursors
<1> QED
  BY <1>2, <1>3, <1>4, <1>5

\* Every step keeps the types.
LEMMA TypeStep == TypeOK /\ SinkInv /\ [Next]_vars => TypeOK'
<1> SUFFICES ASSUME TypeOK, SinkInv, [Next]_vars
             PROVE  TypeOK'
  OBVIOUS
<1> USE DEF TypeOK, logVars, requestVars, brokerVars, stopVars
<1>1. CASE Midnight
  BY <1>1, StreamAssumption DEF Midnight, Days
<1>2. CASE Stamp
  BY <1>2 DEF Stamp
<1>3. CASE Append
  <2>1. CASE UNCHANGED <<size, straddled>>
    BY <1>3, <2>1 DEF Append
  <2>2. CASE /\ size' = [size EXCEPT ![stamped] = @ + 1]
             /\ straddled' = IF stamped < day
                             THEN straddled \cup {<<stamped, size[stamped] + 1>>}
                             ELSE straddled
    <3>1. stamped \in Days /\ size[stamped] + 1 \in 1..MaxLines
      BY <1>3, StreamAssumption DEF Append, SinkInv
    <3>2. size' \in [Days -> 0..MaxLines]
      BY <2>2, <3>1
    <3>3. straddled' \subseteq Lines
      BY <2>2, <3>1 DEF Lines
    <3> QED
      BY <1>3, <3>2, <3>3 DEF Append
  <2> QED
    BY <1>3, <2>1, <2>2 DEF Append
<1>4. CASE PrepareLoad
  BY <1>4 DEF PrepareLoad
<1>5. CASE InitializeAtEnd
  <2>1. target' \in Cursors
    BY <1>5, ReadTypes DEF InitializeAtEnd
  <2> QED
    BY <1>5, <2>1 DEF InitializeAtEnd
<1>6. CASE ReadFrom
  <2>1. target' \in Cursors
    BY <1>6, ReadTypes DEF ReadFrom
  <2>2. text' \subseteq Lines
    BY <1>6 DEF ReadFrom, Written
  <2> QED
    BY <1>6, <2>1, <2>2 DEF ReadFrom
<1>7. ASSUME Fault
      PROVE  faults' \in 0..MaxFaults
  BY <1>7, StreamAssumption DEF Fault
<1>8. ASSUME EndRequest
      PROVE  /\ phase' = "idle" /\ text' \subseteq Lines /\ today' \in Days /\ jumps' \in BOOLEAN
             /\ target' \in Cursors /\ loaded' \in Cursors
  BY <1>8, ZeroType DEF EndRequest
<1>9. ASSUME Ship
      PROVE  shipped' \subseteq Lines /\ twice' \subseteq Lines
  BY <1>9 DEF Ship
<1>10. CASE PrepareFails \/ PublishFails \/ CommitFails
  BY <1>7, <1>8, <1>9, <1>10 DEF PrepareFails, PublishFails, CommitFails
<1>11. CASE Publish
  BY <1>9, <1>11 DEF Publish
<1>12. CASE Commit
  <2>1. excused' \subseteq Lines
    BY <1>12 DEF Commit, Behind
  <2> QED
    BY <1>8, <1>12, <2>1 DEF Commit
<1>13. CASE PersistLoad \/ PersistSave
  BY <1>7, <1>13 DEF PersistLoad, PersistSave
<1>14. CASE Restart \/ Crash
  BY <1>7, <1>8, <1>14, ZeroType DEF Restart, Crash, NewProcess
<1>15. CASE UNCHANGED vars
  BY <1>15 DEF vars
<1> QED
  BY <1>1, <1>2, <1>3, <1>4, <1>5, <1>6, <1>10, <1>11, <1>12, <1>13, <1>14, <1>15
     DEF Next, Stream

-----------------------------------------------------------------------------
\* What the clock and the sink do to a cursor that stays: it stays within what is
\* written, and a line that appears behind it has straddled a midnight.
LEMMA LogGrows ==
  ASSUME TypeOK, SinkInv, Midnight \/ Stamp \/ Append
  PROVE  /\ \A c \in Cursors : Within(c) =>
              /\ c.date # NoDay => c.date <= day' /\ c.pos <= size'[c.date]
              /\ Written' \cap Behind(c) \subseteq Written \cup straddled'
         /\ straddled \subseteq straddled' /\ day <= day'
         /\ UNCHANGED <<requestVars, brokerVars, stopVars, cursor, excused, faults>>
<1>1. CASE Midnight
  BY <1>1, Types DEF Midnight, Within, Written, Cursors, Days
<1>2. CASE Stamp
  BY <1>2, Types DEF Stamp, Within, Written
<1>3. CASE Append /\ UNCHANGED <<size, straddled>>
  BY <1>3, Types DEF Append, Within, Written
<1>4. CASE Append /\ size' = [size EXCEPT ![stamped] = @ + 1]
           /\ straddled' = IF stamped < day
                           THEN straddled \cup {<<stamped, size[stamped] + 1>>}
                           ELSE straddled
  <2>1. /\ stamped \in Days /\ stamped <= day /\ day \in Days
        /\ size \in [Days -> 0..MaxLines]
        /\ day' = day
    BY <1>4 DEF Append, SinkInv, TypeOK
  <2>2. /\ \A d \in Days : size'[d] = IF d = stamped THEN size[d] + 1 ELSE size[d]
        /\ \A d \in Days : size[d] \in Nat
    BY <1>4, <2>1
  <2>3. ASSUME NEW c \in Cursors, Within(c)
        PROVE  c.date # NoDay => c.date <= day' /\ c.pos <= size'[c.date]
    BY <2>1, <2>2, <2>3 DEF Within, Cursors
  <2>4. ASSUME NEW c \in Cursors, Within(c), NEW l \in Written' \cap Behind(c)
        PROVE  l \in Written \cup straddled'
    <3>1. /\ l \in Lines /\ l[1] \in Days /\ l[2] \in 1..MaxLines /\ l = <<l[1], l[2]>>
          /\ l[2] <= size'[l[1]]
      BY DEF Written, Lines
    <3>2. CASE l[1] # stamped
      BY <2>2, <3>1, <3>2 DEF Written
    <3>3. CASE l[1] = stamped /\ l[2] <= size[stamped]
      BY <3>1, <3>3 DEF Written
    <3>4. CASE l[1] = stamped /\ l[2] > size[stamped]
      <4>1. l[2] = size[stamped] + 1
        BY <2>1, <2>2, <3>1, <3>4
      <4>2. c.date # NoDay /\ (stamped < c.date \/ (stamped = c.date /\ l[2] <= c.pos))
        BY <3>4 DEF Behind
      <4>3. c.date \in Days /\ c.pos \in Nat
        BY <4>2 DEF Cursors
      <4>4. stamped < day
        BY <2>1, <2>2, <2>4, <4>1, <4>2, <4>3 DEF Within, Days
      <4> QED
        BY <1>4, <3>1, <3>4, <4>1, <4>4
    <3> QED
      BY <2>1, <2>2, <3>1, <3>2, <3>3, <3>4
  <2> QED
    BY <1>4, <2>1, <2>3, <2>4 DEF Append, Days
<1> QED
  BY <1>1, <1>2, <1>3, <1>4 DEF Append

\* Between what a request loads and what it will commit lies its text: readFrom
\* takes the rest of one day, and the cursor passes nothing else.
LEMMA ReadCovers ==
  ASSUME TypeOK, CursorInv, RequestInv, ReadFrom
  PROVE  /\ target'.date # NoDay => target'.date <= day /\ target'.pos <= size[target'.date]
         /\ Behind(loaded) \subseteq Behind(target')
         /\ text' \subseteq Behind(target') \ Behind(loaded)
         /\ NotBefore(target', loaded)
         /\ Written \cap Behind(target') \subseteq Behind(loaded) \cup text'
<1>1. /\ size \in [Days -> 0..MaxLines] /\ today \in Days /\ day \in Days /\ loaded \in Cursors
      /\ loaded.date \in Days /\ today <= day /\ loaded.date <= today
      /\ loaded.pos \in 0..MaxLines /\ loaded.pos <= size[loaded.date]
  BY ReadTypes, StreamAssumption
     DEF TypeOK, ReadFrom, StartsOver, CursorInv, RequestInv, Within, Cursors, Days
<1>2. loaded.date # NoDay /\ today # NoDay
  BY <1>1, StreamAssumption DEF Days
<1>3. text' = {l \in Written : l[1] = loaded.date /\ l[2] > loaded.pos}
  BY DEF ReadFrom
<1>4. ~(loaded.date + 1 < today)
  BY <1>1 DEF ReadFrom, StartsOver
<1>5. CASE loaded.date + 1 = today
  <2>1. target'.date = today /\ target'.pos = 0
    BY <1>5 DEF ReadFrom
  <2>2. \A l \in Lines : l[1] \in Nat /\ l[2] \in Nat /\ l[2] > 0
    BY DEF Lines, Days
  <2>3. \A l : l \in Behind(target') <=> l \in Lines /\ l[1] < today
    BY <1>2, <2>1, <2>2, <1>1 DEF Behind, Days
  <2>4. \A l : l \in Behind(loaded) <=>
          l \in Lines /\ (l[1] < loaded.date \/ (l[1] = loaded.date /\ l[2] <= loaded.pos))
    BY <1>2 DEF Behind
  <2>5. loaded.date \in Nat /\ today \in Nat /\ loaded.pos \in Nat
    BY <1>1 DEF Days
  <2>6. Behind(loaded) \subseteq Behind(target')
    BY <1>5, <2>2, <2>3, <2>4, <2>5
  <2>7. text' \subseteq Behind(target') \ Behind(loaded)
    BY <1>3, <1>5, <2>2, <2>3, <2>4, <2>5 DEF Written
  <2>8. Written \cap Behind(target') \subseteq Behind(loaded) \cup text'
    BY <1>3, <1>5, <2>2, <2>3, <2>4, <2>5 DEF Written
  <2>9. NotBefore(target', loaded)
    BY <1>2, <1>5, <2>1, <2>5 DEF NotBefore
  <2>10. today <= day /\ 0 <= size[today]
    BY <1>1
  <2> QED
    BY <2>1, <2>6, <2>7, <2>8, <2>9, <2>10
<1>6. CASE loaded.date = today
  <2>1. target'.date = today /\ target'.pos = size[today]
    BY <1>1, <1>6 DEF ReadFrom, Cursors, Days
  <2>2. \A l \in Lines : l[1] \in Nat /\ l[2] \in Nat /\ l[2] > 0
    BY DEF Lines, Days
  <2> QED
    BY <1>1, <1>2, <1>3, <1>6, <2>1, <2>2, StreamAssumption
       DEF Behind, Written, NotBefore, Days
<1> QED
  BY <1>1, <1>4, <1>5, <1>6 DEF Days

\* A fresh start goes to the end of today's file, past every older cursor.
LEMMA JumpPasses ==
  ASSUME TypeOK, CursorInv, RequestInv, InitializeAtEnd
  PROVE  /\ target'.date # NoDay => target'.date <= day /\ target'.pos <= size[target'.date]
         /\ Behind(loaded) \subseteq Behind(target')
         /\ text' = {}
         /\ NotBefore(target', loaded)
<1>1. /\ size \in [Days -> 0..MaxLines] /\ today \in Days /\ day \in Days /\ loaded \in Cursors
      /\ today <= day
  BY DEF TypeOK, RequestInv
<1>2. target'.date = today /\ target'.pos = size[today] /\ today # NoDay /\ text' = {}
  BY <1>1, StreamAssumption DEF InitializeAtEnd, Days
<1>3. CASE loaded.date = NoDay
  BY <1>1, <1>2, <1>3 DEF Behind, NotBefore
<1>4. CASE loaded.date \in Days /\ loaded.date + 1 < today
  BY <1>1, <1>2, <1>4 DEF Behind, NotBefore, Lines, Days
<1> QED
  BY <1>3, <1>4 DEF InitializeAtEnd, StartsOver

-----------------------------------------------------------------------------
Basic == TypeOK /\ SinkInv /\ CursorInv /\ RequestInv

\* The sink has room for the line it has stamped, since it stamps one at a time.
LEMMA SinkStep == TypeOK /\ SinkInv /\ [Next]_vars => SinkInv'
<1> SUFFICES ASSUME TypeOK, SinkInv, [Next]_vars
             PROVE  SinkInv'
  OBVIOUS
<1>1. CASE Midnight
  BY <1>1 DEF Midnight, SinkInv, TypeOK, Days
<1>2. CASE Stamp
  BY <1>2 DEF Stamp, SinkInv, TypeOK, Days
<1>3. CASE Append
  BY <1>3 DEF Append, SinkInv
<1>4. CASE Restart \/ Crash
  BY <1>4 DEF Restart, Crash, NewProcess, SinkInv
<1>5. CASE UNCHANGED logVars
  BY <1>5 DEF logVars, SinkInv
<1> QED
  BY <1>1, <1>2, <1>3, <1>4, <1>5
     DEF Next, Stream, PrepareLoad, InitializeAtEnd, ReadFrom, PrepareFails, Publish,
         PublishFails, Commit, CommitFails, PersistLoad, PersistSave, vars

\* A request that ends is back at the start cursor.
LEMMA EndedRequest ==
  ASSUME EndRequest
  PROVE  /\ phase' = "idle" /\ today' = 0
         /\ target' = ZeroCursor /\ loaded' = ZeroCursor
BY DEF EndRequest

\* Steps that leave the log alone keep Within and can only add to what is accounted.
LEMMA StreamKeeps ==
  ASSUME [Next]_vars, UNCHANGED <<day, size>>
  PROVE  /\ \A c : Within(c) => (c.date # NoDay => c.date <= day' /\ c.pos <= size'[c.date])
         /\ Written' = Written
         /\ Accounted \subseteq Accounted'
<1>1. Written' = Written
  BY DEF Written
<1>2. shipped \subseteq shipped'
  BY DEF Next, Midnight, Stamp, Append, Stream, PrepareLoad, InitializeAtEnd, ReadFrom,
         PrepareFails, Publish, PublishFails, Ship, Commit, CommitFails, PersistLoad, PersistSave,
         Restart, Crash, NewProcess, vars, brokerVars
<1>3. excused \subseteq excused'
  BY DEF Next, Midnight, Stamp, Append, Stream, PrepareLoad, InitializeAtEnd, ReadFrom,
         PrepareFails, Publish, PublishFails, Commit, CommitFails, PersistLoad, PersistSave,
         Restart, Crash, NewProcess, vars
<1>4. straddled \subseteq straddled'
  BY DEF Next, Midnight, Stamp, Append, Stream, PrepareLoad, InitializeAtEnd, ReadFrom,
         PrepareFails, Publish, PublishFails, Commit, CommitFails, PersistLoad, PersistSave,
         Restart, Crash, NewProcess, vars, logVars
<1> QED
  BY <1>1, <1>2, <1>3, <1>4 DEF Within, Accounted

\* A commit accounts for everything that is behind the committed cursor.
LEMMA CommitSafe ==
  ASSUME Basic, Commit
  PROVE  Written \cap Behind(target) \subseteq Accounted'
<1>1. CASE jumps
  BY <1>1 DEF Commit, Accounted
<1>2. CASE ~jumps
  <2>1. phase = "published" /\ text \subseteq shipped
    BY DEF Commit, Basic, RequestInv
  <2>2. Written \cap Behind(target) \subseteq Accounted
    BY <1>2, <2>1 DEF Basic, RequestInv, Prepared, Accounted
  <2> QED
    BY <1>2, <2>2 DEF Commit, Accounted, logVars, brokerVars
<1> QED
  BY <1>1, <1>2

\* The cursors stay within what is written, and what is behind them accounted for.
LEMMA CursorStep == Basic /\ [Next]_vars => CursorInv'
<1> SUFFICES ASSUME Basic, [Next]_vars
             PROVE  CursorInv'
  OBVIOUS
<1>1. /\ cursor \in Cursors /\ loaded \in Cursors /\ target \in Cursors /\ snapshot \in Cursors
      /\ TypeOK /\ SinkInv /\ CursorInv /\ RequestInv
  BY Types DEF Basic
<1>2. CASE Midnight \/ Stamp \/ Append
  <2>1. UNCHANGED <<cursor, loaded, target, snapshot, shipped, excused>>
    BY <1>1, <1>2, LogGrows DEF requestVars, brokerVars, stopVars
  <2>2. Within(cursor)' /\ Within(loaded)' /\ Within(target)' /\ Within(snapshot)'
    BY <1>1, <1>2, <2>1, LogGrows DEF CursorInv, Within
  <2>3. ASSUME NEW c \in Cursors, Within(c), Safe(c)
        PROVE  Written' \cap Behind(c) \subseteq Accounted'
    BY <1>1, <1>2, <2>1, <2>3, LogGrows DEF Safe, Accounted
  <2>4. Safe(cursor)' /\ Safe(loaded)' /\ Safe(snapshot)'
    BY <1>1, <2>1, <2>3 DEF CursorInv, Safe
  <2> QED
    BY <2>2, <2>4 DEF CursorInv
<1>3. ASSUME UNCHANGED <<day, size>>,
             NEW c, Within(c)
      PROVE  c.date # NoDay => c.date <= day' /\ c.pos <= size'[c.date]
  BY <1>3, StreamKeeps
<1>4. ASSUME UNCHANGED <<day, size>>, NEW c, Safe(c)
      PROVE  Written' \cap Behind(c) \subseteq Accounted'
  BY <1>4, StreamKeeps DEF Safe
<1>5. Within(ZeroCursor) /\ Safe(ZeroCursor)
  BY ZeroType DEF Within, Safe, ZeroCursor
<1>6. ASSUME UNCHANGED <<day, size>>,
             cursor' \in {cursor, snapshot}, loaded' \in {loaded, cursor, ZeroCursor},
             target' \in {target, ZeroCursor}, snapshot' \in {snapshot, cursor, ZeroCursor}
      PROVE  CursorInv'
  <2>1. Within(cursor)' /\ Within(loaded)' /\ Within(target)' /\ Within(snapshot)'
    BY <1>1, <1>3, <1>5, <1>6 DEF CursorInv, Within
  <2>2. Safe(cursor)' /\ Safe(loaded)' /\ Safe(snapshot)'
    BY <1>1, <1>4, <1>5, <1>6 DEF CursorInv, Safe
  <2> QED
    BY <2>1, <2>2 DEF CursorInv
<1>7. CASE InitializeAtEnd \/ ReadFrom
  <2>1. UNCHANGED <<day, size, cursor, loaded, snapshot>>
    BY <1>7 DEF InitializeAtEnd, ReadFrom, logVars, stopVars
  <2>2. Within(target)'
    BY <1>1, <1>7, <2>1, ReadCovers, JumpPasses DEF Within
  <2>3. Within(cursor)' /\ Within(loaded)' /\ Within(snapshot)'
    BY <1>1, <1>3, <2>1 DEF CursorInv, Within
  <2>4. Safe(cursor)' /\ Safe(loaded)' /\ Safe(snapshot)'
    BY <1>1, <1>4, <2>1 DEF CursorInv, Safe
  <2> QED
    BY <2>2, <2>3, <2>4 DEF CursorInv
<1>8. CASE Commit
  <2>1. /\ UNCHANGED <<day, size, snapshot>> /\ cursor' = target
        /\ loaded' = ZeroCursor /\ target' = ZeroCursor
    BY <1>8, EndedRequest DEF Commit, logVars, stopVars
  <2>2. Within(cursor)' /\ Within(loaded)' /\ Within(target)' /\ Within(snapshot)'
    BY <1>1, <1>3, <1>5, <2>1 DEF CursorInv, Within
  <2>3. Safe(cursor)'
    <3>1. Written' = Written
      BY <2>1, StreamKeeps
    <3> QED
      BY <1>8, <2>1, <3>1, CommitSafe DEF Safe
  <2>4. Safe(loaded)' /\ Safe(snapshot)'
    BY <1>1, <1>4, <1>5, <2>1 DEF CursorInv, Safe
  <2> QED
    BY <2>2, <2>3, <2>4 DEF CursorInv
<1>9. CASE PrepareLoad \/ PrepareFails \/ Publish \/ PublishFails \/ CommitFails
  BY <1>6, <1>9, EndedRequest
     DEF PrepareLoad, PrepareFails, Publish, PublishFails, CommitFails, logVars, stopVars
<1>10. CASE PersistLoad \/ PersistSave \/ Restart \/ Crash \/ UNCHANGED vars
  BY <1>6, <1>10, EndedRequest
     DEF PersistLoad, PersistSave, Restart, Crash, NewProcess, vars, logVars, requestVars, stopVars
<1> QED
  BY <1>2, <1>7, <1>8, <1>9, <1>10 DEF Next, Stream

\* What a request has read and will commit stays fitting, whatever the sink does.
LEMMA RequestStep == Basic /\ [Next]_vars => RequestInv'
<1> SUFFICES ASSUME Basic, [Next]_vars
             PROVE  RequestInv'
  OBVIOUS
<1>1. /\ cursor \in Cursors /\ loaded \in Cursors /\ target \in Cursors
      /\ TypeOK /\ SinkInv /\ CursorInv /\ RequestInv /\ day \in Nat
  BY Types DEF Basic
<1>2. CASE Midnight \/ Stamp \/ Append
  <2>1. UNCHANGED <<phase, today, loaded, text, target, jumps, shipped, excused>>
    BY <1>1, <1>2, LogGrows DEF requestVars, brokerVars
  <2>2. today' <= day' /\ day \in Nat /\ day' \in Nat
    BY <1>1, <1>2, <2>1 DEF RequestInv, TypeOK, Days, Midnight, Stamp, Append
  <2>3. Within(target)
    BY <1>1 DEF CursorInv
  <2>4. Written' \cap Behind(target) \subseteq Written \cup straddled'
    BY <1>1, <1>2, <2>3, LogGrows
  <2>5. straddled \subseteq straddled'
    BY <1>1, <1>2, LogGrows
  <2>6. Prepared /\ ~jumps => Written' \cap Behind(target) \subseteq Accounted' \cup text
    BY <1>1, <2>1, <2>4, <2>5 DEF RequestInv, Accounted
  <2> QED
    BY <1>1, <2>1, <2>2, <2>6 DEF RequestInv, Prepared
<1>3. ASSUME EndRequest, UNCHANGED day
      PROVE  RequestInv'
  BY <1>1, <1>3, EndedRequest DEF RequestInv, Prepared
<1>4. CASE PrepareLoad
  <2>1. phase' = "loaded" /\ today' = day /\ day' = day /\ loaded' = cursor
    BY <1>4 DEF PrepareLoad, logVars
  <2>2. cursor.date # NoDay => cursor.date <= day
    BY <1>1 DEF CursorInv, Within
  <2> QED
    BY <1>1, <2>1, <2>2 DEF RequestInv, Prepared
<1>5. CASE InitializeAtEnd
  <2>1. phase' = "prepared" /\ phase = "loaded" /\ jumps' /\ UNCHANGED <<today, loaded, day>>
    BY <1>5 DEF InitializeAtEnd, logVars
  <2> QED
    BY <1>1, <1>5, <2>1, JumpPasses DEF RequestInv, Prepared
<1>6. CASE ReadFrom
  <2>1. /\ phase' = "prepared" /\ phase = "loaded"
        /\ UNCHANGED <<today, loaded, day, size, shipped, excused, straddled>>
    BY <1>6 DEF ReadFrom, logVars, brokerVars
  <2>2. Written \cap Behind(loaded) \subseteq Accounted
    BY <1>1 DEF CursorInv, Safe
  <2>3. Written' = Written /\ Accounted' = Accounted
    BY <2>1 DEF Written, Accounted
  <2>4. Written' \cap Behind(target') \subseteq Accounted' \cup text'
    BY <1>1, <1>6, <2>2, <2>3, ReadCovers
  <2> QED
    BY <1>1, <1>6, <2>1, <2>4, ReadCovers DEF RequestInv, Prepared
<1>7. CASE Publish
  <2>1. /\ phase = "prepared" /\ phase' = "published" /\ shipped' = shipped \cup text
        /\ UNCHANGED <<today, loaded, text, target, jumps, day, size, excused, straddled>>
    BY <1>7 DEF Publish, Ship, logVars
  <2>2. Written' = Written /\ Accounted \subseteq Accounted'
    BY <2>1 DEF Written, Accounted
  <2> QED
    BY <1>1, <2>1, <2>2 DEF RequestInv, Prepared
<1>8. CASE PrepareFails \/ PublishFails \/ Commit \/ CommitFails \/ Restart \/ Crash
  BY <1>3, <1>8
     DEF PrepareFails, PublishFails, Commit, CommitFails, Restart, Crash, NewProcess, logVars
<1>9. CASE PersistLoad \/ PersistSave \/ UNCHANGED vars
  <2>1. UNCHANGED <<day, size, phase, today, loaded, text, target, jumps, shipped, excused, straddled>>
    BY <1>9 DEF PersistLoad, PersistSave, vars, logVars, requestVars, brokerVars
  <2> QED
    BY <1>1, <2>1 DEF RequestInv, Prepared, Written, Accounted
<1> QED
  BY <1>2, <1>4, <1>5, <1>6, <1>7, <1>8, <1>9 DEF Next, Stream

\* Who has loaded the cursor has the current one, unless the grace expired.
LEMMA PromptStep == PromptInv /\ [Next]_vars => PromptInv'
<1> SUFFICES ASSUME PromptInv, [Next]_vars
             PROVE  PromptInv'
  OBVIOUS
<1> USE DEF PromptInv, logVars, requestVars, brokerVars, stopVars
<1>1. CASE Midnight \/ Stamp \/ Append \/ UNCHANGED vars
  BY <1>1 DEF Midnight, Stamp, Append, vars
<1>2. CASE PrepareLoad \/ InitializeAtEnd \/ ReadFrom \/ Publish
  BY <1>2 DEF PrepareLoad, InitializeAtEnd, ReadFrom, Publish
<1>3. CASE PrepareFails \/ PublishFails \/ CommitFails
  BY <1>3 DEF PrepareFails, PublishFails, CommitFails, EndRequest
<1>4. CASE Commit
  BY <1>4 DEF Commit, EndRequest
<1>5. CASE PersistLoad \/ PersistSave
  BY <1>5 DEF PersistLoad, PersistSave
<1>6. CASE Restart \/ Crash
  BY <1>6 DEF Restart, Crash, NewProcess, EndRequest
<1> QED
  BY <1>1, <1>2, <1>3, <1>4, <1>5, <1>6 DEF Next, Stream

\* Without faults nothing is sent that is behind the cursor.
LEMMA OnceStep == Basic /\ PromptInv /\ OnceInv /\ [Next]_vars => OnceInv'
<1> SUFFICES ASSUME Basic, PromptInv, OnceInv, [Next]_vars
             PROVE  OnceInv'
  OBVIOUS
<1>1. faults \in Nat /\ RequestInv
  BY Types DEF Basic
<1> USE DEF logVars, requestVars, brokerVars, stopVars
<1>2. CASE Fault
  BY <1>1, <1>2 DEF Fault, OnceInv
<1>3. CASE UNCHANGED <<faults, late, twice, shipped, cursor>> /\ phase # "published"
  BY <1>3 DEF OnceInv
<1>4. CASE UNCHANGED <<faults, late, twice, shipped, cursor, phase, text>>
  BY <1>4 DEF OnceInv
<1>5. CASE Publish
  <2>1. /\ phase = "prepared" /\ phase' = "published"
        /\ shipped' = shipped \cup text /\ twice' = twice \cup (text \cap shipped)
        /\ UNCHANGED <<faults, late, cursor, text>>
    BY <1>5 DEF Publish, Ship
  <2>2. faults = 0 => shipped \subseteq Behind(cursor) /\ loaded = cursor
    BY <1>1, <2>1 DEF OnceInv, PromptInv
  <2>3. text \cap Behind(loaded) = {}
    BY <1>1, <2>1 DEF RequestInv, Prepared
  <2> QED
    BY <2>1, <2>2, <2>3 DEF OnceInv
<1>6. CASE Commit
  <2>1. /\ phase = "published" /\ phase' = "idle" /\ cursor' = target
        /\ UNCHANGED <<faults, late, shipped, twice>>
    BY <1>6, EndedRequest DEF Commit
  <2>2. faults = 0 => shipped \subseteq Behind(loaded) \cup text
    BY <1>1, <2>1 DEF OnceInv, PromptInv
  <2>3. Behind(loaded) \cup text \subseteq Behind(target)
    BY <1>1, <2>1 DEF RequestInv, Prepared
  <2> QED
    BY <2>1, <2>2, <2>3 DEF OnceInv
<1>7. CASE PersistSave
  <2>1. supervisor = "persist" /\ cursor' \in {cursor, snapshot}
        /\ UNCHANGED <<faults, late, shipped, twice, phase, text>>
    BY <1>7 DEF PersistSave
  <2>2. faults = 0 => snapshot = cursor
    BY <1>1, <2>1 DEF OnceInv, PromptInv
  <2> QED
    BY <2>1, <2>2 DEF OnceInv
<1>8. CASE Restart
  <2>1. supervisor = "exited" /\ phase' = "idle" /\ UNCHANGED <<faults, late, shipped, twice, cursor>>
    BY <1>8, EndedRequest DEF Restart, NewProcess
  <2>2. faults = 0 => phase = "idle"
    BY <1>1, <2>1 DEF OnceInv, PromptInv
  <2> QED
    BY <2>1, <2>2 DEF OnceInv
<1> QED
  BY <1>2, <1>3, <1>4, <1>5, <1>6, <1>7, <1>8
     DEF Next, Stream, Midnight, Stamp, Append, PrepareLoad, InitializeAtEnd, ReadFrom,
         PrepareFails, PublishFails, CommitFails, PersistLoad, Crash, vars

-----------------------------------------------------------------------------
\* The inductive invariant.
LEMMA Invariance == Spec => []IInv
<1>1. Init => IInv
  <2> SUFFICES ASSUME Init
               PROVE  IInv
    OBVIOUS
  <2>1. TypeOK
    <3>1. size \in [Days -> 0..MaxLines] /\ 0 \in 0..MaxFaults
      BY StreamAssumption DEF Init
    <3>2. {cursor, loaded, target, snapshot} \subseteq Cursors
      BY ZeroType DEF Init
    <3> QED
      BY <3>1, <3>2, ZeroType DEF Init, TypeOK
  <2>2. SinkInv /\ PromptInv
    BY DEF Init, SinkInv, PromptInv
  <2>3. CursorInv
    BY ZeroType DEF Init, CursorInv, Within, Safe, ZeroCursor
  <2>4. RequestInv /\ OnceInv
    BY ZeroType DEF Init, RequestInv, Prepared, OnceInv
  <2> QED
    BY <2>1, <2>2, <2>3, <2>4 DEF IInv
<1>2. IInv /\ [Next]_vars => IInv'
  BY TypeStep, SinkStep, CursorStep, RequestStep, PromptStep, OnceStep DEF IInv, Basic
<1> QED
  BY <1>1, <1>2, PTL DEF Spec

\* For any number of days, lines, crashes and failed calls, the durable cursor
\* passes no line that was neither sent nor skipped on purpose nor written to its
\* file after midnight.
THEOREM NothingSkipped == Spec => []NoLineSkipped
<1>1. IInv => NoLineSkipped
  BY DEF IInv, CursorInv, Safe, Accounted, NoLineSkipped
<1> QED
  BY <1>1, Invariance, PTL

\* Without faults no line is sent twice, over any number of days and restarts.
THEOREM SentOnce == Spec => []NoTextDuplicated
<1>1. IInv => NoTextDuplicated
  BY DEF IInv, OnceInv, NoTextDuplicated
<1> QED
  BY <1>1, Invariance, PTL

\* The cursor moves backwards only if a request outlives the shutdown grace,
\* whatever else fails.
THEOREM CursorForward == Spec => CursorAdvances
<1>1. IInv /\ [Next]_vars => [~late => NotBefore(cursor', cursor)]_vars
  <2> SUFFICES ASSUME IInv, Next, ~late
               PROVE  NotBefore(cursor', cursor)
    OBVIOUS
  <2>1. cursor \in Cursors
    BY Types DEF IInv
  <2>2. NotBefore(cursor, cursor)
    BY <2>1 DEF NotBefore, Cursors, Days
  <2>3. CASE Commit
    BY <2>3 DEF Commit, IInv, RequestInv, Prepared, PromptInv
  <2>4. CASE PersistSave
    BY <2>2, <2>4 DEF PersistSave, IInv, PromptInv
  <2>5. CASE UNCHANGED cursor
    BY <2>2, <2>5
  <2> QED
    BY <2>3, <2>4, <2>5
       DEF Next, Stream, Midnight, Stamp, Append, PrepareLoad, InitializeAtEnd, ReadFrom,
           PrepareFails, Publish, PublishFails, CommitFails, PersistLoad, Restart, Crash,
           NewProcess
<1> QED
  BY <1>1, Invariance, PTL DEF Spec, CursorAdvances
=============================================================================
