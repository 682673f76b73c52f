------------------------------ MODULE Discovery ------------------------------
(***************************************************************************)
(* The discover command: a UDP broadcast, a UDP unicast to every host of a *)
(* subnet, a TCP scan of that subnet by a pool of goroutines, and the      *)
(* merge of what they report into one table.  An address is its offset in  *)
(* the subnet plus one and a dongle is its address and serial number, 0    *)
(* standing for a missing one; MAC, protocol and raw text only decorate a  *)
(* row.  The channels of the scan are unbuffered, so a send and a receive  *)
(* are one step.                                                           *)
(***************************************************************************)
EXTENDS Naturals, SequencesExt

CONSTANTS
  MaxHostBits,  \* bound: host bits of the scanned subnet
  Scanners,     \* goroutines a scan may have
  Serials,      \* logger serial numbers
  MaxReplies    \* bound: UDP datagrams received

VARIABLES
  ctx,        \* the command's context is cancelled
  returned,   \* what RunE returned
  broadcast,  \* --broadcast
  subnet,     \* --subnet is given
  hostBits,   \* 32 minus the prefix length of --subnet
  reachable,  \* addresses that accept a TCP connection
  phase,      \* the discovery under way
  opened,     \* its socket is open, or its goroutines run
  dongles,    \* what it has collected
  next,       \* the feeder's offset
  jobs,       \* the jobs channel is open
  scanner,    \* each goroutine of the pool
  found,      \* the merged table
  reported,   \* history: every dongle that answered a discovery
  malformed,  \* history: a reply had no address or no serial number
  replies     \* datagrams so far

flags == <<broadcast, subnet, hostBits, reachable>>
pool  == <<next, jobs, scanner>>
table == <<found, reported, malformed>>
discoveryVars == <<ctx, returned, flags, phase, opened, dongles, pool, table, replies>>

\* addressCount: one shifted left by the host bits.
AddressCount[bits \in Nat] == IF bits = 0 THEN 1 ELSE 2 * AddressCount[bits - 1]

Addresses == 0..AddressCount[MaxHostBits]
Dongles == [ip : Addresses, serial : {0} \cup Serials]
NoDongle == [ip |-> 0, serial |-> 0]

UDP == {"broadcast", "unicast"}

TypeOK ==
  /\ broadcast \in BOOLEAN /\ subnet \in BOOLEAN
  /\ hostBits \in 0..MaxHostBits
  /\ reachable \subseteq Addresses
  /\ phase \in UDP \cup {"scan", "print", "end"}
  /\ opened \in BOOLEAN /\ jobs \in BOOLEAN /\ malformed \in BOOLEAN
  /\ dongles \in Seq(Dongles) /\ found \in Seq(Dongles)
  /\ next \in 0..AddressCount[hostBits]
  /\ scanner \in [Scanners ->
       [at : {"idle", "probe", "send", "done"}, dongle : Dongles]]
  /\ reported \subseteq Dongles
  /\ replies \in 0..MaxReplies

-----------------------------------------------------------------------------
(* Addresses of the subnet.                                                *)

\* forEachUsableIPv4 skips the network and the broadcast address if there are any.
FirstOffset == IF hostBits >= 2 THEN 1 ELSE 0

\* Faulty variant: the loop includes its end.
EndOffsetIncluded == AddressCount[hostBits] + 1 - FirstOffset

EndOffset == AddressCount[hostBits] - FirstOffset

\* The addresses a host can have in the subnet, however they are enumerated.
Usable ==
  LET all == 1..AddressCount[hostBits]
  IN  IF Cardinality(all) <= 2 THEN all
      ELSE {a \in all : (\E b \in all : b < a) /\ (\E b \in all : b > a)}

(* The table.                                                              *)

\* Faulty variant: only the address identifies a dongle.
SameByAddress(row, d) == d.ip # 0 /\ row.ip = d.ip

Same(row, d) == \/ d.serial # 0 /\ row.serial = d.serial
                \/ d.ip # 0 /\ row.ip = d.ip

\* A row takes over only what it does not have yet.
Fill(row, d) == [ip     |-> IF row.ip = 0 THEN d.ip ELSE row.ip,
                 serial |-> IF row.serial = 0 THEN d.serial ELSE row.serial]

\* mergeDongles: the first row that is the same dongle, or a new row.
MergeDongle(rows, d) ==
  LET same == {i \in DOMAIN rows : Same(rows[i], d)}
  IN  IF same = {} THEN Append(rows, d)
      ELSE LET i == Min(same) IN [rows EXCEPT ![i] = Fill(rows[i], d)]

\* merged[n]: the rows after the first n dongles.
MergeDongles(rows, more) ==
  LET merged[n \in 0..Len(more)] ==
        IF n = 0 THEN rows ELSE MergeDongle(merged[n - 1], more[n])
  IN  merged[Len(more)]

\* sortDongles: by address, rows without one last, then by serial number.
Before(a, b) ==
  \/ a.ip # 0 /\ (b.ip = 0 \/ a.ip < b.ip)
  \/ a.ip = b.ip /\ a.serial < b.serial

SortDongles(rows) ==
  LET order == CHOOSE p \in Bijection(DOMAIN rows, DOMAIN rows) :
                 \A i, j \in DOMAIN rows : i < j => ~Before(rows[p[j]], rows[p[i]])
  IN  [i \in DOMAIN rows |-> rows[order[i]]]

-----------------------------------------------------------------------------
Init ==
  /\ broadcast \in BOOLEAN
  /\ subnet \in BOOLEAN
  /\ hostBits \in IF subnet THEN 0..MaxHostBits ELSE {0}
  /\ reachable \in IF subnet THEN SUBSET (1..AddressCount[hostBits]) ELSE {{}}
  /\ phase = IF broadcast THEN "broadcast" ELSE "unicast"
  /\ opened = FALSE
  /\ dongles = <<>>
  /\ next = 0
  /\ jobs = FALSE
  /\ scanner = [w \in Scanners |-> [at |-> "done", dongle |-> NoDongle]]
  /\ found = <<>>
  /\ reported = {}
  /\ malformed = FALSE
  /\ replies = 0

\* RunE returns; what was found is only printed without an error.
Return(how) ==
  /\ returned' = how
  /\ phase' = "end"
  /\ opened' = FALSE
  /\ UNCHANGED <<ctx, flags, dongles, pool, table, replies>>

\* Neither --broadcast nor --subnet.
NothingToDo ==
  /\ phase = "unicast" /\ ~subnet
  /\ Return("error")

\* A discovery tests its context first.
EnterCancelled ==
  /\ phase \in UDP \cup {"scan"} /\ ~opened /\ ctx
  /\ phase = "unicast" => subnet
  /\ Return("cancelled")

\* An argument is refused, the socket cannot be bound or a send fails.
EnterFails ==
  /\ phase \in UDP \cup {"scan"} /\ ~opened /\ ~ctx
  /\ phase = "unicast" => subnet
  /\ Return("error")

\* A discovery ends without an error and its dongles are merged.
Finish(list) ==
  /\ found' = MergeDongles(found, list)
  /\ phase' = CASE phase = "broadcast" /\ subnet -> "unicast"
                [] phase = "unicast" -> "scan"
                [] OTHER -> "print"
  /\ opened' = FALSE
  /\ dongles' = list
  /\ UNCHANGED <<ctx, returned, flags, pool, reported, malformed, replies>>

\* sortDongles and the table or JSON on the standard output.
Output ==
  /\ phase = "print"
  /\ found' = SortDongles(found)
  /\ \E how \in {"ok", "error"} : returned' = how
  /\ phase' = "end"
  /\ UNCHANGED <<ctx, flags, opened, dongles, pool, reported, malformed, replies>>

-----------------------------------------------------------------------------
(* discoverUDP.                                                            *)

\* The socket is bound, its deadline set and every request sent.
Listen ==
  /\ phase \in UDP /\ ~opened /\ ~ctx
  /\ phase = "unicast" => subnet
  /\ opened' = TRUE
  /\ dongles' = <<>>
  /\ UNCHANGED <<ctx, returned, flags, phase, pool, table, replies>>

Datagrams == [echo : {FALSE}, dongle : Dongles]
               \cup [echo : {TRUE}, dongle : {NoDongle}]

\* Faulty variant: the own request, heard on the same port, is taken for a reply.
CollectEcho(datagram) == Append(dongles, datagram.dongle)

\* isDiscoveryEcho and parseDongle.
Collect(datagram) ==
  IF datagram.echo THEN dongles ELSE Append(dongles, datagram.dongle)

\* A datagram arrives before the deadline.
Receive(datagram) ==
  /\ phase \in UDP /\ opened /\ replies < MaxReplies
  /\ replies' = replies + 1
  /\ dongles' = Collect(datagram)
  /\ IF datagram.echo
     THEN UNCHANGED <<reported, malformed>>
     ELSE LET d == datagram.dongle
          IN  /\ reported' = reported \cup {d}
              /\ malformed' = (malformed \/ 0 \in {d.ip, d.serial})
  /\ UNCHANGED <<ctx, returned, flags, phase, opened, pool, found>>

\* The deadline passes or the cancellation brings it forward; a receive error
\* that is not a timeout ends the command.
ListenEnds ==
  /\ phase \in UDP /\ opened
  /\ \/ ctx /\ Return("cancelled")
     \/ ~ctx /\ Finish(dongles)
     \/ ~ctx /\ Return("error")

-----------------------------------------------------------------------------
(* scanSubnet.                                                             *)

\* The parameter concurrency is any positive number, here of Scanners.
StartScan ==
  /\ phase = "scan" /\ ~opened /\ ~ctx
  /\ opened' = TRUE
  /\ dongles' = <<>>
  /\ next' = FirstOffset
  /\ jobs' = TRUE
  /\ \E concurrent \in (SUBSET Scanners) \ {{}} :
       scanner' = [w \in Scanners |->
         [at |-> IF w \in concurrent THEN "idle" ELSE "done", dongle |-> NoDongle]]
  /\ UNCHANGED <<ctx, returned, flags, phase, table, replies>>

Scanning(w, at) == phase = "scan" /\ opened /\ scanner[w].at = at

\* The step of one goroutine of the pool.
Goes(w, at, d) ==
  /\ scanner' = [scanner EXCEPT ![w] = [at |-> at, dongle |-> d]]
  /\ UNCHANGED <<ctx, returned, flags, phase, opened, found, malformed, replies>>

\* The feeder hands the next address to a goroutine.
Feed(w) ==
  /\ Scanning(w, "idle")
  /\ jobs /\ next < EndOffset
  /\ next' = next + 1
  /\ Goes(w, "probe", [ip |-> next + 1, serial |-> 0])
  /\ UNCHANGED <<jobs, dongles, reported>>

\* The feeder is through, or chooses the cancellation.
CloseJobs ==
  /\ phase = "scan" /\ opened /\ jobs
  /\ next >= EndOffset \/ ctx
  /\ jobs' = FALSE
  /\ UNCHANGED <<ctx, returned, flags, phase, opened, dongles, next, scanner,
                 table, replies>>

\* Faulty variant: a goroutine ends at the first host that does not answer.
ProbeMissReturns(w) ==
  /\ Scanning(w, "probe")
  /\ scanner[w].dongle.ip \notin reachable \/ ctx
  /\ Goes(w, "done", NoDongle)
  /\ UNCHANGED <<next, jobs, dongles, reported>>

\* probeTCP: the connection fails or is cancelled.
ProbeMiss(w) ==
  /\ Scanning(w, "probe")
  /\ scanner[w].dongle.ip \notin reachable \/ ctx
  /\ Goes(w, "idle", NoDongle)
  /\ UNCHANGED <<next, jobs, dongles, reported>>

\* probeTCP: connected; a frame or the status page may tell the serial number.
ProbeHit(w) ==
  /\ Scanning(w, "probe")
  /\ scanner[w].dongle.ip \in reachable
  /\ \E s \in {0} \cup Serials :
       Goes(w, "send", [scanner[w].dongle EXCEPT !.serial = s])
  /\ UNCHANGED <<next, jobs, dongles, reported>>

\* The collector receives a result.
Deliver(w) ==
  /\ Scanning(w, "send")
  /\ dongles' = Append(dongles, scanner[w].dongle)
  /\ reported' = reported \cup {scanner[w].dongle}
  /\ Goes(w, "idle", NoDongle)
  /\ UNCHANGED <<next, jobs>>

\* The goroutine chooses the cancellation instead.
DropResult(w) ==
  /\ Scanning(w, "send") /\ ctx
  /\ Goes(w, "done", NoDongle)
  /\ UNCHANGED <<next, jobs, dongles, reported>>

\* The jobs channel is closed and empty.
Quit(w) ==
  /\ Scanning(w, "idle") /\ ~jobs
  /\ Goes(w, "done", NoDongle)
  /\ UNCHANGED <<next, jobs, dongles, reported>>

\* Faulty variant: the result is returned once every address is handed out.
ScanEndsEarly ==
  /\ phase = "scan" /\ opened /\ ~jobs
  /\ \/ ctx /\ Return("cancelled")
     \/ ~ctx /\ Finish(SortDongles(dongles))

\* Every goroutine is done, so the results channel is closed.
ScanEnds ==
  /\ phase = "scan" /\ opened
  /\ \A w \in Scanners : scanner[w].at = "done"
  /\ \/ ctx /\ Return("cancelled")
     \/ ~ctx /\ Finish(SortDongles(dongles))

Scan ==
  \/ StartScan \/ CloseJobs \/ ScanEnds
  \/ \E w \in Scanners : \/ Feed(w) \/ ProbeMiss(w) \/ ProbeHit(w)
                         \/ Deliver(w) \/ DropResult(w) \/ Quit(w)

Step ==
  \/ NothingToDo \/ EnterCancelled \/ EnterFails
  \/ Listen \/ ListenEnds \/ Scan \/ Output

Network == \E datagram \in Datagrams : Receive(datagram)

-----------------------------------------------------------------------------
(* Properties.                                                             *)

\* A scan that returns without an error has reported each reachable host of the
\* subnet exactly once and in the order of addresses, whichever goroutine probed
\* it and in whatever order the results came, and no address that is not a host's.
ScanComplete ==
  phase = "print" /\ subnet =>
    /\ {dongles[i].ip : i \in DOMAIN dongles} = reachable \cap Usable
    /\ \A i, j \in DOMAIN dongles : i < j => dongles[i].ip < dongles[j].ip

SameIp(a, b)     == a.ip # 0 /\ a.ip = b.ip
SameSerial(a, b) == a.serial # 0 /\ a.serial = b.serial
Stands(row, d)   == SameIp(row, d) \/ SameSerial(row, d) \/ row = d

\* The table has a row for every dongle that was reported and no row that nobody
\* reported, the own request heard as an echo included; and every dongle has one
\* row, by address and by serial number, if the replies to the UDP requests name
\* both.
TableFaithful ==
  phase = "print" =>
    /\ \A d \in reported : \E i \in DOMAIN found : Stands(found[i], d)
    /\ \A i \in DOMAIN found : \E d \in reported : Stands(found[i], d)
    /\ ~malformed =>
         \A i, j \in DOMAIN found :
           SameIp(found[i], found[j]) \/ SameSerial(found[i], found[j]) => i = j
=============================================================================
