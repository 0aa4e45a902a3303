------------------------------- MODULE DbSync -------------------------------
(***************************************************************************)
(* Database synchronisation between fmesh-cli instances                    *)
(* (src/src/mesh/db_sync.cpp, the message, location and telemetry tables   *)
(* of src/src/store/database.cpp, and the calls mesh_service.cpp makes to  *)
(* them).                                                                  *)
(*                                                                         *)
(* Every instance (a peer) runs one reading thread per connection, and     *)
(* the thread that reads a payload also runs its whole handler.  Sync      *)
(* payloads are broadcast: send_db_sync writes each one to every           *)
(* connection, the one the payload came from included.  A connection       *)
(* delivers payloads in order until it breaks.  Of what a broken one has   *)
(* delivered its reading threads may still read any beginning: the client  *)
(* joins its thread before it connects again, the server waits for         *)
(* nobody.                                                                 *)
(*                                                                         *)
(* The handler of a data payload is not atomic.  For each row it asks the  *)
(* database whether the row is there, and only later inserts it; another   *)
(* reading thread, or the radio's, may write in between.  CheckRow and     *)
(* InsertRow are these two halves.                                         *)
(***************************************************************************)
EXTENDS Integers, Sequences, FiniteSets

CONSTANTS
    Peer,        \* the running instances
    Link,        \* directed links <<from, to>>: who is connected to whom
    Dialled,     \* the links whose first peer connects to the second's server
    Row,         \* the rows the radios may produce
    Home,        \* Home[r]: the peer one of whose radios produces r
    TableOf,     \* TableOf[r]: the table r belongs to
    PacketId,    \* PacketId[r]: packet_id of a message; 0 is "none"
    Sender,      \* Sender[r]: from_node of a message
    Ts,          \* Ts[r]: its time stamp
    None,        \* no row
    PageSize,    \* rows of a table one reply carries (20 in the code)
    MaxCopies,   \* copies of a row are counted up to this many
    MaxRows,     \* bound: rows the radios report, of those in Row
    MaxHears,    \* bound: reports of one position or telemetry sample
    MaxSyncs,    \* bound: syncs started by a trigger, in all
    MaxFaults    \* bound: broken connections and restarts, in all

Tables == {"messages", "locations", "telemetry"}

ASSUME DbSyncAssumption ==
    /\ Link \subseteq Peer \X Peer
    /\ \A p, q \in Peer : <<p, q>> \in Link => <<q, p>> \in Link
    /\ Dialled \subseteq Link
    /\ Home \in [Row -> Peer]
    /\ TableOf \in [Row -> Tables]
    /\ PacketId \in [Row -> Nat]
    /\ DOMAIN Sender = Row
    /\ Ts \in [Row -> Nat \ {0}]
    /\ None \notin Row
    /\ PageSize \in Nat \ {0}
    /\ MaxCopies \in Nat /\ MaxCopies > 1
    /\ MaxRows \in Nat /\ MaxHears \in Nat /\ MaxSyncs \in Nat /\ MaxFaults \in Nat

VARIABLES
    db,      \* db[p][r]: copies of r in the database of p
    seen,    \* seen[p]: <<from, packet id>> of the dedup ring (seen_messages_)
    up,      \* the links whose connection is established
    turn,    \* turn[x]: the connection of link x, or the next one it will have
    net,     \* net[l]: payloads sent over line l and not yet read
    job,     \* job[l]: the data payload the reader of l is working through
    heard,   \* heard[r]: how often a radio has reported r
    syncs,   \* syncs triggered so far
    faults,  \* faults so far
    overtaken \* history: links connected again before the server's reader was done

linkVars == <<up, turn, overtaken>>
vars == <<db, seen, linkVars, net, job, heard, syncs, faults>>

\* Each connection of a link has a line and a reading thread of its own.
Line == {<<x[1], x[2], n>> : x \in Link, n \in 0 .. MaxFaults}
LinkOf(l) == <<l[1], l[2]>>

Current(l) == LinkOf(l) \in up /\ l[3] = turn[LinkOf(l)]

-----------------------------------------------------------------------------
(* The database *)

Has(p, r) == db[p][r] > 0
RowsOf(p) == {r \in Row : Has(p, r)}

\* Count one more copy, up to MaxCopies ("that many or more").
More(n) == IF n < MaxCopies THEN n + 1 ELSE n

\* Mutant: a message replaces the one with its packet id.
InsertOrReplace(p, r) ==
    LET Replaced(s) == s # r /\ PacketId[s] # 0 /\ PacketId[s] = PacketId[r]
    IN  db' = [db EXCEPT ![p] = [s \in Row |-> IF s = r THEN More(@[s])
                                             ELSE IF Replaced(s) THEN 0 ELSE @[s]]]

\* INSERT INTO ...: the tables have no uniqueness constraint on these columns.
Insert(p, r) == db' = [db EXCEPT ![p][r] = More(@)]

\* Mutant: positions and telemetry are not looked up.
KnownMessage(p, r) ==
    /\ TableOf[r] = "messages" /\ PacketId[r] # 0
    /\ \E s \in Row : TableOf[s] = "messages" /\ PacketId[s] = PacketId[r] /\ Has(p, s)

\* The question asked before an insert: find_by_packet_id for messages (the
\* packet id alone, and never for packet id 0), the exact (device, node, ts)
\* of the row for locations and telemetry.
Known(p, r) ==
    IF TableOf[r] = "messages"
    THEN /\ PacketId[r] # 0
         /\ \E s \in Row : /\ TableOf[s] = "messages"
                           /\ PacketId[s] = PacketId[r]
                           /\ Has(p, s)
    ELSE Has(p, r)

\* Only a message without a packet id is taken for new whenever it comes.
Deduplicated(r) == TableOf[r] # "messages" \/ PacketId[r] # 0

InTable(S, t) == {r \in S : TableOf[r] = t}

\* SELECT MAX(ts) FROM ...; 0 for an empty table.
MaxTs(p) ==
    [t \in Tables |->
        LET S == InTable(RowsOf(p), t)
            newest == {r \in S : \A s \in S : Ts[s] <= Ts[r]}
        IN  IF newest = {} THEN 0 ELSE Ts[CHOOSE r \in newest : TRUE]]

\* Mutant: an off-by-one in the comparison of time stamps.
NewerByTwo(p, after) == {r \in RowsOf(p) : Ts[r] > after[TableOf[r]] + 1}

\* Mutant: the newest row known is fetched again.
NewerOrEqual(p, after) == {r \in RowsOf(p) : Ts[r] >= after[TableOf[r]]}

\* WHERE ts > ? in each of the three tables.
Newer(p, after) == {r \in RowsOf(p) : Ts[r] > after[TableOf[r]]}

\* ORDER BY ts ASC LIMIT: the oldest PageSize rows of each table of S.
\* Which of several rows of one time stamp make the page is left open.
IsPage(Q, S) ==
    \A t \in Tables :
        LET T == InTable(S, t)
            QT == InTable(Q, t)
        IN  /\ IF Cardinality(T) <= PageSize
               THEN QT = T
               ELSE Cardinality(QT) = PageSize
            /\ \A a \in QT, b \in T \ QT : Ts[a] <= Ts[b]

-----------------------------------------------------------------------------
(* Payloads and the network *)

DataOf(S, more) == [type |-> "data", rows |-> S, more |-> more]
InventoryOf(p) == [type |-> "inventory", ts |-> MaxTs(p)]
RequestOf(p) == [type |-> "request", ts |-> MaxTs(p)]

\* Every row the payloads ms carry is in S.
CarriesOnly(ms, S) ==
    \A i \in DOMAIN ms : ms[i].type = "data" => ms[i].rows \subseteq S

TsVector == [Tables -> Nat]
Payload == [type : {"data"}, rows : SUBSET Row, more : BOOLEAN]
             \cup [type : {"inventory", "request"}, ts : TsVector]

\* send_db_sync by peer p of the payloads ms, in this order, on queues n.
Sent(n, p, ms) ==
    [l \in Line |-> IF Current(l) /\ l[1] = p THEN n[l] \o ms ELSE n[l]]

Read(l) == [net EXCEPT ![l] = Tail(@)]

NoJob == [todo |-> {}, cur |-> None, more |-> FALSE]
Job == [todo : SUBSET Row, cur : Row \cup {None}, more : BOOLEAN]

Init ==
    /\ db = [p \in Peer |-> [r \in Row |-> 0]]
    /\ seen = [p \in Peer |-> {}]
    /\ up = Link
    /\ turn = [x \in Link |-> 0]
    /\ net = [l \in Line |-> <<>>]
    /\ job = [l \in Line |-> NoJob]
    /\ heard = [r \in Row |-> 0]
    /\ syncs = 0
    /\ faults = 0
    /\ overtaken = {}

-----------------------------------------------------------------------------
(* The radio's side: handle_event and send_text *)

Report(r) ==
    /\ Cardinality({s \in Row : heard[s] > 0} \cup {r}) <= MaxRows
    /\ heard' = [heard EXCEPT ![r] = @ + 1]

\* EvTextReceived.  The first sighting of (from, packet id) is stored and
\* pushed; a later one, through another radio of this peer, only stored.
\* A radio delivers a packet once.
HearText(p, r) ==
    LET sighting == <<Sender[r], PacketId[r]>>
        duplicate == PacketId[r] # 0 /\ sighting \in seen[p]
    IN  /\ Home[r] = p
        /\ TableOf[r] = "messages"
        /\ heard[r] = 0
        /\ Report(r)
        /\ Insert(p, r)
        /\ seen' = [seen EXCEPT ![p] =
                        IF PacketId[r] = 0 THEN @ ELSE @ \cup {sighting}]
        /\ net' = IF duplicate THEN net
                  ELSE Sent(net, p, <<DataOf({r}, FALSE)>>)
        /\ UNCHANGED <<linkVars, job, syncs, faults>>

\* send_text: the outgoing message is stored; it is pushed to the other
\* peers only when it goes out through a virtual device.
SendText(p, r, virtual) ==
    /\ Home[r] = p
    /\ TableOf[r] = "messages"
    /\ heard[r] = 0
    /\ Report(r)
    /\ Insert(p, r)
    /\ net' = IF virtual THEN Sent(net, p, <<DataOf({r}, FALSE)>>) ELSE net
    /\ UNCHANGED <<seen, linkVars, job, syncs, faults>>

\* EvPositionReceived and EvNodeUpdated: the row is stored unless it is there
\* and pushed in either case.  A radio repeats what it knows of a node.
HearSample(p, r) ==
    /\ Home[r] = p
    /\ TableOf[r] # "messages"
    /\ heard[r] < MaxHears
    /\ Report(r)
    /\ IF Known(p, r) THEN UNCHANGED db ELSE Insert(p, r)
    /\ net' = Sent(net, p, <<DataOf({r}, FALSE)>>)
    /\ UNCHANGED <<seen, linkVars, job, syncs, faults>>

\* trigger_sync, or the end of a configuration download (EvConfigComplete,
\* which makes the call with devices_mu_ held: see Outbox).
InitiateSync(p) ==
    /\ syncs < MaxSyncs
    /\ syncs' = syncs + 1
    /\ net' = Sent(net, p, <<InventoryOf(p)>>)
    /\ UNCHANGED <<db, seen, linkVars, job, heard, faults>>

-----------------------------------------------------------------------------
(* The reading thread of a line l from q to p, running at p *)

Idle(l) == job[l] = NoJob

Arrived(l, type) ==
    /\ Idle(l)
    /\ net[l] # <<>>
    /\ Head(net[l]).type = type

\* What handle_request(after) at p may send: nothing, or one page of each
\* table and whether some table has more.
Reply(p, after) ==
    LET S == Newer(p, after)
    IN  IF S = {} THEN {<<>>}
        ELSE {<<DataOf(Q, Q # S)>> : Q \in {R \in SUBSET S : IsPage(R, S)}}

\* handle_inventory: ask for what the other side has and we do not, and send
\* what we have and it does not.  Both may apply.
HandleInventory(l) ==
    LET p == l[2]
        remote == Head(net[l]).ts
        behind == \E t \in Tables : remote[t] > MaxTs(p)[t]
        ahead == \E t \in Tables : MaxTs(p)[t] > remote[t]
        ask == IF behind THEN <<RequestOf(p)>> ELSE <<>>
    IN  /\ Arrived(l, "inventory")
        /\ \E answer \in IF ahead THEN Reply(p, remote) ELSE {<<>>} :
              net' = Sent(Read(l), p, ask \o answer)
        /\ UNCHANGED <<db, seen, linkVars, job, heard, syncs, faults>>

HandleRequest(l) ==
    /\ Arrived(l, "request")
    /\ \E answer \in Reply(l[2], Head(net[l]).ts) :
          net' = Sent(Read(l), l[2], answer)
    /\ UNCHANGED <<db, seen, linkVars, job, heard, syncs, faults>>

\* handle_data begins: the parsed payload becomes the thread's work.
BeginData(l) ==
    /\ Arrived(l, "data")
    /\ job' = [job EXCEPT ![l] = [todo |-> Head(net[l]).rows,
                                  cur |-> None,
                                  more |-> Head(net[l]).more]]
    /\ net' = Read(l)
    /\ UNCHANGED <<db, seen, linkVars, heard, syncs, faults>>

TableRank == [messages |-> 1, locations |-> 2, telemetry |-> 3]

\* Rows are worked through table by table, oldest first.
Foremost(S, r) ==
    /\ r \in S
    /\ \A s \in S : \/ TableRank[TableOf[r]] < TableRank[TableOf[s]]
                    \/ TableOf[r] = TableOf[s] /\ Ts[r] <= Ts[s]

\* A known telemetry row is merged with the stored one, which
\* insert_telemetry reports like an insertion.
ReportsMerge(r) == TableOf[r] = "telemetry"

\* Mutant: a new row is forwarded at once.
CheckRowForwarding(l, r) ==
    /\ job[l].cur = None
    /\ Foremost(job[l].todo, r)
    /\ IF Known(l[2], r)
       THEN job' = [job EXCEPT ![l].todo = @ \ {r}]
       ELSE job' = [job EXCEPT ![l].cur = r]
    /\ net' = IF ReportsMerge(r) \/ ~Known(l[2], r)
              THEN Sent(net, l[2], <<DataOf({r}, FALSE)>>)
              ELSE net
    /\ UNCHANGED <<db, seen, linkVars, heard, syncs, faults>>

\* The first half of a row: is it known?  A known message or location is
\* skipped; a row merged is forwarded again.
CheckRow(l, r) ==
    /\ job[l].cur = None
    /\ Foremost(job[l].todo, r)
    /\ IF Known(l[2], r)
       THEN /\ job' = [job EXCEPT ![l].todo = @ \ {r}]
            /\ net' = IF ReportsMerge(r)
                      THEN Sent(net, l[2], <<DataOf({r}, FALSE)>>)
                      ELSE net
       ELSE /\ job' = [job EXCEPT ![l].cur = r]
            /\ UNCHANGED net
    /\ UNCHANGED <<db, seen, linkVars, heard, syncs, faults>>

\* Mutant: the row is kept and not forwarded.
InsertRowSilently(l) ==
    /\ job[l].cur # None
    /\ Insert(l[2], job[l].cur)
    /\ job' = [job EXCEPT ![l].todo = @ \ {job[l].cur}, ![l].cur = None]
    /\ UNCHANGED <<seen, linkVars, net, heard, syncs, faults>>

\* The second half: the row was not known when asked; insert it and forward
\* it to every connection, the one it came from included.
InsertRow(l) ==
    LET r == job[l].cur
    IN  /\ r # None
        /\ Insert(l[2], r)
        /\ job' = [job EXCEPT ![l].todo = @ \ {r}, ![l].cur = None]
        /\ net' = Sent(net, l[2], <<DataOf({r}, FALSE)>>)
        /\ UNCHANGED <<seen, linkVars, heard, syncs, faults>>

\* handle_data ends: after an incomplete page the receiver syncs again.
FinishData(l) ==
    /\ job[l].todo = {} /\ job[l].more
    /\ job' = [job EXCEPT ![l] = NoJob]
    /\ net' = Sent(net, l[2], <<InventoryOf(l[2])>>)
    /\ UNCHANGED <<db, seen, linkVars, heard, syncs, faults>>

Reader(l) ==
    \/ HandleInventory(l)
    \/ HandleRequest(l)
    \/ BeginData(l)
    \/ \E r \in Row : CheckRow(l, r)
    \/ InsertRow(l)
    \/ FinishData(l)

-----------------------------------------------------------------------------
(* Faults *)

Edge(p, q) == {<<p, q>>, <<q, p>>}

\* Of the links in B, those that are up break.
Break(B) ==
    /\ up' = up \ B
    /\ turn' = [x \in Link |-> IF x \in up \cap B THEN turn[x] + 1 ELSE turn[x]]

\* A connection breaks.  The readers finish the payload they are working on
\* and may still read what has arrived.
Cut(p, q) ==
    /\ faults < MaxFaults
    /\ <<p, q>> \in up
    /\ faults' = faults + 1
    /\ Break(Edge(p, q))
    /\ UNCHANGED <<db, seen, overtaken, net, job, heard, syncs>>

\* The reader of a broken connection comes to its end; the rest was lost.
Lose(l) ==
    /\ ~Current(l)
    /\ net[l] # <<>>
    /\ net' = [net EXCEPT ![l] = <<>>]
    /\ UNCHANGED <<db, seen, linkVars, job, heard, syncs, faults>>

\* The readers of link x have nothing left to handle.
Done(x) == \A l \in Line : LinkOf(l) = x => Idle(l) /\ net[l] = <<>>

\* Peer p connects to q again, when its own reader has returned
\* (StreamClient::stop joins it).  At q, accept_loop serves the new connection
\* whether the thread of the old one has ended or not.
Connect(p, q) ==
    /\ <<p, q>> \in Dialled \ up
    /\ Done(<<q, p>>)
    /\ up' = up \cup Edge(p, q)
    /\ overtaken' = IF Done(<<p, q>>) THEN overtaken ELSE overtaken \cup {<<p, q>>}
    /\ UNCHANGED <<db, seen, turn, net, job, heard, syncs, faults>>

\* Instance p dies and is started again: the database stays, everything in
\* memory is gone.
Restart(p) ==
    /\ faults < MaxFaults
    /\ faults' = faults + 1
    /\ Break({x \in Link : p \in {x[1], x[2]}})
    /\ net' = [l \in Line |-> IF l[2] = p THEN <<>> ELSE net[l]]
    /\ job' = [l \in Line |-> IF l[2] = p THEN NoJob ELSE job[l]]
    /\ seen' = [seen EXCEPT ![p] = {}]
    /\ UNCHANGED <<db, overtaken, heard, syncs>>

Next ==
    \/ \E p \in Peer, r \in Row :
          \/ HearText(p, r)
          \/ HearSample(p, r)
          \/ \E virtual \in BOOLEAN : SendText(p, r, virtual)
    \/ \E p \in Peer : InitiateSync(p) \/ Restart(p)
    \/ \E l \in Line : Reader(l) \/ Lose(l)
    \/ \E p, q \in Peer : Cut(p, q) \/ Connect(p, q)

Spec == Init /\ [][Next]_vars

\* Every reading thread keeps running: a payload that has arrived is read and
\* its handler returns.  Radios, users and faults owe nothing.
Fairness == \A l \in Line : WF_vars(Reader(l))

FairSpec == Spec /\ Fairness

-----------------------------------------------------------------------------
(* Properties *)

TypeOK ==
    /\ db \in [Peer -> [Row -> 0 .. MaxCopies]]
    /\ seen \in [Peer -> SUBSET {<<Sender[r], PacketId[r]>> : r \in Row}]
    /\ up \subseteq Link /\ overtaken \subseteq Link
    /\ turn \in [Link -> 0 .. MaxFaults]
    /\ net \in [Line -> Seq(Payload)]
    /\ job \in [Line -> Job]
    /\ \A l \in Line : job[l].cur \in job[l].todo \cup {None}
    /\ heard \in [Row -> Nat]
    /\ syncs \in 0 .. MaxSyncs
    /\ faults \in 0 .. MaxFaults

\* What is on its way over a link, or being worked through at its end, is
\* stored at the peer that sent it: a crash after a send loses no row.
SentIsStored ==
    \A l \in Line :
        /\ job[l].todo \subseteq RowsOf(l[1])
        /\ CarriesOnly(net[l], RowsOf(l[1]))

\* DbSync implements Gossip.
Stored == [p \in Peer |-> RowsOf(p)]
G == INSTANCE Gossip WITH store <- Stored
ImplementsGossip == G!GSpec

Quiet == \A l \in Line : net[l] = <<>> /\ Idle(l)

\* The echoes end: a pushed row comes back from every peer it was sent to,
\* and each of those echoes is answered by nothing, so that the network falls
\* silent once the radios do.
EchoesEnd == <>[]Quiet

\* Message propagation: a message that was pushed reaches every peer.
Pushed(r) == heard[r] > 0 /\ \E l \in Line : l[1] = Home[r] /\
                \E i \in DOMAIN net[l] :
                    net[l][i].type = "data" /\ r \in net[l][i].rows
PushesReachEveryone ==
    \A r \in Row : Pushed(r) ~> \A p \in Peer : Has(p, r)

\* A sync fills the gap it announces: a row newer than the time stamp an
\* inventory names is delivered to the peer that sent the inventory.
InventoryAnswered ==
    \A l \in Line, r \in Row :
        (/\ Has(l[2], r)
         /\ \E i \in DOMAIN net[l] : /\ net[l][i].type = "inventory"
                                    /\ net[l][i].ts[TableOf[r]] < Ts[r])
        ~> Has(l[1], r)
=============================================================================
