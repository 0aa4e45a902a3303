---------------------------- MODULE DbSyncProofs ----------------------------
(***************************************************************************)
(* What DbSync guarantees over every tree of peers, for any number of      *)
(* peers, rows, cuts, restarts and syncs.                                  *)
(*                                                                         *)
(* The argument.  A reading thread at p that works through a row r has it  *)
(* from a neighbour q that stores r (SentIsStored).  If q is the far side  *)
(* of p as seen from the home of r, then p, being nearer, already has r    *)
(* (NearestFirst).  So only the reader of the one link leading home can    *)
(* find r missing, and as long as that link has a single reader with       *)
(* something to handle (Alone), nobody comes between its check and its     *)
(* insertion.                                                              *)
(***************************************************************************)
EXTENDS DbSyncTree, TLAPS

\* A stored row has been reported by a radio.
HeardFirst == \A p \in Peer, r \in Row : Has(p, r) => heard[r] > 0

\* A row found missing by a reader comes from nearer home, and is still
\* missing when it is inserted, unless the link has been overtaken.
FreshIsAbsent ==
    \A l \in Line : job[l].cur # None /\ Deduplicated(job[l].cur) =>
        /\ Toward[Home[job[l].cur]][l[2]] = l[1]
        /\ LinkOf(l) \notin overtaken => ~ Has(l[2], job[l].cur)

\* Every further connection of a link was preceded by a fault.
Turns == \A x \in Link : turn[x] <= faults

\* The latest connection that link x has had.
Last(x) == IF x \in up THEN turn[x] ELSE turn[x] - 1

\* Readers of earlier connections are done, but where a link was overtaken.
Alone ==
    \A l \in Line : LinkOf(l) \notin overtaken /\ l[3] # Last(LinkOf(l)) =>
        Idle(l) /\ net[l] = <<>>

IInv ==
    /\ TypeOK
    /\ NoDuplicateCopies
    /\ NearestFirst
    /\ SentIsStored
    /\ HeardFirst
    /\ FreshIsAbsent
    /\ Turns

-----------------------------------------------------------------------------

\* The ends of a link, and of a line, are peers.
LEMMA LinkEnds ==
    ASSUME NEW l \in Line
    PROVE  /\ l[1] \in Peer /\ l[2] \in Peer /\ l[3] \in 0 .. MaxFaults
           /\ LinkOf(l) \in Link /\ LinkOf(l) = <<l[1], l[2]>>
           /\ l = <<l[1], l[2], l[3]>>
<1>1. PICK x \in Link, n \in 0 .. MaxFaults : l = <<x[1], x[2], n>>
  BY DEF Line
<1>2. x[1] \in Peer /\ x[2] \in Peer /\ x = <<x[1], x[2]>>
  BY DbSyncAssumption
<1> QED
  BY <1>1, <1>2 DEF LinkOf

\* What an insertion changes.
LEMMA InsertChanges ==
    ASSUME TypeOK, NEW p \in Peer, NEW r \in Row, Insert(p, r)
    PROVE  /\ db' \in [Peer -> [Row -> 0 .. MaxCopies]]
           /\ db'[p][r] = More(db[p][r])
           /\ \A q \in Peer, s \in Row : ~ (q = p /\ s = r) => db'[q][s] = db[q][s]
           /\ \A q \in Peer, s \in Row : Has(q, s)' <=> (Has(q, s) \/ (q = p /\ s = r))
<1>1. MaxCopies \in Nat /\ MaxCopies > 1
  BY DbSyncAssumption
<1>2. db \in [Peer -> [Row -> 0 .. MaxCopies]]
  BY DEF TypeOK
<1>3. More(db[p][r]) \in 0 .. MaxCopies /\ More(db[p][r]) > 0
  BY <1>1, <1>2 DEF More
<1>4. db' = [db EXCEPT ![p][r] = More(db[p][r])]
  BY DEF Insert
<1>5. db' \in [Peer -> [Row -> 0 .. MaxCopies]]
  BY <1>2, <1>3, <1>4
<1>6. db'[p][r] = More(db[p][r])
  BY <1>2, <1>4
<1>7. \A q \in Peer, s \in Row : ~ (q = p /\ s = r) => db'[q][s] = db[q][s]
  BY <1>2, <1>4
<1>8. \A q \in Peer, s \in Row : Has(q, s)' <=> (Has(q, s) \/ (q = p /\ s = r))
  BY <1>3, <1>6, <1>7 DEF Has
<1> QED
  BY <1>5, <1>6, <1>7, <1>8

\* The time stamps an inventory or a request carries.
LEMMA MaxTsType ==
    ASSUME NEW p \in Peer
    PROVE  MaxTs(p) \in TsVector
<1>1. ASSUME NEW t \in Tables
      PROVE  MaxTs(p)[t] \in Nat
  <2> DEFINE S == InTable(RowsOf(p), t)
             newest == {r \in S : \A s \in S : Ts[s] <= Ts[r]}
  <2>1. MaxTs(p)[t] = IF newest = {} THEN 0 ELSE Ts[CHOOSE r \in newest : TRUE]
    BY DEF MaxTs
  <2>2. newest \subseteq Row
    BY DEF InTable, RowsOf
  <2>3. newest # {} => (CHOOSE r \in newest : TRUE) \in Row
    BY <2>2
  <2> QED
    BY <2>1, <2>3, DbSyncAssumption
<1> QED
  BY <1>1 DEF MaxTs, TsVector

\* A payload of one kind or another.
LEMMA PayloadTypes ==
    /\ \A S \in SUBSET Row, more \in BOOLEAN : DataOf(S, more) \in Payload
    /\ \A p \in Peer : InventoryOf(p) \in Payload /\ RequestOf(p) \in Payload
BY MaxTsType DEF DataOf, InventoryOf, RequestOf, Payload

\* Appending payloads that carry rows of S only.
LEMMA CarriesAppend ==
    ASSUME NEW s \in Seq(Payload), NEW ms \in Seq(Payload), NEW S,
           CarriesOnly(s, S), CarriesOnly(ms, S)
    PROVE  s \o ms \in Seq(Payload) /\ CarriesOnly(s \o ms, S)
<1>1. ASSUME NEW i \in DOMAIN (s \o ms)
      PROVE  \/ i \in DOMAIN s /\ (s \o ms)[i] = s[i]
             \/ (i - Len(s)) \in DOMAIN ms /\ (s \o ms)[i] = ms[i - Len(s)]
  OBVIOUS
<1> QED
  BY <1>1 DEF CarriesOnly

\* Sending keeps every queue well typed and backed by its sender's database.
LEMMA SentKeeps ==
    ASSUME up \subseteq Link,
           NEW D \in [Peer -> SUBSET Row],
           NEW n \in [Line -> Seq(Payload)],
           \A l \in Line : CarriesOnly(n[l], D[l[1]]),
           NEW p \in Peer, NEW ms \in Seq(Payload), CarriesOnly(ms, D[p])
    PROVE  /\ Sent(n, p, ms) \in [Line -> Seq(Payload)]
           /\ \A l \in Line : CarriesOnly(Sent(n, p, ms)[l], D[l[1]])
<1>1. ASSUME NEW l \in Line
      PROVE  /\ Sent(n, p, ms)[l] \in Seq(Payload)
             /\ CarriesOnly(Sent(n, p, ms)[l], D[l[1]])
  <2>1. CASE Current(l) /\ l[1] = p
    <3>1. Sent(n, p, ms)[l] = n[l] \o ms
      BY <2>1 DEF Sent
    <3> QED
      BY <2>1, <3>1, CarriesAppend
  <2>2. CASE ~ (Current(l) /\ l[1] = p)
    BY <2>2 DEF Sent
  <2> QED
    BY <2>1, <2>2
<1> QED
  BY <1>1 DEF Sent

\* Reading takes the head off a queue.
LEMMA ReadKeeps ==
    ASSUME NEW D \in [Peer -> SUBSET Row],
           net \in [Line -> Seq(Payload)],
           \A k \in Line : CarriesOnly(net[k], D[k[1]]),
           NEW l \in Line, net[l] # <<>>
    PROVE  /\ Read(l) \in [Line -> Seq(Payload)]
           /\ \A k \in Line : CarriesOnly(Read(l)[k], D[k[1]])
           /\ Head(net[l]) \in Payload
           /\ Head(net[l]).type = "data" => Head(net[l]).rows \subseteq D[l[1]]
<1>1. Tail(net[l]) \in Seq(Payload) /\ Head(net[l]) \in Payload
  OBVIOUS
<1>2. \A i \in DOMAIN Tail(net[l]) : i + 1 \in DOMAIN net[l] /\ Tail(net[l])[i] = net[l][i + 1]
  OBVIOUS
<1>3. CarriesOnly(Tail(net[l]), D[l[1]])
  BY <1>2 DEF CarriesOnly
<1>4. 1 \in DOMAIN net[l] /\ Head(net[l]) = net[l][1]
  OBVIOUS
<1> QED
  BY <1>1, <1>3, <1>4 DEF Read, CarriesOnly

\* A reply carries rows of the replying peer.
LEMMA ReplyCarries ==
    ASSUME NEW p \in Peer, NEW after, NEW answer \in Reply(p, after)
    PROVE  answer \in Seq(Payload) /\ CarriesOnly(answer, RowsOf(p))
<1> DEFINE S == Newer(p, after)
<1>1. S \subseteq RowsOf(p) /\ RowsOf(p) \subseteq Row
  BY DEF Newer, RowsOf
<1>2. CASE answer = <<>>
  BY <1>2 DEF CarriesOnly
<1>3. CASE answer # <<>>
  <2>1. PICK Q \in SUBSET S : answer = <<DataOf(Q, Q # S)>>
    BY <1>3 DEF Reply
  <2>2. DataOf(Q, Q # S) \in Payload
    BY <1>1, PayloadTypes
  <2>3. DataOf(Q, Q # S).rows = Q
    BY DEF DataOf
  <2> QED
    BY <1>1, <2>1, <2>2, <2>3 DEF CarriesOnly
<1> QED
  BY <1>2, <1>3

\* What every step does to the links.
LinksStep ==
    /\ up' \subseteq Link /\ overtaken' \subseteq Link
    /\ overtaken \subseteq overtaken'
    /\ turn' \in [Link -> 0 .. MaxFaults]
    /\ Turns'

LEMMA LinksStay ==
    ASSUME IInv, UNCHANGED <<linkVars, faults>>
    PROVE  LinksStep
BY DEF IInv, TypeOK, LinksStep, Turns, linkVars

-----------------------------------------------------------------------------
(* The inductive invariant *)

LEMMA InitInv == Init => IInv
<1> SUFFICES ASSUME Init PROVE IInv
  OBVIOUS
<1>1. TypeOK
  BY DbSyncAssumption DEF Init, TypeOK, NoJob, Job
<1>2. \A p \in Peer, r \in Row : db[p][r] = 0 /\ ~ Has(p, r)
  BY DEF Init, Has
<1>3. NoDuplicateCopies /\ NearestFirst /\ HeardFirst
  BY <1>2 DEF NoDuplicateCopies, NearestFirst, HeardFirst
<1>4. SentIsStored /\ FreshIsAbsent
  BY DEF Init, SentIsStored, FreshIsAbsent, NoJob, CarriesOnly
<1>5. Turns
  BY DEF Init, Turns
<1> QED
  BY <1>1, <1>3, <1>4, <1>5 DEF IInv

\* A reader that works through r, which its peer p does not have, reads the
\* link that leads home.
LEMMA ReaderFacesHome ==
    ASSUME IInv, NEW l \in Line, NEW r \in job[l].todo, ~ Has(l[2], r)
    PROVE  r \in Row /\ Has(l[1], r) /\ Toward[Home[r]][l[2]] = l[1]
<1>1. l[1] \in Peer /\ l[2] \in Peer /\ <<l[1], l[2]>> \in Link
  BY LinkEnds
<1>2. r \in Row /\ Has(l[1], r)
  BY DEF IInv, TypeOK, Job, SentIsStored, RowsOf
<1>3. Home[r] \in Peer
  BY <1>2, DbSyncAssumption
<1>4. <<l[2], l[1]>> \in Link
  BY <1>1, DbSyncAssumption
<1>5. Toward[Home[r]][l[2]] = l[1] <=> Toward[Home[r]][l[1]] # l[2]
  BY <1>1, <1>3, <1>4, TreeAssumption
<1>6. Has(Toward[Home[r]][l[1]], r)
  BY <1>1, <1>2 DEF IInv, NearestFirst
<1> QED
  BY <1>2, <1>5, <1>6

\* Nothing that leaves the database alone disturbs what the invariant says
\* of the database.
LEMMA DatabaseUntouched ==
    ASSUME IInv, db' = db, overtaken \subseteq overtaken',
           \A r \in Row : heard'[r] >= heard[r] /\ heard'[r] \in Nat
    PROVE  NoDuplicateCopies' /\ NearestFirst' /\ HeardFirst'
<1>1. \A p \in Peer, r \in Row : Has(p, r)' <=> Has(p, r)
  BY DEF Has
<1>2. NoDuplicateCopies'
  BY DEF IInv, NoDuplicateCopies, Deduplicated
<1>3. NearestFirst'
  <2> SUFFICES ASSUME NEW p \in Peer, NEW r \in Row, Has(p, r)
               PROVE  Has(Toward[Home[r]][p], r)'
    BY <1>1 DEF NearestFirst
  <2>1. Toward[Home[r]][p] \in Peer
    BY DbSyncAssumption, TreeAssumption
  <2> QED
    BY <1>1, <2>1 DEF IInv, NearestFirst
<1>4. HeardFirst'
  <2> SUFFICES ASSUME NEW p \in Peer, NEW r \in Row, Has(p, r)
               PROVE  heard'[r] > 0
    BY <1>1 DEF HeardFirst
  <2>1. heard[r] \in Nat /\ heard[r] > 0
    BY DEF IInv, HeardFirst, TypeOK
  <2> QED
    BY <2>1
<1> QED
  BY <1>2, <1>3, <1>4

\* Storing r at p, where it was not, and with the peer next on the way home
\* having it (or p being its home), keeps what the invariant says of the
\* database.
LEMMA DatabaseGrows ==
    ASSUME IInv, NEW p \in Peer, NEW r \in Row, Insert(p, r),
           overtaken \subseteq overtaken',
           Deduplicated(r) /\ Has(p, r) => <<Toward[Home[r]][p], p>> \in overtaken,
           p = Home[r] \/ Has(Toward[Home[r]][p], r),
           \A s \in Row : heard'[s] >= heard[s] /\ heard'[s] \in Nat,
           heard'[r] > 0
    PROVE  NoDuplicateCopies' /\ NearestFirst' /\ HeardFirst'
<1>0. TypeOK
  BY DEF IInv
<1>1. \A q \in Peer, s \in Row : Has(q, s)' <=> (Has(q, s) \/ (q = p /\ s = r))
  BY <1>0, InsertChanges
<1>2. NoDuplicateCopies'
  <2> SUFFICES ASSUME NEW q \in Peer, NEW s \in Row, Deduplicated(s),
                      <<Toward[Home[s]][q], q>> \notin overtaken'
               PROVE  db'[q][s] \in 0 .. 1
    <3>1. \A q \in Peer, s \in Row : db'[q][s] \in 0 .. 1 => ~ (db'[q][s] > 1)
      OBVIOUS
    <3> QED
      BY <3>1 DEF NoDuplicateCopies, Deduplicated
  <2>0. <<Toward[Home[s]][q], q>> \notin overtaken
    OBVIOUS
  <2>1. CASE q = p /\ s = r
    <3>1. db[p][r] = 0
      BY <1>0, <2>0, <2>1, DbSyncAssumption DEF Has, TypeOK
    <3>2. db'[p][r] = More(0)
      BY <1>0, <3>1, InsertChanges
    <3> QED
      BY <2>1, <3>2, DbSyncAssumption DEF More
  <2>2. CASE ~ (q = p /\ s = r)
    <3>1. db'[q][s] = db[q][s]
      BY <1>0, <2>2, InsertChanges
    <3>2. db[q][s] \in Nat
      BY <1>0, DbSyncAssumption DEF TypeOK
    <3> QED
      BY <2>0, <3>1, <3>2 DEF IInv, NoDuplicateCopies
  <2> QED
    BY <2>1, <2>2
<1>3. NearestFirst'
  <2> SUFFICES ASSUME NEW q \in Peer, NEW s \in Row, Has(q, s)'
               PROVE  Has(Toward[Home[s]][q], s)'
    BY DEF NearestFirst
  <2>1. Toward[Home[s]][q] \in Peer
    BY DbSyncAssumption, TreeAssumption
  <2>2. CASE Has(q, s)
    BY <1>1, <2>1, <2>2 DEF IInv, NearestFirst
  <2>3. CASE q = p /\ s = r
    <3>1. CASE p = Home[r]
      BY <1>1, <2>3, <3>1, TreeAssumption
    <3>2. CASE Has(Toward[Home[r]][p], r)
      BY <1>1, <2>1, <2>3, <3>2
    <3> QED
      BY <3>1, <3>2
  <2> QED
    BY <1>1, <2>2, <2>3
<1>4. HeardFirst'
  <2> SUFFICES ASSUME NEW q \in Peer, NEW s \in Row, Has(q, s)'
               PROVE  heard'[s] > 0
    BY DEF HeardFirst
  <2>1. CASE Has(q, s)
    <3>1. heard[s] \in Nat /\ heard[s] > 0
      BY <1>0, <2>1 DEF IInv, HeardFirst, TypeOK
    <3> QED
      BY <3>1
  <2> QED
    BY <1>1, <2>1
<1> QED
  BY <1>2, <1>3, <1>4

\* The database only grows.
LEMMA RowsGrow ==
    ASSUME TypeOK,
           db' = db \/ \E p \in Peer, r \in Row : Insert(p, r)
    PROVE  /\ db' \in [Peer -> [Row -> 0 .. MaxCopies]]
           /\ \A q \in Peer : RowsOf(q) \subseteq RowsOf(q)'
<1>1. CASE db' = db
  BY <1>1 DEF TypeOK, RowsOf, Has
<1>2. CASE \E p \in Peer, r \in Row : Insert(p, r)
  <2>1. PICK p \in Peer, r \in Row : Insert(p, r)
    BY <1>2
  <2>2. \A q \in Peer, s \in Row : Has(q, s) => Has(q, s)'
    BY <2>1, InsertChanges
  <2> QED
    BY <2>1, <2>2, InsertChanges DEF RowsOf
<1> QED
  BY <1>1, <1>2

\* What is in flight stays backed when the database grows and p sends rows it
\* has by then.
LEMMA InFlight ==
    ASSUME IInv,
           db' = db \/ \E q \in Peer, r \in Row : Insert(q, r),
           NEW n \in [Line -> Seq(Payload)],
           \A l \in Line : CarriesOnly(n[l], RowsOf(l[1])),
           NEW p \in Peer, NEW ms \in Seq(Payload),
           CarriesOnly(ms, RowsOf(p)'),
           net' = Sent(n, p, ms) \/ net' = n
    PROVE  /\ net' \in [Line -> Seq(Payload)]
           /\ \A l \in Line : CarriesOnly(net'[l], RowsOf(l[1])')
<1> DEFINE D == [q \in Peer |-> RowsOf(q)']
<1>1. \A q \in Peer : RowsOf(q) \subseteq D[q] /\ D[q] = RowsOf(q)'
  BY RowsGrow DEF IInv
<1>2. D \in [Peer -> SUBSET Row]
  BY DEF RowsOf
<1>3. \A l \in Line : CarriesOnly(n[l], D[l[1]])
  BY <1>1, LinkEnds DEF CarriesOnly
<1>4. CarriesOnly(ms, D[p])
  BY <1>1
<1>5. up \subseteq Link
  BY DEF IInv, TypeOK
<1>6. net' \in [Line -> Seq(Payload)] /\ \A l \in Line : CarriesOnly(net'[l], D[l[1]])
  <2>1. CASE net' = n
    BY <2>1, <1>3
  <2>2. CASE net' = Sent(n, p, ms)
    <3> HIDE DEF D
    <3> QED
      BY <2>2, <1>2, <1>3, <1>4, <1>5, SentKeeps
  <2> QED
    BY <2>1, <2>2
<1> QED
  BY <1>1, <1>6, LinkEnds

\* A single row sent by a peer that has it.
LEMMA OneRow ==
    ASSUME NEW p \in Peer, NEW r \in Row, NEW S, r \in S
    PROVE  /\ <<DataOf({r}, FALSE)>> \in Seq(Payload)
           /\ CarriesOnly(<<DataOf({r}, FALSE)>>, S)
<1>1. DataOf({r}, FALSE) \in Payload
  BY PayloadTypes
<1> QED
  BY <1>1 DEF CarriesOnly, DataOf

\* An inventory or a request carries no rows.
LEMMA NoRows ==
    ASSUME NEW p \in Peer, NEW S
    PROVE  /\ <<InventoryOf(p)>> \in Seq(Payload) /\ CarriesOnly(<<InventoryOf(p)>>, S)
           /\ <<RequestOf(p)>> \in Seq(Payload) /\ CarriesOnly(<<RequestOf(p)>>, S)
           /\ <<>> \in Seq(Payload) /\ CarriesOnly(<<>>, S)
BY PayloadTypes DEF CarriesOnly, InventoryOf, RequestOf

\* After an insertion of r at p the rows the readers hold are still missing,
\* when no other reader of p holds r.
LEMMA StillFresh ==
    ASSUME IInv, NEW p \in Peer, NEW r \in Row, Insert(p, r),
           \A l \in Line : job'[l].cur # None =>
               /\ job'[l].cur = job[l].cur
               /\ ~ (/\ l[2] = p /\ job[l].cur = r /\ Deduplicated(r)
                     /\ LinkOf(l) \notin overtaken),
           overtaken' = overtaken
    PROVE  FreshIsAbsent'
<1>1. ASSUME NEW l \in Line, NEW s, s = job'[l].cur, s # None, Deduplicated(s)
      PROVE  /\ Toward[Home[s]][l[2]] = l[1]
             /\ LinkOf(l) \notin overtaken' => ~ Has(l[2], s)'
  <2>1. s = job[l].cur /\ ~ (l[2] = p /\ s = r /\ LinkOf(l) \notin overtaken)
    BY <1>1
  <2>2. s \in Row /\ l[2] \in Peer
    BY <1>1, <2>1, LinkEnds DEF IInv, TypeOK, Job
  <2>3. Toward[Home[s]][l[2]] = l[1] /\ (LinkOf(l) \notin overtaken => ~ Has(l[2], s))
    BY <1>1, <2>1 DEF IInv, FreshIsAbsent
  <2> QED
    BY <2>1, <2>2, <2>3, InsertChanges DEF IInv
<1> QED
  BY <1>1 DEF FreshIsAbsent, Deduplicated, Has

\* The radio of p reports a row p does not have: nobody else is about to
\* insert it there.
LEMMA RadioInsert ==
    ASSUME IInv, NEW p \in Peer, NEW r \in Row, Home[r] = p, ~ Has(p, r),
           Insert(p, r), Report(r), UNCHANGED <<job, overtaken>>
    PROVE  NoDuplicateCopies' /\ NearestFirst' /\ HeardFirst' /\ FreshIsAbsent'
<1>1. \A s \in Row : heard'[s] >= heard[s] /\ heard'[s] \in Nat
  BY DEF IInv, TypeOK, Report
<1>2. heard'[r] > 0
  BY DEF IInv, TypeOK, Report
<1>3. NoDuplicateCopies' /\ NearestFirst' /\ HeardFirst'
  BY <1>1, <1>2, DatabaseGrows
<1>4. ASSUME NEW l \in Line, job[l].cur = r, l[2] = p
      PROVE  FALSE
  <2>1. r \in job[l].todo
    BY <1>4, DbSyncAssumption DEF IInv, TypeOK
  <2>2. Has(l[1], r) /\ Toward[p][p] = l[1]
    BY <1>4, <2>1, ReaderFacesHome
  <2> QED
    BY <2>2, TreeAssumption
<1> QED
  BY <1>3, <1>4, StillFresh

\* What a reader does to the database and the queues, given what it may send.
LEMMA Broadcast ==
    ASSUME IInv, NEW n \in [Line -> Seq(Payload)],
           \A l \in Line : CarriesOnly(n[l], RowsOf(l[1])),
           NEW p \in Peer, NEW ms \in Seq(Payload), CarriesOnly(ms, RowsOf(p)),
           net' = Sent(n, p, ms) \/ net' = n, UNCHANGED <<db, heard>>,
           overtaken \subseteq overtaken',
           job' \in [Line -> Job],
           \A l \in Line : job'[l].todo \subseteq RowsOf(l[1])
    PROVE  /\ net' \in [Line -> Seq(Payload)]
           /\ SentIsStored' /\ NoDuplicateCopies' /\ NearestFirst' /\ HeardFirst'
<1>1. \A q \in Peer : RowsOf(q)' = RowsOf(q)
  BY DEF RowsOf, Has
<1>2. CarriesOnly(ms, RowsOf(p)')
  BY <1>1
<1>3. /\ net' \in [Line -> Seq(Payload)]
      /\ \A l \in Line : CarriesOnly(net'[l], RowsOf(l[1])')
  BY <1>2, InFlight
<1>4. SentIsStored'
  BY <1>1, <1>3, LinkEnds DEF SentIsStored, CarriesOnly
<1>5. \A r \in Row : heard'[r] >= heard[r] /\ heard'[r] \in Nat
  BY DEF IInv, TypeOK
<1> QED
  BY <1>3, <1>4, <1>5, DatabaseUntouched

\* The queues and the jobs of an invariant state, as the lemmas want them.
LEMMA Parts ==
    ASSUME IInv
    PROVE  /\ net \in [Line -> Seq(Payload)] /\ job \in [Line -> Job]
           /\ \A l \in Line : CarriesOnly(net[l], RowsOf(l[1]))
           /\ \A l \in Line : job[l].todo \subseteq RowsOf(l[1])
BY DEF IInv, TypeOK, SentIsStored

\* A radio stores and, perhaps, pushes a row.
LEMMA RadioStep ==
    ASSUME IInv, NEW p \in Peer, NEW r \in Row, Home[r] = p, Report(r),
           \/ ~ Has(p, r) /\ Insert(p, r)
           \/ Has(p, r) /\ UNCHANGED db,
           net' = Sent(net, p, <<DataOf({r}, FALSE)>>) \/ net' = net,
           UNCHANGED <<linkVars, job, syncs, faults>>,
           seen' \in [Peer -> SUBSET {<<Sender[s], PacketId[s]>> : s \in Row}]
    PROVE  IInv'
<1>1. db' = db \/ \E q \in Peer, s \in Row : Insert(q, s)
  OBVIOUS
<1>2. \A q \in Peer : RowsOf(q) \subseteq RowsOf(q)'
  BY <1>1, RowsGrow DEF IInv
<1>3. r \in RowsOf(p)'
  <2>1. CASE ~ Has(p, r) /\ Insert(p, r)
    BY <2>1, InsertChanges DEF IInv, RowsOf
  <2>2. CASE Has(p, r)
    BY <2>2, <1>2 DEF RowsOf
  <2> QED
    BY <2>1, <2>2
<1>4. /\ net' \in [Line -> Seq(Payload)]
      /\ \A l \in Line : CarriesOnly(net'[l], RowsOf(l[1])')
  <2> DEFINE ms == <<DataOf({r}, FALSE)>>
  <2>1. ms \in Seq(Payload) /\ CarriesOnly(ms, RowsOf(p)')
    BY <1>3, OneRow
  <2> HIDE DEF ms
  <2>2. net' = Sent(net, p, ms) \/ net' = net
    BY DEF ms
  <2> QED
    BY <1>1, <2>1, <2>2, Parts, InFlight
<1>5. SentIsStored'
  BY <1>2, <1>4, Parts, LinkEnds DEF SentIsStored
<1>6. TypeOK'
  <2>1. db' \in [Peer -> [Row -> 0 .. MaxCopies]]
    BY <1>1, RowsGrow DEF IInv
  <2>2. heard' \in [Row -> Nat]
    BY DEF IInv, TypeOK, Report
  <2> QED
    BY <1>4, <2>1, <2>2 DEF IInv, TypeOK, linkVars
<1>7. NoDuplicateCopies' /\ NearestFirst' /\ HeardFirst' /\ FreshIsAbsent'
  <2>1. CASE ~ Has(p, r) /\ Insert(p, r)
    BY <2>1, RadioInsert DEF linkVars
  <2>2. CASE UNCHANGED db
    <3>1. \A s \in Row : heard'[s] >= heard[s] /\ heard'[s] \in Nat
      BY DEF IInv, TypeOK, Report
    <3>2. FreshIsAbsent'
      BY <2>2 DEF IInv, FreshIsAbsent, Has, Deduplicated, linkVars
    <3> QED
      BY <2>2, <3>1, <3>2, DatabaseUntouched DEF linkVars
  <2> QED
    BY <2>1, <2>2
<1>8. Turns'
  BY DEF IInv, Turns, linkVars
<1> QED
  BY <1>5, <1>6, <1>7, <1>8 DEF IInv

\* The reader of l inserts the row it found missing.
LEMMA InsertRowStep ==
    ASSUME IInv, Alone, NEW l \in Line, InsertRow(l)
    PROVE  IInv'
<1>0. PICK r \in Row : r = job[l].cur /\ r # None /\ r \in job[l].todo
  BY Parts DEF IInv, TypeOK, InsertRow, Job
<1>p. PICK p \in Peer : p = l[2]
  BY LinkEnds
<1>1. l[1] \in Peer /\ Insert(p, r) /\ net' = Sent(net, p, <<DataOf({r}, FALSE)>>)
  BY <1>0, <1>p, LinkEnds DEF InsertRow
<1>2. Has(l[1], r) /\ heard[r] > 0
  BY <1>0, <1>1, Parts DEF RowsOf, IInv, HeardFirst
<1>3. Deduplicated(r) => /\ Toward[Home[r]][p] = l[1]
                         /\ LinkOf(l) = <<Toward[Home[r]][p], p>>
                         /\ Has(p, r) => LinkOf(l) \in overtaken
  BY <1>0, <1>p, LinkEnds DEF IInv, FreshIsAbsent
<1>o. UNCHANGED <<linkVars, faults>> /\ overtaken' = overtaken
  BY DEF InsertRow, linkVars
<1>4. Has(Toward[Home[r]][p], r)
  <2>1. CASE Has(p, r)
    BY <1>0, <1>p, <2>1 DEF IInv, NearestFirst
  <2>2. CASE ~ Has(p, r)
    BY <1>0, <1>p, <1>2, <2>2, ReaderFacesHome
  <2> QED
    BY <2>1, <2>2
<1>5. \A s \in Row : heard'[s] >= heard[s] /\ heard'[s] \in Nat
  BY DEF IInv, TypeOK, InsertRow
<1>6. heard'[r] > 0
  BY <1>2 DEF InsertRow
<1>7. NoDuplicateCopies' /\ NearestFirst' /\ HeardFirst'
  BY <1>1, <1>3, <1>4, <1>5, <1>6, <1>o, DatabaseGrows
<1>8. \A k \in Line : /\ job'[k] \in Job
                      /\ job'[k].cur \in job'[k].todo \cup {None}
                      /\ job'[k].todo \subseteq job[k].todo
                      /\ job'[k].cur # None => k # l /\ job'[k].cur = job[k].cur
  BY Parts DEF IInv, TypeOK, InsertRow, Job
<1>9. FreshIsAbsent'
  <2>1. ASSUME NEW k \in Line, k # l, k[2] = p, job[k].cur = r, Deduplicated(r),
               LinkOf(k) \notin overtaken
        PROVE  FALSE
    <3>1. Toward[Home[r]][p] = k[1]
      BY <1>0, <2>1 DEF IInv, FreshIsAbsent
    <3>2. LinkOf(k) = LinkOf(l)
      BY <1>3, <2>1, <3>1, LinkEnds
    <3>3. ~ Idle(k) /\ ~ Idle(l)
      BY <1>0, <2>1 DEF Idle, NoJob
    <3>4. k[3] = Last(LinkOf(k)) /\ l[3] = Last(LinkOf(l))
      BY <2>1, <3>2, <3>3 DEF Alone
    <3> QED
      BY <1>p, <2>1, <3>2, <3>4, LinkEnds
  <2>2. \A k \in Line : job'[k].cur # None =>
            /\ job'[k].cur = job[k].cur
            /\ ~ (/\ k[2] = p /\ job[k].cur = r /\ Deduplicated(r)
                  /\ LinkOf(k) \notin overtaken)
    BY <1>8, <2>1
  <2> QED
    BY <1>1, <1>o, <2>2, StillFresh
<1>10. /\ \A q \in Peer : RowsOf(q) \subseteq RowsOf(q)'
       /\ db' \in [Peer -> [Row -> 0 .. MaxCopies]]
       /\ r \in RowsOf(p)'
  <2>1. db' = db \/ \E q \in Peer, s \in Row : Insert(q, s)
    BY <1>1
  <2>2. Has(p, r)'
    BY <1>1, InsertChanges DEF IInv
  <2> QED
    BY <2>1, <2>2, RowsGrow DEF IInv, RowsOf, Has
<1>11. /\ net' \in [Line -> Seq(Payload)]
       /\ \A k \in Line : CarriesOnly(net'[k], RowsOf(k[1])')
  <2> DEFINE ms == <<DataOf({r}, FALSE)>>
  <2>1. ms \in Seq(Payload) /\ CarriesOnly(ms, RowsOf(p)')
    BY <1>10, OneRow
  <2>2. net' = Sent(net, p, ms)
    BY <1>1
  <2> HIDE DEF ms
  <2> QED
    BY <1>1, <2>1, <2>2, Parts, InFlight
<1>12. SentIsStored'
  BY <1>8, <1>10, <1>11, Parts, LinkEnds DEF SentIsStored
<1>13. TypeOK'
  <2>1. job' \in [Line -> Job] /\ \A k \in Line : job'[k].cur \in job'[k].todo \cup {None}
    BY <1>8, Parts DEF InsertRow
  <2> QED
    BY <1>10, <1>11, <2>1 DEF IInv, TypeOK, InsertRow, linkVars
<1>14. Turns'
  BY <1>o, LinksStay DEF LinksStep
<1> QED
  BY <1>7, <1>9, <1>12, <1>13, <1>14 DEF IInv

\* What the first half of a row does to the job of the reader.
LEMMA CheckRowJobs ==
    ASSUME IInv, NEW l \in Line, NEW r \in Row, CheckRow(l, r), NEW k \in Line
    PROVE  /\ job'[k] \in Job
           /\ job'[k].cur \in job'[k].todo \cup {None}
           /\ job'[k].todo \subseteq job[k].todo
           /\ \/ job'[k].cur = job[k].cur
              \/ k = l /\ ~ Known(l[2], r) /\ job'[k].cur = r
<1>1. r \in job[l].todo /\ job[l].cur = None
  BY DEF CheckRow, Foremost
<1>2. /\ job[k] \in Job
      /\ job[k].cur \in job[k].todo \cup {None}
      /\ job \in [Line -> Job]
  BY DEF IInv, TypeOK
<1>3. CASE Known(l[2], r)
  <2>1. job' = [job EXCEPT ![l].todo = @ \ {r}]
    BY <1>3 DEF CheckRow
  <2> QED
    BY <1>1, <1>2, <2>1 DEF Job
<1>4. CASE ~ Known(l[2], r)
  <2>1. job' = [job EXCEPT ![l].cur = r]
    BY <1>4 DEF CheckRow
  <2> QED
    BY <1>1, <1>2, <1>4, <2>1 DEF Job
<1> QED
  BY <1>3, <1>4

\* The reader of l looks up the next row.
LEMMA CheckRowStep ==
    ASSUME IInv, NEW l \in Line, NEW r \in Row, CheckRow(l, r)
    PROVE  IInv'
<1>1. l[1] \in Peer /\ l[2] \in Peer
  BY LinkEnds
<1>3. \A k \in Line : /\ job'[k] \in Job
                      /\ job'[k].cur \in job'[k].todo \cup {None}
                      /\ job'[k].todo \subseteq RowsOf(k[1])
  BY CheckRowJobs, Parts
<1>4. job' \in [Line -> Job]
  BY <1>3, Parts DEF CheckRow
<1>5. net' = net \/ (Known(l[2], r) /\ TableOf[r] = "telemetry"
                     /\ net' = Sent(net, l[2], <<DataOf({r}, FALSE)>>))
  BY DEF CheckRow, ReportsMerge
<1>6. /\ net' \in [Line -> Seq(Payload)]
      /\ SentIsStored' /\ NoDuplicateCopies' /\ NearestFirst' /\ HeardFirst'
  <2> UNCHANGED <<db, heard, overtaken>>
    BY DEF CheckRow, linkVars
  <2>1. CASE net' = net
    <3>1. <<>> \in Seq(Payload) /\ CarriesOnly(<<>>, RowsOf(l[2]))
      BY DEF CarriesOnly
    <3> QED
      BY <1>1, <1>3, <1>4, <2>1, <3>1, Parts, Broadcast
  <2>2. CASE Known(l[2], r) /\ TableOf[r] = "telemetry"
               /\ net' = Sent(net, l[2], <<DataOf({r}, FALSE)>>)
    <3> DEFINE ms == <<DataOf({r}, FALSE)>>
    <3>1. r \in RowsOf(l[2])
      BY <2>2 DEF Known, RowsOf
    <3>2. ms \in Seq(Payload) /\ CarriesOnly(ms, RowsOf(l[2])) /\ net' = Sent(net, l[2], ms)
      BY <1>1, <2>2, <3>1, OneRow
    <3> HIDE DEF ms
    <3> QED
      BY <1>1, <1>3, <1>4, <3>2, Parts, Broadcast
  <2> QED
    BY <1>5, <2>1, <2>2
<1>7. FreshIsAbsent'
  <2>1. ASSUME NEW k \in Line, NEW s, s = job'[k].cur, s # None, Deduplicated(s)
        PROVE  /\ Toward[Home[s]][k[2]] = k[1]
               /\ LinkOf(k) \notin overtaken => ~ Has(k[2], s)
    <3>1. CASE s = job[k].cur
      BY <2>1, <3>1 DEF IInv, FreshIsAbsent
    <3>2. CASE s # job[k].cur
      <4>1. k = l /\ s = r /\ ~ Known(l[2], r)
        BY <2>1, <3>2, CheckRowJobs
      <4>2. ~ Has(l[2], r) /\ r \in job[l].todo
        BY <2>1, <4>1 DEF Known, Deduplicated, CheckRow, Foremost
      <4> QED
        BY <4>1, <4>2, ReaderFacesHome
    <3> QED
      BY <3>1, <3>2
  <2> QED
    BY <2>1 DEF FreshIsAbsent, Has, Deduplicated, CheckRow, linkVars
<1>8. LinksStep
  BY LinksStay DEF CheckRow
<1>9. TypeOK'
  BY <1>3, <1>4, <1>6, <1>8 DEF IInv, TypeOK, CheckRow, LinksStep
<1> QED
  BY <1>6, <1>7, <1>8, <1>9 DEF IInv, LinksStep

\* A step that leaves the database alone and sends rows its peer has.
LEMMA SendStep ==
    ASSUME IInv, NEW n \in [Line -> Seq(Payload)],
           \A l \in Line : CarriesOnly(n[l], RowsOf(l[1])),
           NEW p \in Peer, NEW ms \in Seq(Payload), CarriesOnly(ms, RowsOf(p)),
           net' = Sent(n, p, ms) \/ net' = n, UNCHANGED <<db, heard>>,
           job' \in [Line -> Job],
           \A l \in Line : /\ job'[l].todo \subseteq RowsOf(l[1])
                           /\ job'[l].cur \in job'[l].todo \cup {None}
                           /\ job'[l].cur = None \/ job'[l].cur = job[l].cur,
           seen' \in [Peer -> SUBSET {<<Sender[s], PacketId[s]>> : s \in Row}],
           LinksStep, syncs' \in 0 .. MaxSyncs, faults' \in 0 .. MaxFaults
    PROVE  IInv'
<1>1. /\ net' \in [Line -> Seq(Payload)]
      /\ SentIsStored' /\ NoDuplicateCopies' /\ NearestFirst' /\ HeardFirst'
  BY Broadcast DEF LinksStep
<1>2. TypeOK'
  BY <1>1 DEF IInv, TypeOK, LinksStep
<1>3. FreshIsAbsent'
  BY DEF IInv, FreshIsAbsent, Has, Deduplicated, LinksStep
<1> QED
  BY <1>1, <1>2, <1>3 DEF IInv, LinksStep

\* What the readers' jobs satisfy when none of them changes.
LEMMA JobsStay ==
    ASSUME IInv, UNCHANGED job
    PROVE  /\ job' \in [Line -> Job]
           /\ \A l \in Line : /\ job'[l].todo \subseteq RowsOf(l[1])
                              /\ job'[l].cur \in job'[l].todo \cup {None}
                              /\ job'[l].cur = None \/ job'[l].cur = job[l].cur
BY Parts DEF IInv, TypeOK

\* The queue of l once its head is read.
LEMMA ReadParts ==
    ASSUME IInv, NEW l \in Line, net[l] # <<>>
    PROVE  /\ Read(l) \in [Line -> Seq(Payload)]
           /\ \A k \in Line : CarriesOnly(Read(l)[k], RowsOf(k[1]))
           /\ Head(net[l]) \in Payload
           /\ Head(net[l]).type = "data" => Head(net[l]).rows \subseteq RowsOf(l[1])
<1> DEFINE D == [q \in Peer |-> RowsOf(q)]
<1>1. D \in [Peer -> SUBSET Row] /\ \A q \in Peer : D[q] = RowsOf(q)
  BY DEF RowsOf
<1>2. \A k \in Line : k[1] \in Peer
  BY LinkEnds
<1>3. \A k \in Line : CarriesOnly(net[k], D[k[1]])
  BY <1>1, <1>2, Parts
<1> HIDE DEF D
<1>4. net \in [Line -> Seq(Payload)]
  BY Parts
<1>5. /\ Read(l) \in [Line -> Seq(Payload)]
      /\ \A k \in Line : CarriesOnly(Read(l)[k], D[k[1]])
      /\ Head(net[l]) \in Payload
      /\ Head(net[l]).type = "data" => Head(net[l]).rows \subseteq D[l[1]]
  BY <1>1, <1>3, <1>4, ReadKeeps
<1> QED
  BY <1>1, <1>2, <1>5

LEMMA HandleInventoryStep ==
    ASSUME IInv, NEW l \in Line, HandleInventory(l)
    PROVE  IInv'
<1> DEFINE p == l[2]
           remote == Head(net[l]).ts
<1>1. p \in Peer /\ net[l] # <<>>
  BY LinkEnds DEF HandleInventory, Arrived
<1>2. PICK ask \in {<<>>, <<RequestOf(p)>>}, answer \in Reply(p, remote) \cup {<<>>} :
          net' = Sent(Read(l), p, ask \o answer)
  BY DEF HandleInventory
<1>3. ask \in Seq(Payload) /\ CarriesOnly(ask, RowsOf(p))
  BY <1>1, <1>2, NoRows
<1>4. answer \in Seq(Payload) /\ CarriesOnly(answer, RowsOf(p))
  BY <1>1, <1>2, NoRows, ReplyCarries
<1>5. ask \o answer \in Seq(Payload) /\ CarriesOnly(ask \o answer, RowsOf(p))
  BY <1>3, <1>4, CarriesAppend
<1>6. UNCHANGED <<db, seen, linkVars, job, heard, syncs, faults>>
  BY DEF HandleInventory
<1>7. /\ seen' \in [Peer -> SUBSET {<<Sender[s], PacketId[s]>> : s \in Row}]
      /\ LinksStep /\ syncs' \in 0 .. MaxSyncs /\ faults' \in 0 .. MaxFaults
  BY <1>6, LinksStay DEF IInv, TypeOK
<1> HIDE DEF p
<1> QED
  BY <1>1, <1>2, <1>5, <1>6, <1>7, ReadParts, JobsStay, SendStep

LEMMA HandleRequestStep ==
    ASSUME IInv, NEW l \in Line, HandleRequest(l)
    PROVE  IInv'
<1> DEFINE p == l[2]
<1>1. p \in Peer /\ net[l] # <<>>
  BY LinkEnds DEF HandleRequest, Arrived
<1>2. PICK answer \in Reply(p, Head(net[l]).ts) : net' = Sent(Read(l), p, answer)
  BY DEF HandleRequest
<1>3. answer \in Seq(Payload) /\ CarriesOnly(answer, RowsOf(p))
  BY <1>1, ReplyCarries
<1>4. UNCHANGED <<db, seen, linkVars, job, heard, syncs, faults>>
  BY DEF HandleRequest
<1>5. /\ seen' \in [Peer -> SUBSET {<<Sender[s], PacketId[s]>> : s \in Row}]
      /\ LinksStep /\ syncs' \in 0 .. MaxSyncs /\ faults' \in 0 .. MaxFaults
  BY <1>4, LinksStay DEF IInv, TypeOK
<1> HIDE DEF p
<1> QED
  BY <1>1, <1>2, <1>3, <1>4, <1>5, ReadParts, JobsStay, SendStep

LEMMA InitiateSyncStep ==
    ASSUME IInv, NEW p \in Peer, InitiateSync(p)
    PROVE  IInv'
<1>1. <<InventoryOf(p)>> \in Seq(Payload) /\ CarriesOnly(<<InventoryOf(p)>>, RowsOf(p))
  BY NoRows
<1>2. net' = Sent(net, p, <<InventoryOf(p)>>)
      /\ UNCHANGED <<db, seen, linkVars, job, heard, faults>>
  BY DEF InitiateSync
<1>3. /\ seen' \in [Peer -> SUBSET {<<Sender[s], PacketId[s]>> : s \in Row}]
      /\ LinksStep /\ syncs' \in 0 .. MaxSyncs /\ faults' \in 0 .. MaxFaults
  BY DbSyncAssumption, LinksStay DEF IInv, TypeOK, InitiateSync
<1> QED
  BY <1>1, <1>2, <1>3, Parts, JobsStay, SendStep

LEMMA BeginDataStep ==
    ASSUME IInv, NEW l \in Line, BeginData(l)
    PROVE  IInv'
<1>1. l[2] \in Peer /\ net[l] # <<>> /\ Head(net[l]).type = "data"
  BY LinkEnds DEF BeginData, Arrived
<1>2. /\ Head(net[l]).rows \in SUBSET Row
      /\ Head(net[l]).more \in BOOLEAN
      /\ Head(net[l]).rows \subseteq RowsOf(l[1])
  BY <1>1, ReadParts DEF Payload
<1>3. job' = [job EXCEPT ![l] = [todo |-> Head(net[l]).rows, cur |-> None,
                                 more |-> Head(net[l]).more]]
  BY DEF BeginData
<1>4. job' \in [Line -> Job]
  BY <1>2, <1>3, Parts DEF Job
<1>5. \A k \in Line : /\ job'[k].todo \subseteq RowsOf(k[1])
                      /\ job'[k].cur \in job'[k].todo \cup {None}
                      /\ job'[k].cur = None \/ job'[k].cur = job[k].cur
  BY <1>2, <1>3, Parts DEF IInv, TypeOK
<1>6. /\ seen' \in [Peer -> SUBSET {<<Sender[s], PacketId[s]>> : s \in Row}]
      /\ LinksStep /\ syncs' \in 0 .. MaxSyncs /\ faults' \in 0 .. MaxFaults
  BY LinksStay DEF IInv, TypeOK, BeginData
<1>7. net' = Read(l) /\ UNCHANGED <<db, heard>>
  BY DEF BeginData
<1>8. <<>> \in Seq(Payload) /\ CarriesOnly(<<>>, RowsOf(l[2]))
  BY DEF CarriesOnly
<1> QED
  BY <1>1, <1>4, <1>5, <1>6, <1>7, <1>8, ReadParts, SendStep

\* A reader that gives up its job, or returns from it.
LEMMA JobsDropped ==
    ASSUME IInv, NEW M \in SUBSET Line,
           job' = [l \in Line |-> IF l \in M THEN NoJob ELSE job[l]]
    PROVE  /\ job' \in [Line -> Job]
           /\ \A l \in Line : /\ job'[l].todo \subseteq RowsOf(l[1])
                              /\ job'[l].cur \in job'[l].todo \cup {None}
                              /\ job'[l].cur = None \/ job'[l].cur = job[l].cur
BY Parts DEF IInv, TypeOK, NoJob, Job

LEMMA FinishDataStep ==
    ASSUME IInv, NEW l \in Line, FinishData(l)
    PROVE  IInv'
<1>1. l[2] \in Peer
  BY LinkEnds
<1>2. <<InventoryOf(l[2])>> \in Seq(Payload)
      /\ CarriesOnly(<<InventoryOf(l[2])>>, RowsOf(l[2]))
  BY <1>1, NoRows
<1>3. job' = [k \in Line |-> IF k \in {l} THEN NoJob ELSE job[k]]
  BY Parts DEF FinishData
<1>4. /\ net' = Sent(net, l[2], <<InventoryOf(l[2])>>)
      /\ UNCHANGED <<db, seen, linkVars, heard, syncs, faults>>
  BY DEF FinishData
<1>5. /\ seen' \in [Peer -> SUBSET {<<Sender[s], PacketId[s]>> : s \in Row}]
      /\ LinksStep /\ syncs' \in 0 .. MaxSyncs /\ faults' \in 0 .. MaxFaults
  BY <1>4, LinksStay DEF IInv, TypeOK
<1>6. /\ job' \in [Line -> Job]
      /\ \A k \in Line : /\ job'[k].todo \subseteq RowsOf(k[1])
                         /\ job'[k].cur \in job'[k].todo \cup {None}
                         /\ job'[k].cur = None \/ job'[k].cur = job[k].cur
  BY <1>3, JobsDropped
<1> QED
  BY <1>1, <1>2, <1>4, <1>5, <1>6, Parts, SendStep

\* Emptying queues keeps them well typed and backed.
LEMMA QueuesEmptied ==
    ASSUME IInv, NEW M \in SUBSET Line
    PROVE  LET n == [l \in Line |-> IF l \in M THEN <<>> ELSE net[l]]
           IN  /\ n \in [Line -> Seq(Payload)]
               /\ \A l \in Line : CarriesOnly(n[l], RowsOf(l[1]))
BY Parts DEF CarriesOnly

\* Breaking links, which is a fault.
LEMMA LinksBreak ==
    ASSUME IInv, NEW B, Break(B), faults' = faults + 1, faults < MaxFaults,
           overtaken' = overtaken
    PROVE  LinksStep
<1>1. turn \in [Link -> 0 .. MaxFaults] /\ faults \in Nat /\ MaxFaults \in Nat
  BY DbSyncAssumption DEF IInv, TypeOK
<1>2. \A x \in Link : turn'[x] <= faults' /\ turn'[x] \in 0 .. MaxFaults
  BY <1>1 DEF IInv, Turns, Break
<1> QED
  BY <1>2 DEF LinksStep, Turns, Break, IInv, TypeOK

LEMMA CutStep ==
    ASSUME IInv, NEW p \in Peer, NEW q \in Peer, Cut(p, q)
    PROVE  IInv'
<1>1. UNCHANGED <<db, seen, net, job, heard, syncs>>
  BY DEF Cut
<1>2. LinksStep
  BY LinksBreak DEF Cut
<1>3. /\ seen' \in [Peer -> SUBSET {<<Sender[s], PacketId[s]>> : s \in Row}]
      /\ syncs' \in 0 .. MaxSyncs /\ faults' \in 0 .. MaxFaults
  BY DbSyncAssumption DEF IInv, TypeOK, Cut
<1>4. <<>> \in Seq(Payload) /\ CarriesOnly(<<>>, RowsOf(p))
  BY DEF CarriesOnly
<1> QED
  BY <1>1, <1>2, <1>3, <1>4, Parts, JobsStay, SendStep

LEMMA LoseStep ==
    ASSUME IInv, NEW l \in Line, Lose(l)
    PROVE  IInv'
<1> DEFINE M == {l}
           n == [k \in Line |-> IF k \in M THEN <<>> ELSE net[k]]
<1>0. M \in SUBSET Line
  OBVIOUS
<1>1. n \in [Line -> Seq(Payload)] /\ \A k \in Line : CarriesOnly(n[k], RowsOf(k[1]))
  <2> HIDE DEF M
  <2> QED
    BY <1>0, QueuesEmptied
<1>2. net' = n /\ UNCHANGED <<db, seen, linkVars, job, heard, syncs, faults>>
  BY Parts DEF Lose
<1>3. /\ seen' \in [Peer -> SUBSET {<<Sender[s], PacketId[s]>> : s \in Row}]
      /\ LinksStep /\ syncs' \in 0 .. MaxSyncs /\ faults' \in 0 .. MaxFaults
  BY <1>2, LinksStay DEF IInv, TypeOK
<1>4. PICK p \in Peer : p = l[1]
  BY LinkEnds
<1>5. <<>> \in Seq(Payload) /\ CarriesOnly(<<>>, RowsOf(p))
  BY DEF CarriesOnly
<1> HIDE DEF n
<1> QED
  BY <1>1, <1>2, <1>3, <1>5, JobsStay, SendStep

LEMMA ConnectStep ==
    ASSUME IInv, NEW p \in Peer, NEW q \in Peer, Connect(p, q)
    PROVE  IInv'
<1>1. UNCHANGED <<db, seen, turn, net, job, heard, syncs, faults>>
  BY DEF Connect
<1>2. /\ seen' \in [Peer -> SUBSET {<<Sender[s], PacketId[s]>> : s \in Row}]
      /\ syncs' \in 0 .. MaxSyncs /\ faults' \in 0 .. MaxFaults
  BY <1>1 DEF IInv, TypeOK
<1>3. LinksStep
  BY DbSyncAssumption DEF IInv, TypeOK, Turns, Connect, Edge, LinksStep
<1>4. <<>> \in Seq(Payload) /\ CarriesOnly(<<>>, RowsOf(p))
  BY DEF CarriesOnly
<1> QED
  BY <1>1, <1>2, <1>3, <1>4, Parts, JobsStay, SendStep

LEMMA RestartStep ==
    ASSUME IInv, NEW p \in Peer, Restart(p)
    PROVE  IInv'
<1> DEFINE J == {l \in Line : l[2] = p}
           n == [l \in Line |-> IF l \in J THEN <<>> ELSE net[l]]
<1>1. n \in [Line -> Seq(Payload)] /\ \A l \in Line : CarriesOnly(n[l], RowsOf(l[1]))
  BY QueuesEmptied
<1>2. net' = n /\ UNCHANGED <<db, heard, syncs>>
  BY DEF Restart
<1>3. job' = [l \in Line |-> IF l \in J THEN NoJob ELSE job[l]]
  BY DEF Restart
<1>4. LinksStep
  BY LinksBreak DEF Restart
<1>5. /\ seen' \in [Peer -> SUBSET {<<Sender[s], PacketId[s]>> : s \in Row}]
      /\ syncs' \in 0 .. MaxSyncs /\ faults' \in 0 .. MaxFaults
  BY DbSyncAssumption DEF IInv, TypeOK, Restart
<1>6. <<>> \in Seq(Payload) /\ CarriesOnly(<<>>, RowsOf(p))
  BY DEF CarriesOnly
<1>7. J \in SUBSET Line
  OBVIOUS
<1> HIDE DEF n, J
<1> QED
  BY <1>1, <1>2, <1>3, <1>4, <1>5, <1>6, <1>7, JobsDropped, SendStep

LEMMA HearTextStep ==
    ASSUME IInv, NEW p \in Peer, NEW r \in Row, HearText(p, r)
    PROVE  IInv'
<1>1. ~ Has(p, r)
  BY DEF HearText, IInv, HeardFirst
<1>2. seen' \in [Peer -> SUBSET {<<Sender[s], PacketId[s]>> : s \in Row}]
  BY DEF HearText, IInv, TypeOK
<1> QED
  BY <1>1, <1>2, RadioStep DEF HearText

LEMMA SendTextStep ==
    ASSUME IInv, NEW p \in Peer, NEW r \in Row, NEW virtual \in BOOLEAN,
           SendText(p, r, virtual)
    PROVE  IInv'
<1>1. ~ Has(p, r)
  BY DEF SendText, IInv, HeardFirst
<1>2. seen' \in [Peer -> SUBSET {<<Sender[s], PacketId[s]>> : s \in Row}]
  BY DEF SendText, IInv, TypeOK
<1> QED
  BY <1>1, <1>2, RadioStep DEF SendText

LEMMA HearSampleStep ==
    ASSUME IInv, NEW p \in Peer, NEW r \in Row, HearSample(p, r)
    PROVE  IInv'
<1>1. Known(p, r) <=> Has(p, r)
  BY DEF HearSample, Known
<1>2. seen' \in [Peer -> SUBSET {<<Sender[s], PacketId[s]>> : s \in Row}]
  BY DEF HearSample, IInv, TypeOK
<1> QED
  BY <1>1, <1>2, RadioStep DEF HearSample

-----------------------------------------------------------------------------
(* The readers of one link *)

LEMMA InitAlone == Init => Alone
BY DEF Init, Alone, Idle

\* Only the readers in busy, which had something to handle, take on more; the
\* others finish, lose or keep what they have.
LEMMA AloneKept ==
    ASSUME Alone, overtaken \subseteq overtaken',
           \A l \in Line : Last(LinkOf(l))' = Last(LinkOf(l)),
           NEW busy, \A l \in Line \cap busy : ~ (Idle(l) /\ net[l] = <<>>),
           \A l \in Line \ busy :
              /\ job'[l] = job[l] \/ job'[l] = NoJob
              /\ net'[l] = net[l] \/ net'[l] = <<>> \/ Current(l)
    PROVE  Alone'
<1>1. \A l \in Line : Current(l) => l[3] = Last(LinkOf(l))
  BY DEF Current, Last
<1> QED
  BY <1>1 DEF Alone, Idle, NoJob

\* Nothing happens to the links and no reader works.
LEMMA SendingKeepsAlone ==
    ASSUME IInv, Alone, NEW p \in Peer, NEW ms,
           UNCHANGED <<linkVars, job>>, net' = net \/ net' = Sent(net, p, ms)
    PROVE  Alone'
<1>1. \A l \in Line : net'[l] = net[l] \/ Current(l)
  BY Parts DEF Sent
<1>2. \A l \in Line : Last(LinkOf(l))' = Last(LinkOf(l))
  BY DEF Last, LinkOf, linkVars
<1> DEFINE busy == {}
<1>3. /\ \A l \in Line \cap busy : ~ (Idle(l) /\ net[l] = <<>>)
      /\ \A l \in Line \ busy : l \in Line
  OBVIOUS
<1>4. overtaken \subseteq overtaken' /\ job' = job
  BY DEF linkVars
<1> HIDE DEF busy
<1> QED
  BY <1>1, <1>2, <1>3, <1>4, AloneKept

\* Reader l takes a step of its own.
LEMMA ReaderKeepsAlone ==
    ASSUME IInv, Alone, NEW l \in Line, ~ (Idle(l) /\ net[l] = <<>>),
           UNCHANGED linkVars,
           \A k \in Line \ {l} : /\ job'[k] = job[k]
                                 /\ net'[k] = net[k] \/ Current(k)
    PROVE  Alone'
<1>1. \A k \in Line : Last(LinkOf(k))' = Last(LinkOf(k))
  BY DEF Last, LinkOf, linkVars
<1> QED
  BY <1>1, AloneKept DEF linkVars

LEMMA ReaderStepsAlone ==
    ASSUME IInv, Alone, NEW l \in Line, Reader(l) \/ Lose(l)
    PROVE  Alone'
<1>0. net \in [Line -> Seq(Payload)] /\ job \in [Line -> Job]
  BY Parts
<1>1. \A k \in Line \ {l} : Read(l)[k] = net[k]
  BY <1>0 DEF Read
<1>s. \A ms : \A k \in Line \ {l} :
         /\ Sent(net, l[2], ms)[k] = net[k] \/ Current(k)
         /\ Sent(Read(l), l[2], ms)[k] = net[k] \/ Current(k)
  BY <1>1 DEF Sent
<1>2. CASE HandleInventory(l) \/ HandleRequest(l) \/ BeginData(l)
  <2>1. net[l] # <<>> /\ UNCHANGED linkVars
    BY <1>2 DEF HandleInventory, HandleRequest, BeginData, Arrived
  <2>2. \A k \in Line \ {l} : job'[k] = job[k]
    BY <1>0, <1>2 DEF HandleInventory, HandleRequest, BeginData
  <2>3. (\E ms : net' = Sent(Read(l), l[2], ms)) \/ net' = Read(l)
    BY <1>2 DEF HandleInventory, HandleRequest, BeginData
  <2> QED
    BY <1>1, <1>s, <2>1, <2>2, <2>3, ReaderKeepsAlone
<1>3. CASE InsertRow(l) \/ FinishData(l) \/ \E r \in Row : CheckRow(l, r)
  <2>1. ~ Idle(l) /\ UNCHANGED linkVars
    <3>1. Idle(l) => job[l].todo = {} /\ job[l].cur = None /\ job[l].more = FALSE
      BY DEF Idle, NoJob
    <3>2. InsertRow(l) => job[l].cur # None
      BY DEF InsertRow
    <3>3. FinishData(l) => job[l].more
      BY DEF FinishData
    <3>4. \A r \in Row : CheckRow(l, r) => r \in job[l].todo
      BY DEF CheckRow, Foremost
    <3>5. UNCHANGED linkVars
      BY <1>3 DEF InsertRow, FinishData, CheckRow
    <3> QED
      BY <1>3, <3>1, <3>2, <3>3, <3>4, <3>5
  <2>2. \A k \in Line \ {l} : job'[k] = job[k]
    BY <1>0, <1>3 DEF InsertRow, FinishData, CheckRow
  <2>3. (\E ms : net' = Sent(net, l[2], ms)) \/ net' = net
    BY <1>3 DEF InsertRow, FinishData, CheckRow
  <2> QED
    BY <1>1, <1>s, <2>1, <2>2, <2>3, ReaderKeepsAlone
<1>4. CASE Lose(l)
  BY <1>0, <1>4, ReaderKeepsAlone DEF Lose
<1> QED
  BY <1>2, <1>3, <1>4 DEF Reader

\* A link that breaks keeps its latest connection; one that is made again has
\* a new one, and the readers of its earlier ones are done or it is overtaken.
LEMMA FaultsKeepAlone ==
    ASSUME IInv, Alone, NEW p \in Peer, NEW q \in Peer,
           Cut(p, q) \/ Restart(p) \/ Connect(p, q)
    PROVE  Alone'
<1>0. /\ net \in [Line -> Seq(Payload)] /\ job \in [Line -> Job]
      /\ turn \in [Link -> 0 .. MaxFaults]
  BY Parts DEF IInv, TypeOK
<1>1. ASSUME NEW B, Break(B), NEW x \in Link PROVE Last(x)' = Last(x)
  <2>1. turn[x] \in Int
    BY <1>0
  <2> QED
    BY <1>1, <2>1 DEF Break, Last
<1>2. CASE Cut(p, q)
  <2>1. \A l \in Line : Last(LinkOf(l))' = Last(LinkOf(l))
    BY <1>1, <1>2, LinkEnds DEF Cut, LinkOf
  <2> QED
    <3> DEFINE busy == {}
    <3>1. /\ overtaken \subseteq overtaken'
          /\ \A l \in Line \cap busy : ~ (Idle(l) /\ net[l] = <<>>)
          /\ \A l \in Line \ busy :
             /\ job'[l] = job[l] \/ job'[l] = NoJob
             /\ net'[l] = net[l] \/ net'[l] = <<>> \/ Current(l)
      BY <1>2 DEF Cut
    <3> HIDE DEF busy
    <3> QED
      BY <2>1, <3>1, AloneKept
<1>3. CASE Restart(p)
  <2>1. \A l \in Line : Last(LinkOf(l))' = Last(LinkOf(l))
    BY <1>1, <1>3, LinkEnds DEF Restart, LinkOf
  <2>2. \A l \in Line : /\ job'[l] = job[l] \/ job'[l] = NoJob
                        /\ net'[l] = net[l] \/ net'[l] = <<>>
    BY <1>3 DEF Restart
  <2> QED
    <3> DEFINE busy == {}
    <3>1. /\ overtaken \subseteq overtaken'
          /\ \A l \in Line \cap busy : ~ (Idle(l) /\ net[l] = <<>>)
          /\ \A l \in Line \ busy :
             /\ job'[l] = job[l] \/ job'[l] = NoJob
             /\ net'[l] = net[l] \/ net'[l] = <<>> \/ Current(l)
      BY <1>3, <2>2 DEF Restart
    <3> HIDE DEF busy
    <3> QED
      BY <2>1, <3>1, AloneKept
<1>4. CASE Connect(p, q)
  <2>1. /\ overtaken \subseteq overtaken' /\ up' = up \cup Edge(p, q)
        /\ Done(<<q, p>>) /\ (<<p, q>> \in overtaken' \/ Done(<<p, q>>))
        /\ UNCHANGED <<turn, net, job>>
    BY <1>4 DEF Connect
  <2> SUFFICES ASSUME NEW l \in Line, LinkOf(l) \notin overtaken',
                      l[3] # Last(LinkOf(l))'
               PROVE  Idle(l) /\ net[l] = <<>>
    BY <2>1 DEF Alone, Idle, Last, LinkOf
  <2>2. CASE LinkOf(l) \in Edge(p, q)
    BY <2>1, <2>2 DEF Edge, Done
  <2>3. CASE LinkOf(l) \notin Edge(p, q)
    <3>1. Last(LinkOf(l))' = Last(LinkOf(l))
      BY <2>1, <2>3 DEF Last, LinkOf
    <3> QED
      BY <2>1, <3>1 DEF Alone
  <2> QED
    BY <2>2, <2>3
<1> QED
  BY <1>2, <1>3, <1>4

LEMMA StepAlone ==
    ASSUME IInv, Alone, [Next]_vars
    PROVE  Alone'
<1>1. ASSUME NEW p \in Peer, NEW r \in Row, NEW virtual \in BOOLEAN,
             HearText(p, r) \/ HearSample(p, r) \/ SendText(p, r, virtual)
      PROVE  Alone'
  <2>1. UNCHANGED <<linkVars, job>>
    BY <1>1 DEF HearText, HearSample, SendText
  <2>2. net' = net \/ net' = Sent(net, p, <<DataOf({r}, FALSE)>>)
    BY <1>1 DEF HearText, HearSample, SendText
  <2> QED
    BY <2>1, <2>2, SendingKeepsAlone
<1>2. ASSUME NEW p \in Peer, InitiateSync(p) PROVE Alone'
  BY <1>2, SendingKeepsAlone DEF InitiateSync
<1>3. CASE UNCHANGED vars
  BY <1>3 DEF vars, linkVars, Alone, Idle, Last, LinkOf
<1> QED
  BY <1>1, <1>2, <1>3, ReaderStepsAlone, FaultsKeepAlone DEF Next

\* The invariant is inductive: one step per action.
LEMMA Inductive == IInv /\ Alone /\ [Next]_vars => IInv'
<1> SUFFICES ASSUME IInv, Alone, [Next]_vars PROVE IInv'
  OBVIOUS
<1>1. ASSUME NEW p \in Peer, NEW r \in Row, HearText(p, r) PROVE IInv'
  BY <1>1, HearTextStep
<1>2. ASSUME NEW p \in Peer, NEW r \in Row, HearSample(p, r) PROVE IInv'
  BY <1>2, HearSampleStep
<1>3. ASSUME NEW p \in Peer, NEW r \in Row, NEW virtual \in BOOLEAN,
             SendText(p, r, virtual)
      PROVE  IInv'
  BY <1>3, SendTextStep
<1>4. ASSUME NEW p \in Peer, InitiateSync(p) PROVE IInv'
  BY <1>4, InitiateSyncStep
<1>5. ASSUME NEW p \in Peer, Restart(p) PROVE IInv'
  BY <1>5, RestartStep
<1>6. ASSUME NEW l \in Line, Reader(l) PROVE IInv'
  <2>1. CASE HandleInventory(l)
    BY <2>1, HandleInventoryStep
  <2>2. CASE HandleRequest(l)
    BY <2>2, HandleRequestStep
  <2>3. CASE BeginData(l)
    BY <2>3, BeginDataStep
  <2>4. ASSUME NEW r \in Row, CheckRow(l, r) PROVE IInv'
    BY <2>4, CheckRowStep
  <2>5. CASE InsertRow(l)
    BY <2>5, InsertRowStep
  <2>6. CASE FinishData(l)
    BY <2>6, FinishDataStep
  <2> QED
    BY <1>6, <2>1, <2>2, <2>3, <2>4, <2>5, <2>6 DEF Reader
<1>7. ASSUME NEW p \in Peer, NEW q \in Peer, Cut(p, q) PROVE IInv'
  BY <1>7, CutStep
<1>8. ASSUME NEW p \in Peer, NEW q \in Peer, Connect(p, q) PROVE IInv'
  BY <1>8, ConnectStep
<1>10. ASSUME NEW l \in Line, Lose(l) PROVE IInv'
  BY <1>10, LoseStep
<1>9. CASE UNCHANGED vars
  BY <1>9 DEF vars, linkVars, Turns, LinkOf, IInv, TypeOK, NoDuplicateCopies, NearestFirst, SentIsStored,
              HeardFirst, FreshIsAbsent, RowsOf, Has, CarriesOnly, Deduplicated
<1> QED
  BY <1>1, <1>2, <1>3, <1>4, <1>5, <1>6, <1>7, <1>8, <1>9, <1>10 DEF Next

LEMMA Invariance == Spec => [](IInv /\ Alone)
<1>1. IInv /\ Alone /\ [Next]_vars => (IInv /\ Alone)'
  BY Inductive, StepAlone
<1> QED
  BY InitInv, InitAlone, <1>1, PTL DEF Spec

-----------------------------------------------------------------------------
(* The theorems *)

\* Types are kept: counts stay in range, queues hold payloads, and a reader
\* works on a row of its own payload.
THEOREM TypesKept == Spec => []TypeOK
<1>1. IInv => TypeOK
  BY DEF IInv
<1> QED
  BY Invariance, <1>1, PTL

\* In a tree, a deduplicated row is stored at most once by each peer, however
\* the readers' checks and insertions interleave and whatever breaks, unless
\* the peer serves the link it comes over and that link was connected again
\* while the reader of an earlier connection was not done.
THEOREM NoDuplicates == Spec => []NoDuplicateCopies
<1>1. IInv => NoDuplicateCopies
  BY DEF IInv
<1> QED
  BY Invariance, <1>1, PTL

\* In a tree, rows spread outwards from their home without gaps.
THEOREM SpreadsOutward == Spec => []NearestFirst
<1>1. IInv => NearestFirst
  BY DEF IInv
<1> QED
  BY Invariance, <1>1, PTL

\* What is sent is stored where it was sent from.
THEOREM BackedByStore == Spec => []SentIsStored
<1>1. IInv => SentIsStored
  BY DEF IInv
<1> QED
  BY Invariance, <1>1, PTL

-----------------------------------------------------------------------------
(* Refinement of Gossip *)

\* The databases, seen as sets, after an insertion.
LEMMA StoreGrows ==
    ASSUME TypeOK, NEW p \in Peer, NEW r \in Row, Insert(p, r)
    PROVE  Stored' = [Stored EXCEPT ![p] = @ \cup {r}]
<1>1. \A q \in Peer, s \in Row : Has(q, s)' <=> (Has(q, s) \/ (q = p /\ s = r))
  BY InsertChanges
<1>2. \A q \in Peer : RowsOf(q)' = IF q = p THEN RowsOf(q) \cup {r} ELSE RowsOf(q)
  BY <1>1 DEF RowsOf
<1> QED
  BY <1>2 DEF Stored

LEMMA StoreStays == UNCHANGED db => UNCHANGED Stored
BY DEF Stored, RowsOf, Has

\* An insertion by the radio of the row's home is a Produce, or a stutter.
LEMMA RadioRefines ==
    ASSUME IInv, NEW p \in Peer, NEW r \in Row, Home[r] = p,
           Insert(p, r) \/ UNCHANGED db
    PROVE  [G!GNext]_Stored
<1>1. CASE UNCHANGED db
  BY <1>1, StoreStays
<1>2. CASE Insert(p, r)
  <2>1. Stored' = [Stored EXCEPT ![p] = @ \cup {r}]
    BY <1>2, StoreGrows DEF IInv
  <2>2. CASE r \notin Stored[p]
    BY <2>1, <2>2 DEF G!GNext, G!Produce
  <2>3. CASE r \in Stored[p]
    <3>1. Stored = [q \in Peer |-> Stored[q]] /\ Stored[p] \cup {r} = Stored[p]
      BY <2>3 DEF Stored
    <3>2. [Stored EXCEPT ![p] = @ \cup {r}] = Stored
      BY <3>1
    <3> QED
      BY <2>1, <3>2
  <2> QED
    BY <2>2, <2>3
<1> QED
  BY <1>1, <1>2

\* A reader's insertion is a Copy over the link it reads, or a stutter.
LEMMA InsertRowRefines ==
    ASSUME IInv, NEW l \in Line, InsertRow(l)
    PROVE  [G!GNext]_Stored
<1>1. PICK r \in Row : r = job[l].cur /\ r \in job[l].todo
  BY Parts DEF IInv, TypeOK, InsertRow, Job
<1>2. PICK p \in Peer, q \in Peer : p = l[2] /\ q = l[1] /\ <<q, p>> \in Link
  BY LinkEnds
<1>3. r \in Stored[q]
  BY <1>1, <1>2, Parts DEF Stored
<1>4. Insert(p, r)
  BY <1>1, <1>2 DEF InsertRow
<1>5. Stored' = [Stored EXCEPT ![p] = @ \cup {r}]
  BY <1>4, StoreGrows DEF IInv
<1>6. CASE r \in Stored[p]
  BY <1>5, <1>6 DEF Stored
<1>7. CASE r \notin Stored[p]
  <2>1. G!Copy(q, p, r)
    BY <1>2, <1>3, <1>5, <1>7 DEF G!Copy
  <2> QED
    BY <2>1 DEF G!GNext
<1> QED
  BY <1>6, <1>7

\* Every step of DbSync is a step of Gossip or a stutter.
LEMMA StepRefines ==
    ASSUME IInv, [Next]_vars
    PROVE  [G!GNext]_Stored
<1>1. ASSUME NEW p \in Peer, NEW r \in Row, HearText(p, r) PROVE [G!GNext]_Stored
  BY <1>1, RadioRefines DEF HearText
<1>2. ASSUME NEW p \in Peer, NEW r \in Row, HearSample(p, r) PROVE [G!GNext]_Stored
  BY <1>2, RadioRefines DEF HearSample
<1>3. ASSUME NEW p \in Peer, NEW r \in Row, NEW virtual \in BOOLEAN,
             SendText(p, r, virtual)
      PROVE  [G!GNext]_Stored
  BY <1>3, RadioRefines DEF SendText
<1>4. ASSUME NEW l \in Line, InsertRow(l) PROVE [G!GNext]_Stored
  BY <1>4, InsertRowRefines
<1>5. CASE UNCHANGED db
  BY <1>5, StoreStays
<1>6. ASSUME NEW l \in Line, Reader(l), ~ InsertRow(l) PROVE UNCHANGED db
  BY <1>6 DEF Reader, HandleInventory, HandleRequest, BeginData, CheckRow, FinishData
<1>7. ASSUME NEW p \in Peer, InitiateSync(p) \/ Restart(p) PROVE UNCHANGED db
  BY <1>7 DEF InitiateSync, Restart
<1>8. ASSUME NEW p \in Peer, NEW q \in Peer, Cut(p, q) \/ Connect(p, q)
      PROVE  UNCHANGED db
  BY <1>8 DEF Cut, Connect
<1>9. UNCHANGED vars => UNCHANGED db
  BY DEF vars
<1>10. ASSUME NEW l \in Line, Lose(l) PROVE UNCHANGED db
  BY <1>10 DEF Lose
<1> QED
  BY <1>10, <1>1, <1>2, <1>3, <1>4, <1>5, <1>6, <1>7, <1>8, <1>9 DEF Next

LEMMA InitRefines == Init => G!GInit
<1> SUFFICES ASSUME Init PROVE G!GInit
  OBVIOUS
<1>1. \A p \in Peer : RowsOf(p) = {}
  BY DEF Init, RowsOf, Has
<1> QED
  BY <1>1 DEF G!GInit, Stored

\* In a tree, synchronisation never invents, alters or loses a row, and moves
\* each one over one link at a time.
THEOREM Refinement == Spec => ImplementsGossip
<1>1. IInv /\ [Next]_vars => [G!GNext]_Stored
  BY StepRefines
<1> QED
  BY InitRefines, Invariance, <1>1, PTL DEF Spec, ImplementsGossip, G!GSpec
=============================================================================
