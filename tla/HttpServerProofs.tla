-------------------------- MODULE HttpServerProofs --------------------------
(***************************************************************************)
(* Theorems of HttpServer, for every set of browsers, requests, reading    *)
(* threads and events, and all limits.                                     *)
(***************************************************************************)
EXTENDS HttpServer, FiniteSetTheorems, FunctionTheorems, SequenceTheorems, TLAPS

-----------------------------------------------------------------------------
(* What a step may find *)

\* What is written: frames, or what a response and a stream begin with.
Piece == [from : Thread \cup {NoOne}, n : Nat,
          is : {"data", "activity", "link", "beat", "header", "answer"}]
Unit == [of : Piece, part : {1, 2}]
Wanted == {"in", "out", "err"}

NetTypes ==
    /\ kind \in [Client -> Kinds]
    /\ peer \in [Client -> {"away", "waiting", "open", "slow", "gone"}]
    /\ sent \in [Client -> Nat] /\ input \in [Client -> Nat]
    /\ \A c \in Client : input[c] <= sent[c] /\ sent[c] <= Pieces(kind[c]) + MaxTurns
    /\ events \in Nat /\ turns \in Nat

ConnTypes ==
    /\ running \in BOOLEAN /\ stopping \in {"no", "join", "done"}
    /\ connMu \in Thread \cup {NoOne} /\ outMu \in [Client -> BOOLEAN]
    /\ conns \in Seq(Client) /\ IsInjective(conns)
    /\ state \in [Client -> {"None", "ReadingRequest", "WritingResponse", Streaming,
                             "Closed"}]
    /\ out \in [Client -> Seq(Unit)] /\ got \in [Client -> Seq(Unit)]
    /\ written \in [Client -> Nat]
    /\ \A c \in Client : Len(out[c]) <= OutLimit + 1 /\ written[c] <= Len(out[c])

Busy == {"serve", "handler", "upgrade", "upgraded", "send", "account"}

WorkerTypes ==
    /\ w \in [pc : {"top", "poll", "accept", "end"} \cup Busy, todo : Seq(Client),
              ready : [Client -> SUBSET Wanted], chunk : Seq(Unit), took : Nat]
    /\ w.pc \in Busy => w.todo # <<>>

Passing == [pc : {"none", "lock", "visit", "append"}, left : Seq(Client),
            frame : Frame \cup {NoOne}]

CastTypes ==
    /\ cast \in [Thread -> Passing]
    /\ due \in [Thread -> Seq({"data", "activity", "link", "beat"})]
    /\ made \in [Thread -> Nat]
    /\ recent \in Seq(Frame) /\ Len(recent) <= KeepRecent /\ links \in SUBSET Frame

Types == NetTypes /\ ConnTypes /\ WorkerTypes /\ CastTypes

-----------------------------------------------------------------------------
(* The invariant *)

\* The frame a thread broadcasts is the last it made; the connections it has
\* still to visit are distinct, and it adds to streams only.
Casts ==
    \A t \in Thread :
        /\ cast[t].pc # "none" => cast[t].frame \in Frame /\ cast[t].frame.from = t
                                  /\ cast[t].frame.n = made[t]
        /\ cast[t].pc \in {"visit", "append"} => cast[t].left # <<>> /\ IsInjective(cast[t].left)
        /\ cast[t].pc = "append" => state[Head(cast[t].left)] \in {Streaming, "Closed"}

\* A browser that has not been accepted has nothing here; a connection that is
\* open is listed, and has been sent nothing while its request is being read.
Opened ==
    \A c \in Client :
        /\ peer[c] \in {"away", "waiting"} => state[c] = "None"
        /\ state[c] = "None" => ~ Listed(c)
        /\ state[c] \notin {"None", "Closed"} => Listed(c)
        /\ state[c] \in {"None", "ReadingRequest"} =>
               got[c] = <<>> /\ (out[c] = <<>> \/ (w.pc = "upgraded" /\ Here = c))

\* The worker, between two steps: it serves connections that were accepted, a
\* handler runs for a request that is still being read, and the chunk it sends
\* is what comes next of the output, though more may have been added behind.
Serving ==
    /\ \A i \in DOMAIN w.todo : state[w.todo[i]] # "None"
    /\ w.pc \in {"handler", "upgrade"} => state[Here] = "ReadingRequest"
    /\ w.pc = "upgraded" => /\ state[Here] = "ReadingRequest"
                            /\ out[Here] = <<Header>> /\ written[Here] = 0
    /\ w.pc \in {"send", "account"} =>
           \A i \in DOMAIN w.chunk : /\ written[Here] + i <= Len(out[Here])
                                     /\ w.chunk[i] = out[Here][written[Here] + i]
    /\ w.pc = "account" => w.took <= Len(w.chunk)

\* The worker ends before stop() closes the connections that are left.
Ends ==
    /\ stopping # "no" => ~ running
    /\ w.pc = "end" => ~ running
    /\ stopping = "done" => w.pc = "end" /\ \A c \in Client : state[c] \in {"None", "Closed"}

\* Whatever can be seen has been recorded, from before it is broadcast.
IsRecorded(f) ==
    /\ f.is = "activity" => f \in ToSet(recent) \/ Len(recent) = KeepRecent
    /\ f.is = "link" => f \in links

Records ==
    /\ \A t \in Thread : cast[t].pc # "none" => IsRecorded(cast[t].frame)
    /\ \A c \in Client : \A i \in DOMAIN out[c] : IsRecorded(out[c][i].of)

\* No connection has a frame that is younger than the last one made, and those
\* still to be visited have not got that either.
Unseen(t, c) ==
    \/ cast[t].pc = "lock"
    \/ cast[t].pc \in {"visit", "append"} /\ \E i \in DOMAIN cast[t].left : cast[t].left[i] = c
Aged(t, c, u) ==
    u.of.from = t => /\ u.of.n <= made[t]
                     /\ Unseen(t, c) => u.of.n < made[t]

Ages ==
    \A t \in Thread, c \in Client :
        /\ \A i \in DOMAIN out[c] : Aged(t, c, out[c][i])
        /\ \A i \in DOMAIN got[c] : Aged(t, c, got[c][i])

StreamsWhole == \A c \in Client : state[c] = Streaming /\ peer[c] # "gone" => WellFormed(Stream(c))

IInv == Types /\ Casts /\ Opened /\ Serving /\ Ends /\ Records /\ Ages /\ StreamsWhole

-----------------------------------------------------------------------------
(* Sequences *)

\* The elements of a sequence over S are in S.
LEMMA ElementsIn == \A S : \A seq \in Seq(S) : \A i \in DOMAIN seq : seq[i] \in S
<1> SUFFICES ASSUME NEW S, NEW seq \in Seq(S), NEW i \in 1 .. Len(seq) PROVE seq[i] \in S
  BY LenProperties
<1> QED
  BY ElementOfSeq

\* The n-th of some places of a sequence: there is one for every n up to their
\* number, since distinct places have a different number of places before them.
LEMMA Ranks ==
    ASSUME NEW m \in Nat, NEW P \in SUBSET (1 .. m)
    PROVE  /\ IsFiniteSet(P) /\ Cardinality(P) \in Nat
           /\ \A n \in 1 .. Cardinality(P) :
                 \E i \in P : Cardinality({j \in P : j <= i}) = n
<1> DEFINE upTo(i) == {j \in P : j <= i}
           rank == [i \in P |-> Cardinality(upTo(i))]
           N == Cardinality(P)
<1>1. IsFiniteSet(P) /\ N \in Nat
  <2>1. IsFiniteSet(1 .. m)
    BY FS_Interval
  <2> QED
    BY <2>1, FS_Subset, FS_CardinalityType
<1>2. \A i \in P : upTo(i) \in SUBSET P /\ IsFiniteSet(upTo(i)) /\ Cardinality(upTo(i)) \in 1 .. N
  <2> SUFFICES ASSUME NEW i \in P
               PROVE  upTo(i) \in SUBSET P /\ IsFiniteSet(upTo(i)) /\ Cardinality(upTo(i)) \in 1 .. N
    OBVIOUS
  <2>1. upTo(i) \in SUBSET P /\ i \in upTo(i)
    OBVIOUS
  <2> HIDE DEF upTo
  <2>2. IsFiniteSet(upTo(i)) /\ Cardinality(upTo(i)) <= N
    BY <1>1, <2>1, FS_Subset
  <2>3. Cardinality(upTo(i)) \in Nat /\ Cardinality(upTo(i)) # 0
    BY <2>1, <2>2, FS_CardinalityType, FS_EmptySet
  <2> QED
    BY <1>1, <2>1, <2>2, <2>3
<1>3. rank \in Injection(P, 1 .. N)
  <2>1. rank \in [P -> 1 .. N]
    BY <1>2
  <2>2. \A i, k \in P : i < k => rank[i] # rank[k]
    <3> SUFFICES ASSUME NEW i \in P, NEW k \in P, i < k, rank[i] = rank[k] PROVE FALSE
      OBVIOUS
    <3>1. upTo(i) \in SUBSET upTo(k) /\ k \in upTo(k) /\ k \notin upTo(i)
      <4>1. \A j \in P : j \in Int
        OBVIOUS
      <4>2. \A j \in P : j <= i => j <= k
        BY <4>1
      <4>3. ~ (k <= i) /\ k <= k
        BY <4>1
      <4> QED
        BY <4>2, <4>3
    <3>2. IsFiniteSet(upTo(k)) /\ Cardinality(upTo(i)) = Cardinality(upTo(k))
      BY <1>2
    <3> HIDE DEF upTo
    <3>3. upTo(i) = upTo(k)
      BY <3>1, <3>2, FS_Subset
    <3> QED
      BY <3>1, <3>3
  <2>3. \A i, k \in P : rank[i] = rank[k] => i = k
    BY <2>2
  <2> HIDE DEF rank
  <2> QED
    BY <2>1, <2>3 DEF Injection, IsInjective
<1>4. IsFiniteSet(1 .. N) /\ Cardinality(1 .. N) = N
  BY <1>1, FS_Interval
<1> HIDE DEF rank, N
<1>5. rank \in Surjection(P, 1 .. N)
  BY <1>1, <1>3, <1>4, FS_Injection DEF N
<1>6. \A n \in 1 .. N : \E i \in P : rank[i] = n
  BY <1>5 DEF Surjection
<1> QED
  BY <1>1, <1>6 DEF rank, N

\* What Kept returns: elements of the sequence that are in S, all of them, and
\* none twice unless the sequence has it twice.
LEMMA KeptIs ==
    ASSUME NEW X, NEW seq \in Seq(X), NEW S
    PROVE  /\ Kept(seq, S) \in Seq(X)
           /\ \A i \in DOMAIN Kept(seq, S) :
                 \E j \in DOMAIN seq : Kept(seq, S)[i] = seq[j] /\ seq[j] \in S
           /\ \A j \in DOMAIN seq :
                 seq[j] \in S => \E i \in DOMAIN Kept(seq, S) : Kept(seq, S)[i] = seq[j]
           /\ IsInjective(seq) => IsInjective(Kept(seq, S))
<1> DEFINE places == {i \in DOMAIN seq : seq[i] \in S}
           upTo(i) == Cardinality({j \in places : j <= i})
           nth(n) == CHOOSE i \in places : upTo(i) = n
           N == Cardinality(places)
           kept == [n \in 1 .. N |-> seq[nth(n)]]
<1>1. Len(seq) \in Nat /\ DOMAIN seq = 1 .. Len(seq) /\ places \in SUBSET (1 .. Len(seq))
  BY LenProperties
<1>2. N \in Nat /\ \A n \in 1 .. N : \E i \in places : upTo(i) = n
  BY <1>1, Ranks
<1>3. Kept(seq, S) = kept
  BY DEF Kept
<1> HIDE DEF N
<1>4. \A n \in 1 .. N : nth(n) \in places /\ upTo(nth(n)) = n
  BY <1>2
<1>5. \A i \in places : upTo(i) \in 1 .. N
  <2> SUFFICES ASSUME NEW i \in places PROVE upTo(i) \in 1 .. N
    OBVIOUS
  <2> DEFINE low == {j \in places : j <= i}
  <2>1. low \in SUBSET places /\ i \in low
    BY <1>1
  <2>2. IsFiniteSet(places)
    BY <1>1, Ranks
  <2> HIDE DEF low
  <2>3. IsFiniteSet(low) /\ Cardinality(low) <= N /\ Cardinality(low) \in Nat /\ Cardinality(low) # 0
    BY <2>1, <2>2, FS_Subset, FS_CardinalityType, FS_EmptySet DEF N
  <2> QED
    BY <1>2, <2>3 DEF low
<1>6. \A i \in places : nth(upTo(i)) = i
  <2> SUFFICES ASSUME NEW i \in places PROVE nth(upTo(i)) = i
    OBVIOUS
  <2> DEFINE k == nth(upTo(i))
             low(n) == {j \in places : j <= n}
  <2>1. k \in places /\ upTo(k) = upTo(i)
    BY <1>4, <1>5
  <2> HIDE DEF k, nth
  <2>2. IsFiniteSet(places)
    BY <1>1, Ranks
  <2>3. \A n : low(n) \in SUBSET places /\ IsFiniteSet(low(n))
    BY <2>2, FS_Subset
  <2>4. i \in Nat /\ k \in Nat
    BY <1>1, <2>1
  <2>5. (low(i) \in SUBSET low(k) \/ low(k) \in SUBSET low(i)) /\ i \in low(i) /\ k \in low(k)
    BY <1>1, <2>1, <2>4
  <2>6. Cardinality(low(i)) = Cardinality(low(k))
    BY <2>1
  <2> HIDE DEF low
  <2>7. low(i) = low(k)
    BY <2>3, <2>5, <2>6, FS_Subset
  <2>8. i <= k /\ k <= i
    BY <2>5, <2>7 DEF low
  <2> QED
    BY <2>4, <2>8 DEF k
<1> HIDE DEF nth, upTo
<1>7. kept \in Seq(X)
  <2>1. \A n \in 1 .. N : seq[nth(n)] \in X
    BY <1>1, <1>4, ElementsIn
  <2> QED
    BY <1>2, <2>1, IsASeq
<1>8. DOMAIN kept = 1 .. N /\ \A n \in 1 .. N : kept[n] = seq[nth(n)]
  OBVIOUS
<1> HIDE DEF kept
<1>9. \A i \in DOMAIN kept : \E j \in DOMAIN seq : kept[i] = seq[j] /\ seq[j] \in S
  BY <1>4, <1>8
<1>10. \A j \in DOMAIN seq : seq[j] \in S => \E i \in DOMAIN kept : kept[i] = seq[j]
  BY <1>5, <1>6, <1>8
<1>11. IsInjective(seq) => IsInjective(kept)
  <2> SUFFICES ASSUME IsInjective(seq), NEW a \in 1 .. N, NEW b \in 1 .. N, kept[a] = kept[b]
               PROVE  a = b
    BY <1>8 DEF IsInjective
  <2>1. nth(a) = nth(b)
    BY <1>4, <1>8 DEF IsInjective
  <2> QED
    BY <1>4, <2>1
<1> QED
  BY <1>3, <1>7, <1>9, <1>10, <1>11

-----------------------------------------------------------------------------
(* Types *)

LEMMA Threads ==
    /\ NoOne \notin Thread /\ Worker \in Thread /\ Caster \subseteq Thread
    /\ Requests \subseteq [Client -> Kinds]
    /\ OutLimit \in Nat /\ OutLimit >= 1 /\ KeepRecent \in Nat /\ KeepRecent >= 1
    /\ MaxEvents \in Nat /\ MaxTurns \in Nat
  BY HttpAssumption DEF HttpAssumption, Thread

LEMMA Nothings ==
    /\ <<>> \in Seq(Client) /\ <<>> \in Seq(Unit) /\ <<>> \in Seq(Frame)
    /\ <<>> \in Seq({"data", "activity", "link", "beat"})
    /\ Len(<<>>) = 0 /\ DOMAIN <<>> = {}
  BY EmptySeq

\* The units a response or a stream begins with.
LEMMA Beginnings ==
    /\ Header \in Unit /\ Header.of.from = NoOne /\ Header.of.is = "header"
    /\ \A f \in Piece : /\ Halves(f) \in Seq(Unit) /\ Len(Halves(f)) = 2
                        /\ Halves(f)[1] = [of |-> f, part |-> 1]
                        /\ Halves(f)[2] = [of |-> f, part |-> 2]
    /\ Fixed("answer") \in Piece /\ Fixed("answer").from = NoOne /\ Fixed("answer").is = "answer"
    /\ <<Header>> \in Seq(Unit) /\ Len(<<Header>>) = 1 /\ <<Header>>[1] = Header
    /\ Frame \subseteq Piece
<1>1. Fixed("header") \in Piece /\ Fixed("answer") \in Piece
  BY DEF Fixed, Piece
<1>2. Header \in Unit
  BY <1>1 DEF Header, Unit
<1>3. ASSUME NEW f \in Piece PROVE Halves(f) \in Seq(Unit)
  <2>1. [of |-> f, part |-> 1] \in Unit /\ [of |-> f, part |-> 2] \in Unit
    BY DEF Unit
  <2> QED
    BY <2>1 DEF Halves
<1>4. <<Header>> \in Seq(Unit)
  BY <1>2
<1>5. Frame \subseteq Piece
  BY DEF Frame, Piece
<1>6. Header.of.from = NoOne /\ Header.of.is = "header" /\ Fixed("answer").from = NoOne
      /\ Fixed("answer").is = "answer"
  BY DEF Header, Fixed
<1>7. \A f : /\ Len(Halves(f)) = 2 /\ Halves(f)[1] = [of |-> f, part |-> 1]
             /\ Halves(f)[2] = [of |-> f, part |-> 2]
  BY DEF Halves
<1>8. Len(<<Header>>) = 1 /\ <<Header>>[1] = Header
  OBVIOUS
<1> QED
  BY <1>1, <1>2, <1>3, <1>4, <1>5, <1>6, <1>7, <1>8

LEMMA InitTypes == Init => Types
<1> SUFFICES ASSUME Init PROVE Types
  OBVIOUS
<1> USE Threads, Nothings
<1>1. NetTypes
  <2>1. kind \in [Client -> Kinds]
    BY DEF Init
  <2>2. \A c \in Client : Pieces(kind[c]) \in Nat
    BY DEF Pieces, HeadOf, BodyOf
  <2> QED
    BY <2>1, <2>2 DEF Init, NetTypes
<1>2. ConnTypes
  <2>1. conns \in Seq(Client) /\ IsInjective(conns)
    BY DEF Init, IsInjective
  <2>2. \A c \in Client : out[c] = <<>> /\ written[c] = 0
    BY DEF Init
  <2>3. \A c \in Client : Len(out[c]) <= OutLimit + 1 /\ written[c] <= Len(out[c])
    BY <2>2
  <2> QED
    BY <2>1, <2>3 DEF Init, ConnTypes
<1>3. WorkerTypes
  BY DEF Init, WorkerTypes, Top, Busy, Wanted
<1>4. CastTypes
  <2>1. Idle \in Passing
    BY DEF Idle, Passing
  <2> QED
    BY <2>1 DEF Init, CastTypes
<1> QED
  BY <1>1, <1>2, <1>3, <1>4 DEF Types

\* The browsers' side: what they have sent, and how much of it has been read.
LEMMA StepNetTypes == Types /\ [Next]_vars => NetTypes'
<1> SUFFICES ASSUME NetTypes, WorkerTypes, [Next]_vars PROVE NetTypes'
  BY DEF Types
<1> USE Threads
<1>0. /\ kind \in [Client -> Kinds]
      /\ peer \in [Client -> {"away", "waiting", "open", "slow", "gone"}]
      /\ sent \in [Client -> Nat] /\ input \in [Client -> Nat]
      /\ \A c \in Client : input[c] <= sent[c] /\ sent[c] <= Pieces(kind[c]) + MaxTurns
      /\ events \in Nat /\ turns \in Nat
      /\ \A c \in Client : Pieces(kind[c]) \in Nat
  BY DEF NetTypes, Pieces, HeadOf, BodyOf
<1>1. CASE UNCHANGED <<netVars, input, bounds>>
  BY <1>1 DEF NetTypes, netVars, bounds
<1>2. CASE Another /\ UNCHANGED <<netVars, input, turns>>
  BY <1>2 DEF NetTypes, netVars, Another
<1>3. CASE Accept
  <2>1. peer' \in [Client -> {"away", "waiting", "open", "slow", "gone"}]
    <3>1. UNCHANGED peer \/ \E c \in Client : peer' = [peer EXCEPT ![c] = "open"]
      BY <1>3 DEF Accept
    <3> QED
      BY <1>0, <3>1
  <2>2. UNCHANGED <<kind, sent, input, bounds>>
    BY <1>3 DEF Accept
  <2> QED
    BY <2>1, <2>2 DEF NetTypes, bounds
<1>4. CASE Read
  <2>1. UNCHANGED <<netVars, bounds>>
    BY <1>4, Zenon DEF Read
  <2>2. Here \in Client
    BY <1>4, HeadTailProperties DEF Read, Has, WorkerTypes, Busy, Here
  <2>3. \E n \in input[Here] + 1 .. sent[Here] : input' = [input EXCEPT ![Here] = n]
    BY <1>4, Zenon DEF Read
  <2> HIDE DEF Here
  <2>4. PICK n \in input[Here] + 1 .. sent[Here] : input' = [input EXCEPT ![Here] = n]
    BY <2>3
  <2>6. n \in Nat /\ n <= sent[Here]
    BY <1>0, <2>2
  <2>5. input' \in [Client -> Nat] /\ \A c \in Client : input'[c] <= sent[c]
    BY <1>0, <2>2, <2>4, <2>6
  <2> QED
    BY <2>1, <2>5 DEF NetTypes, netVars, bounds
<1>5. CASE StopServer
  BY <1>5 DEF StopServer, NetTypes, connVars, bounds
<1>6. ASSUME NEW c \in Client, Browse(c) PROVE NetTypes'
  <2>1. UNCHANGED <<kind, input, bounds>>
    BY <1>6 DEF Browse, connVars
  <2>2. peer' \in [Client -> {"away", "waiting", "open", "slow", "gone"}]
    <3>1. UNCHANGED peer \/ peer' = [peer EXCEPT ![c] = "waiting"] \/ peer' = [peer EXCEPT ![c] = "open"]
      BY <1>6, Zenon DEF Browse
    <3> QED
      BY <1>0, <3>1
  <2>3. CASE UNCHANGED sent
    BY <2>1, <2>2, <2>3 DEF NetTypes, bounds
  <2>4. CASE sent[c] < Pieces(kind[c]) /\ sent' = [sent EXCEPT ![c] = @ + 1]
    <3>1. /\ sent' \in [Client -> Nat]
          /\ \A d \in Client : sent[d] <= sent'[d] /\ sent'[d] <= Pieces(kind[d]) + MaxTurns
      BY <1>0, <2>4
    <3> QED
      BY <1>0, <2>1, <2>2, <3>1 DEF NetTypes, bounds
  <2> QED
    BY <1>6, <2>3, <2>4 DEF Browse
<1>7. ASSUME NEW c \in Client, Turn(c) PROVE NetTypes'
  <2>1. UNCHANGED <<kind, input, events>> /\ turns' = turns + 1 /\ turns < MaxTurns
    BY <1>7 DEF Turn
  <2>2. peer' \in [Client -> {"away", "waiting", "open", "slow", "gone"}]
    <3>1. UNCHANGED peer \/ peer' = [peer EXCEPT ![c] = "slow"] \/ peer' = [peer EXCEPT ![c] = "gone"]
      BY <1>7, Zenon DEF Turn
    <3> QED
      BY <1>0, <3>1
  <2>3. CASE UNCHANGED sent
    BY <1>0, <2>1, <2>2, <2>3 DEF NetTypes
  <2>4. CASE sent[c] = Pieces(kind[c]) /\ sent' = [sent EXCEPT ![c] = @ + 1]
    <3>1. /\ sent' \in [Client -> Nat]
          /\ \A d \in Client : sent[d] <= sent'[d] /\ sent'[d] <= Pieces(kind[d]) + MaxTurns
      BY <1>0, <2>1, <2>4
    <3> QED
      BY <1>0, <2>1, <2>2, <3>1 DEF NetTypes
  <2> QED
    BY <1>7, <2>3, <2>4 DEF Turn
<1>8. CASE Working /\ ~ Accept /\ ~ Read
  <2>1. UNCHANGED <<netVars, input, bounds>>
    BY <1>8, Zenon DEF Working, Snapshot, Poll, Hangup, WorkerEnds, ReadCloses, Respond, Upgrade,
       Upgraded, TakeChunk, Send, SendFails, Account, connVars
  <2> QED
    BY <1>1, <2>1
<1>9. ASSUME NEW t \in Thread, Casting(t) PROVE NetTypes'
  <2>1. UNCHANGED <<netVars, input, bounds>>
    BY <1>9, Zenon DEF Casting, Make, Lock, Visit, AddFrame, connVars
  <2> QED
    BY <1>1, <2>1
<1>10. CASE Beat \/ \E t \in Caster : Event(t)
  BY <1>2, <1>10, Zenon DEF Beat, Event, connVars
<1>11. CASE Join \/ UNCHANGED vars
  BY <1>1, <1>11, Zenon DEF Join, vars, connVars
<1> QED
  BY <1>3, <1>4, <1>5, <1>6, <1>7, <1>8, <1>9, <1>10, <1>11 DEF Next

\* The connection the worker serves.
LEMMA HereIs ==
    ASSUME WorkerTypes, w.pc \in Busy
    PROVE  Here \in Client /\ Tail(w.todo) \in Seq(Client)
<1>1. w.todo \in Seq(Client) /\ w.todo # <<>>
  BY DEF WorkerTypes
<1> QED
  BY <1>1, HeadTailProperties DEF Here

\* The list of connections: none is in it twice, as a connection is accepted once.
LEMMA StepList == Types /\ Opened /\ [Next]_vars => conns' \in Seq(Client) /\ IsInjective(conns')
<1> SUFFICES ASSUME ConnTypes, Opened, [Next]_vars
             PROVE  conns' \in Seq(Client) /\ IsInjective(conns')
  BY DEF Types
<1>0. conns \in Seq(Client) /\ IsInjective(conns)
  BY DEF ConnTypes
<1>1. CASE UNCHANGED conns
  BY <1>0, <1>1
<1>2. CASE Snapshot
  <2>1. PICK S : conns' = Kept(conns, S)
    BY <1>2, Zenon DEF Snapshot
  <2> QED
    BY <1>0, <2>1, KeptIs
<1>3. ASSUME NEW c \in Client, Waiting(c), conns' = Append(conns, c)
      PROVE  conns' \in Seq(Client) /\ IsInjective(conns')
  <2>1. ~ Listed(c)
    BY <1>3 DEF Waiting, Opened
  <2>2. \A i \in DOMAIN conns : conns[i] # c
    BY <2>1 DEF Listed, ToSet
  <2>3. /\ conns' \in Seq(Client) /\ Len(conns') = Len(conns) + 1
        /\ \A i \in 1 .. Len(conns) : conns'[i] = conns[i]
        /\ conns'[Len(conns) + 1] = c
    BY <1>0, <1>3, AppendProperties
  <2>4. /\ Len(conns) \in Nat /\ DOMAIN conns = 1 .. Len(conns)
        /\ DOMAIN conns' = 1 .. Len(conns) + 1
    BY <1>0, <2>3, LenProperties
  <2>5. ASSUME NEW i \in 1 .. Len(conns) + 1, NEW j \in 1 .. Len(conns) + 1, conns'[i] = conns'[j]
        PROVE  i = j
    <3>1. CASE i \in 1 .. Len(conns) /\ j \in 1 .. Len(conns)
      BY <1>0, <2>3, <2>4, <2>5, <3>1 DEF IsInjective
    <3>2. CASE i \notin 1 .. Len(conns) /\ j \notin 1 .. Len(conns)
      BY <2>4, <3>2
    <3>3. CASE i \in 1 .. Len(conns) /\ j \notin 1 .. Len(conns)
      <4>1. j = Len(conns) + 1
        BY <2>4, <3>3
      <4> QED
        BY <2>2, <2>3, <2>4, <2>5, <3>3, <4>1
    <3>4. CASE i \notin 1 .. Len(conns) /\ j \in 1 .. Len(conns)
      <4>1. i = Len(conns) + 1
        BY <2>4, <3>4
      <4> QED
        BY <2>2, <2>3, <2>4, <2>5, <3>4, <4>1
    <3> QED
      BY <3>1, <3>2, <3>3, <3>4
  <2> QED
    BY <2>3, <2>4, <2>5 DEF IsInjective
<1>4. CASE Accept
  BY <1>1, <1>3, <1>4 DEF Accept
<1>5. CASE Join
  <2>1. conns' = <<>>
    BY <1>5 DEF Join
  <2> QED
    BY <2>1, Nothings DEF IsInjective
<1>6. CASE Working /\ ~ Accept /\ ~ Snapshot
  <2>1. UNCHANGED conns
    BY <1>6, Zenon DEF Working, Poll, Hangup, WorkerEnds, ReadCloses, Read, Respond, Upgrade,
       Upgraded, TakeChunk, Send, SendFails, Account, connVars
  <2> QED
    BY <1>1, <2>1
<1>7. CASE Next /\ ~ Working /\ ~ Join
  <2>1. UNCHANGED conns
    BY <1>7, Zenon DEF Next, Casting, Make, Lock, Visit, AddFrame, Beat, Event, StopServer,
       Browse, Turn, connVars
  <2> QED
    BY <1>1, <2>1
<1>8. CASE UNCHANGED vars
  BY <1>1, <1>8 DEF vars, connVars
<1> QED
  BY <1>2, <1>4, <1>5, <1>6, <1>7, <1>8

\* How an output changes, for one connection.
OutKept(c) == out'[c] = out[c] /\ written'[c] = written[c]
OutEmptied(c) == (Closed(c) \/ (Account /\ c = Here)) /\ out'[c] = <<>> /\ written'[c] = 0
OutBegun(c) == /\ \/ Upgrade /\ c = Here /\ out'[c] = <<Header>>
                  \/ state'[c] = "WritingResponse" /\ out'[c] = Halves(Fixed("answer"))
               /\ written'[c] = 0
OutCut(c) == /\ TakeChunk /\ c = Here /\ state[c] = Streaming
             /\ out'[c] = SubSeq(out[c], written[c] + 1, Len(out[c])) /\ written'[c] = 0
OutAdded(c) ==
    /\ \E t \in Thread : /\ AddFrame(t) /\ c = Head(cast[t].left)
                         /\ Len(out[c]) < OutLimit
                         /\ out'[c] = out[c] \o Halves(cast[t].frame)
    /\ written'[c] = written[c]
OutAccounted(c) == Account /\ c = Here /\ out'[c] = out[c] /\ written'[c] = written[c] + w.took

\* An output is a function of the connections again, and each has changed in one
\* of these ways.
OutSteps(c) == OutKept(c) \/ OutEmptied(c) \/ OutBegun(c) \/ OutCut(c) \/ OutAdded(c) \/ OutAccounted(c)
OutGoes == /\ out' = [c \in Client |-> out'[c]] /\ written' = [c \in Client |-> written'[c]]
           /\ \A c \in Client : OutSteps(c)

\* A broadcast adds to one output, unless that is full.
LEMMA AddFrameIs ==
    ASSUME ConnTypes, NEW t \in Thread, AddFrame(t), NEW c \in Client
    PROVE  OutKept(c) \/ OutAdded(c)
<1> DEFINE x == Head(cast[t].left)
           f == cast[t].frame
<1>1. out' = [out EXCEPT ![x] = out[x] \o RoomFor(x, f)] /\ UNCHANGED written
  BY DEF AddFrame
<1>2. out[c] \in Seq(Unit) /\ out = [d \in Client |-> out[d]]
  BY DEF ConnTypes
<1>3. CASE c # x
  BY <1>1, <1>2, <1>3 DEF OutKept
<1>4. CASE c = x /\ ~ (Len(out[c]) < OutLimit)
  <2>1. out'[c] = out[c] \o <<>>
    BY <1>1, <1>2, <1>4 DEF RoomFor
  <2>2. out'[c] = out[c]
    BY <1>2, <2>1, ConcatEmptySeq
  <2> QED
    BY <1>1, <2>2 DEF OutKept
<1>5. CASE c = x /\ Len(out[c]) < OutLimit
  <2>1. out'[c] = out[c] \o Halves(f)
    BY <1>1, <1>2, <1>5 DEF RoomFor
  <2> QED
    BY <1>1, <1>5, <2>1 DEF OutAdded
<1> QED
  BY <1>3, <1>4, <1>5

LEMMA StepOut == Types /\ [Next]_vars => OutGoes
<1> SUFFICES ASSUME ConnTypes, WorkerTypes, CastTypes, [Next]_vars PROVE OutGoes
  BY DEF Types
<1>0. out = [c \in Client |-> out[c]] /\ written = [c \in Client |-> written[c]]
  BY DEF ConnTypes
<1>1. CASE UNCHANGED <<out, written>>
  BY <1>0, <1>1 DEF OutGoes, OutSteps, OutKept
<1>2. CASE Snapshot
  <2>1. /\ out' = [c \in Client |-> IF c \in Dropped THEN <<>> ELSE out[c]]
        /\ written' = [c \in Client |-> IF c \in Dropped THEN 0 ELSE written[c]]
    BY <1>2 DEF Snapshot
  <2>3. \A c \in Dropped : Closed(c)
    BY DEF Dropped
  <2> HIDE DEF Dropped
  <2>2. \A c \in Client : OutKept(c) \/ OutEmptied(c)
    BY <2>1, <2>3 DEF OutKept, OutEmptied
  <2> QED
    BY <2>1, <2>2 DEF OutGoes, OutSteps
<1>3. ASSUME NEW x, NEW s, NEW n, out' = [out EXCEPT ![x] = s], written' = [written EXCEPT ![x] = n]
      PROVE  /\ out' = [c \in Client |-> out'[c]] /\ written' = [c \in Client |-> written'[c]]
             /\ \A c \in Client : IF c = x THEN out'[c] = s /\ written'[c] = n ELSE OutKept(c)
  BY <1>0, <1>3 DEF OutKept
<1>4. CASE Responds(Here)
  <2> HIDE DEF Here
  <2>1. /\ out' = [out EXCEPT ![Here] = Halves(Fixed("answer"))] /\ written' = [written EXCEPT ![Here] = 0]
        /\ state' = [state EXCEPT ![Here] = "WritingResponse"]
    BY <1>4 DEF Responds, Turns
  <2>2. Here \in Client => state'[Here] = "WritingResponse"
    BY <2>1 DEF ConnTypes
  <2>3. \A c \in Client : OutKept(c) \/ OutBegun(c)
    BY <1>3, <2>1, <2>2 DEF OutBegun
  <2> QED
    BY <1>3, <2>1, <2>3 DEF OutGoes, OutSteps
<1>5. CASE Read \/ Respond
  <2>1. UNCHANGED <<out, written>> \/ Responds(Here)
    BY <1>5, Zenon DEF Read, Respond
  <2> QED
    BY <1>1, <1>4, <2>1
<1>6. CASE Upgrade
  <2>1. out' = [out EXCEPT ![Here] = <<Header>>] /\ written' = [written EXCEPT ![Here] = 0]
    BY <1>6 DEF Upgrade
  <2> HIDE DEF Here
  <2>2. \A c \in Client : OutKept(c) \/ OutBegun(c)
    BY <1>3, <1>6, <2>1 DEF OutBegun
  <2> QED
    BY <1>3, <2>1, <2>2 DEF OutGoes, OutSteps
<1>7. CASE TakeChunk
  <2>1. CASE state[Here] # Streaming
    BY <1>1, <1>7, <2>1 DEF TakeChunk
  <2>2. CASE state[Here] = Streaming
    <3>1. /\ out' = [out EXCEPT ![Here] = SubSeq(out[Here], written[Here] + 1, Len(out[Here]))]
          /\ written' = [written EXCEPT ![Here] = 0]
      BY <1>7, <2>2 DEF TakeChunk
    <3> HIDE DEF Here
    <3>2. \A c \in Client : OutKept(c) \/ OutCut(c)
      BY <1>3, <1>7, <2>2, <3>1 DEF OutCut
    <3> QED
      BY <1>3, <3>1, <3>2 DEF OutGoes, OutSteps
  <2> QED
    BY <2>1, <2>2
<1>8. CASE Account
  <2>1. \/ UNCHANGED <<out, written>>
        \/ UNCHANGED out /\ written' = [written EXCEPT ![Here] = written[Here] + w.took]
        \/ out' = [out EXCEPT ![Here] = <<>>] /\ written' = [written EXCEPT ![Here] = 0]
    BY <1>8, Zenon DEF Account, Finished
  <2> HIDE DEF Here
  <2>2. CASE UNCHANGED out /\ written' = [written EXCEPT ![Here] = written[Here] + w.took]
    <3>1. \A c \in Client : OutKept(c) \/ OutAccounted(c)
      BY <1>0, <1>8, <2>2 DEF OutKept, OutAccounted
    <3> QED
      BY <1>0, <2>2, <3>1 DEF OutGoes, OutSteps
  <2>3. CASE out' = [out EXCEPT ![Here] = <<>>] /\ written' = [written EXCEPT ![Here] = 0]
    <3>1. \A c \in Client : OutKept(c) \/ OutEmptied(c)
      BY <1>3, <1>8, <2>3 DEF OutEmptied
    <3> QED
      BY <1>3, <2>3, <3>1 DEF OutGoes, OutSteps
  <2> QED
    BY <1>1, <2>1, <2>2, <2>3
<1>9. ASSUME NEW t \in Thread, AddFrame(t) PROVE OutGoes
  <2> DEFINE x == Head(cast[t].left)
             f == cast[t].frame
  <2>1. out' = [out EXCEPT ![x] = out[x] \o RoomFor(x, f)] /\ UNCHANGED written
    BY <1>9 DEF AddFrame
  <2>2. out' = [c \in Client |-> out'[c]]
    BY <1>0, <2>1
  <2>3. \A c \in Client : OutKept(c) \/ OutAdded(c)
    BY <1>9, AddFrameIs
  <2> QED
    BY <1>0, <2>1, <2>2, <2>3 DEF OutGoes, OutSteps
<1>10. CASE Working /\ ~ (Snapshot \/ Read \/ Respond \/ Upgrade \/ TakeChunk \/ Account)
  <2>1. UNCHANGED <<out, written>>
    BY <1>10, Zenon DEF Working, Poll, Accept, Hangup, WorkerEnds, ReadCloses, Upgraded, Send,
       SendFails, connVars
  <2> QED
    BY <1>1, <2>1
<1>11. CASE Next /\ ~ Working /\ ~ \E t \in Thread : AddFrame(t)
  <2>1. UNCHANGED <<out, written>>
    BY <1>11, Zenon DEF Next, Casting, Make, Lock, Visit, Beat, Event, StopServer, Join,
       Browse, Turn, connVars
  <2> QED
    BY <1>1, <2>1
<1>12. CASE UNCHANGED vars
  BY <1>1, <1>12 DEF vars, connVars
<1> QED
  BY <1>2, <1>5, <1>6, <1>7, <1>8, <1>9, <1>10, <1>11, <1>12

\* How a connection's state changes: it is accepted, answered or upgraded while
\* its request is being read, and closed for good.
StateSteps(c) ==
    \/ state'[c] = state[c]
    \/ Accept /\ Waiting(c) /\ state[c] = "None" /\ state'[c] = "ReadingRequest"
    \/ state[c] # "None" /\ state'[c] = "Closed"
    \/ state[c] = "ReadingRequest" /\ state'[c] = "WritingResponse"
    \/ Upgraded /\ c = Here /\ state[c] = "ReadingRequest" /\ state'[c] = Streaming
State == {"None", "ReadingRequest", "WritingResponse", Streaming, "Closed"}
StateGoes == state' \in [Client -> State] /\ \A c \in Client : StateSteps(c)

LEMMA StepState == Types /\ Opened /\ Serving /\ [Next]_vars => StateGoes
<1> SUFFICES ASSUME ConnTypes, WorkerTypes, Opened, Serving, [Next]_vars PROVE StateGoes
  BY DEF Types
<1>0. state \in [Client -> State]
  BY DEF ConnTypes, State
<1>1. CASE UNCHANGED state
  BY <1>0, <1>1 DEF StateGoes, StateSteps
<1>2. ASSUME NEW c \in Client, NEW s \in State, Turns(c, s)
      PROVE  state' \in [Client -> State] /\ state'[c] = s /\ \A d \in Client : d # c => state'[d] = state[d]
  BY <1>0, <1>2 DEF Turns
<1>3. w.pc \in Busy => Here \in Client /\ state[Here] # "None"
  <2> SUFFICES ASSUME w.pc \in Busy PROVE Here \in Client /\ state[Here] # "None"
    OBVIOUS
  <2>1. w.todo \in Seq(Client) /\ w.todo # <<>>
    BY DEF WorkerTypes
  <2>2. 1 \in DOMAIN w.todo /\ Here = w.todo[1]
    BY <2>1 DEF Here
  <2> QED
    BY <2>2, HereIs DEF Serving
<1>4. CASE w.pc \in Busy /\ Turns(Here, "Closed")
  <2>1. Here \in Client /\ state[Here] # "None"
    BY <1>3, <1>4
  <2> HIDE DEF Here
  <2>2. /\ state' \in [Client -> State] /\ state'[Here] = "Closed"
        /\ \A d \in Client : d # Here => state'[d] = state[d]
    BY <1>2, <1>4, <2>1 DEF State
  <2> QED
    BY <2>1, <2>2 DEF StateGoes, StateSteps
<1>5. CASE Hangup \/ ReadCloses
  <2>1. w.pc \in Busy /\ Turns(Here, "Closed")
    BY <1>5, Zenon DEF Hangup, ReadCloses, Has, Busy
  <2> QED
    BY <1>4, <2>1
<1>6. CASE SendFails \/ Account
  <2>1. w.pc \in Busy /\ (UNCHANGED state \/ Turns(Here, "Closed"))
    BY <1>6, Zenon DEF SendFails, Account, Finished, Busy
  <2> QED
    BY <1>1, <1>4, <2>1
<1>7. CASE w.pc \in Busy /\ state[Here] = "ReadingRequest" /\ Turns(Here, "WritingResponse")
  <2>1. Here \in Client
    BY <1>3, <1>7
  <2> HIDE DEF Here
  <2>2. /\ state' \in [Client -> State] /\ state'[Here] = "WritingResponse"
        /\ \A d \in Client : d # Here => state'[d] = state[d]
    BY <1>2, <1>7, <2>1 DEF State
  <2> QED
    BY <1>7, <2>1, <2>2 DEF StateGoes, StateSteps
<1>8. CASE Read
  <2>1. /\ w.pc \in Busy /\ state[Here] = "ReadingRequest"
        /\ UNCHANGED state \/ Turns(Here, "Closed") \/ Turns(Here, "WritingResponse")
    BY <1>8, Zenon DEF Read, Has, Responds, Busy
  <2> QED
    BY <1>1, <1>4, <1>7, <2>1
<1>9. CASE Respond
  <2>1. w.pc \in Busy /\ state[Here] = "ReadingRequest" /\ Turns(Here, "WritingResponse")
    BY <1>9 DEF Respond, Responds, Busy, Serving
  <2> QED
    BY <1>7, <2>1
<1>10. CASE Upgraded
  <2>1. w.pc \in Busy /\ state[Here] = "ReadingRequest" /\ Turns(Here, Streaming)
    BY <1>10 DEF Upgraded, Busy, Serving
  <2>2. Here \in Client
    BY <1>3, <2>1
  <2> HIDE DEF Here
  <2>3. /\ state' \in [Client -> State] /\ state'[Here] = Streaming
        /\ \A d \in Client : d # Here => state'[d] = state[d]
    BY <1>2, <2>1, <2>2 DEF State
  <2> QED
    BY <1>10, <2>1, <2>2, <2>3 DEF StateGoes, StateSteps
<1>11. CASE Accept
  <2>1. ASSUME NEW c \in Client, Waiting(c), Turns(c, "ReadingRequest") PROVE StateGoes
    <3>1. /\ state' \in [Client -> State] /\ state'[c] = "ReadingRequest"
          /\ \A d \in Client : d # c => state'[d] = state[d]
      BY <1>2, <2>1 DEF State
    <3>2. state[c] = "None"
      BY <2>1 DEF Waiting, Opened
    <3> QED
      BY <1>11, <2>1, <3>1, <3>2 DEF StateGoes, StateSteps
  <2> QED
    BY <1>1, <1>11, <2>1 DEF Accept
<1>12. CASE Join
  <2>1. state' = [c \in Client |-> IF Listed(c) THEN "Closed" ELSE state[c]]
    BY <1>12 DEF Join
  <2>2. \A c \in Client : Listed(c) => state[c] # "None"
    BY DEF Opened
  <2> QED
    BY <1>0, <2>1, <2>2 DEF StateGoes, StateSteps, State
<1>13. CASE Snapshot \/ Poll \/ WorkerEnds \/ Upgrade \/ TakeChunk \/ Send
  BY <1>1, <1>13, Zenon DEF Snapshot, Poll, WorkerEnds, Upgrade, TakeChunk, Send, connVars
<1>14. CASE Next /\ ~ Working /\ ~ Join
  <2>1. UNCHANGED state
    BY <1>14, Zenon DEF Next, Casting, Make, Lock, Visit, AddFrame, Beat, Event, StopServer,
       Browse, Turn, connVars
  <2> QED
    BY <1>1, <2>1
<1>15. CASE UNCHANGED vars
  BY <1>1, <1>15 DEF vars, connVars
<1> QED
  BY <1>5, <1>6, <1>8, <1>9, <1>10, <1>11, <1>12, <1>13, <1>14, <1>15 DEF Working

\* What send() took is still in the output.
LEMMA TookIs ==
    ASSUME ConnTypes, WorkerTypes, Serving, w.pc = "account"
    PROVE  /\ Here \in Client /\ w.took \in Nat
           /\ written[Here] + w.took \in Nat /\ written[Here] + w.took <= Len(out[Here])
<1>1. Here \in Client /\ w.took \in Nat /\ w.chunk \in Seq(Unit)
  BY HereIs DEF WorkerTypes, Busy
<1>2. written[Here] \in Nat /\ written[Here] <= Len(out[Here]) /\ Len(out[Here]) \in Nat
  BY <1>1, LenProperties DEF ConnTypes
<1>3. Len(w.chunk) \in Nat /\ DOMAIN w.chunk = 1 .. Len(w.chunk) /\ w.took <= Len(w.chunk)
  BY <1>1, LenProperties DEF Serving
<1>4. w.took # 0 => written[Here] + w.took <= Len(out[Here])
  <2> SUFFICES ASSUME w.took # 0 PROVE written[Here] + w.took <= Len(out[Here])
    OBVIOUS
  <2>1. w.took \in DOMAIN w.chunk
    BY <1>1, <1>3
  <2> QED
    BY <2>1 DEF Serving
<1> QED
  BY <1>1, <1>2, <1>4

\* The part of an output after the first n units of it.
LEMMA RestIs ==
    ASSUME NEW s \in Seq(Unit), NEW n \in Nat, n <= Len(s)
    PROVE  /\ SubSeq(s, n + 1, Len(s)) \in Seq(Unit)
           /\ Len(SubSeq(s, n + 1, Len(s))) = Len(s) - n
           /\ \A i \in 1 .. Len(s) - n : SubSeq(s, n + 1, Len(s))[i] = s[n + i]
<1>1. Len(s) \in Nat /\ DOMAIN s = 1 .. Len(s) /\ n + 1 \in Int /\ Len(s) \in Int
  BY LenProperties
<1>2. \A i \in n + 1 .. Len(s) : s[i] \in Unit
  BY <1>1, ElementsIn
<1> DEFINE r == SubSeq(s, n + 1, Len(s))
<1>3. /\ r \in Seq(Unit)
      /\ Len(r) = IF n + 1 <= Len(s) THEN Len(s) - (n + 1) + 1 ELSE 0
      /\ \A i \in 1 .. Len(s) - (n + 1) + 1 : r[i] = s[n + 1 + i - 1]
  BY <1>1, <1>2, SubSeqProperties
<1> HIDE DEF r
<1>4. r \in Seq(Unit) /\ Len(r) = Len(s) - n
  <2>1. CASE n + 1 <= Len(s)
    <3>1. Len(r) = Len(s) - (n + 1) + 1
      BY <1>3, <2>1
    <3>2. Len(s) - (n + 1) + 1 = Len(s) - n
      BY <1>1
    <3> QED
      BY <1>3, <3>1, <3>2
  <2>2. CASE ~ (n + 1 <= Len(s))
    <3>1. Len(r) = 0
      BY <1>3, <2>2
    <3>2. \A m \in Nat : n <= m /\ ~ (n + 1 <= m) => m - n = 0
      OBVIOUS
    <3>4. Len(s) - n = 0
      BY <1>1, <2>2, <3>2
    <3> QED
      BY <1>3, <3>1, <3>4
  <2> QED
    BY <2>1, <2>2
<1>5. ASSUME NEW i \in 1 .. Len(s) - n PROVE r[i] = s[n + i]
  <2>1. i \in 1 .. Len(s) - (n + 1) + 1 /\ n + 1 + i - 1 = n + i
    BY <1>1
  <2>2. r[i] = s[n + 1 + i - 1]
    BY <1>3, <2>1
  <2> QED
    BY <2>1, <2>2
<1> QED
  BY <1>4, <1>5 DEF r

\* A frame is added where there is room, so that an output is never more than
\* one unit too long.
LEMMA StepOutTypes ==
    Types /\ Casts /\ Serving /\ [Next]_vars =>
        /\ out' \in [Client -> Seq(Unit)] /\ written' \in [Client -> Nat]
        /\ \A c \in Client : Len(out'[c]) <= OutLimit + 1 /\ written'[c] <= Len(out'[c])
<1> SUFFICES ASSUME Types, Casts, Serving, [Next]_vars
             PROVE  /\ out' \in [Client -> Seq(Unit)] /\ written' \in [Client -> Nat]
                    /\ \A c \in Client : Len(out'[c]) <= OutLimit + 1 /\ written'[c] <= Len(out'[c])
  OBVIOUS
<1>8. out' = [c \in Client |-> out'[c]] /\ written' = [c \in Client |-> written'[c]]
  BY StepOut DEF OutGoes
<1> SUFFICES ASSUME NEW c \in Client
             PROVE  /\ out'[c] \in Seq(Unit) /\ written'[c] \in Nat
                    /\ Len(out'[c]) <= OutLimit + 1 /\ written'[c] <= Len(out'[c])
  BY <1>8
<1> USE Threads
<1>0. /\ out[c] \in Seq(Unit) /\ written[c] \in Nat /\ Len(out[c]) \in Nat
      /\ Len(out[c]) <= OutLimit + 1 /\ written[c] <= Len(out[c])
  BY LenProperties DEF Types, ConnTypes
<1>1. CASE OutKept(c)
  BY <1>0, <1>1 DEF OutKept
<1>2. CASE OutEmptied(c)
  BY <1>2, Nothings DEF OutEmptied
<1>3. CASE OutBegun(c)
  <2>1. out'[c] \in Seq(Unit) /\ (Len(out'[c]) = 1 \/ Len(out'[c]) = 2) /\ written'[c] = 0
    BY <1>3, Beginnings DEF OutBegun
  <2>2. 1 <= OutLimit + 1 /\ 2 <= OutLimit + 1
    OBVIOUS
  <2>3. Len(out'[c]) <= OutLimit + 1
    BY <2>1, <2>2
  <2>4. written'[c] <= Len(out'[c])
    BY <2>1
  <2> QED
    BY <2>1, <2>3, <2>4
<1>4. CASE OutCut(c)
  <2>1. written'[c] = 0 /\ out'[c] \in Seq(Unit) /\ Len(out'[c]) = Len(out[c]) - written[c]
    BY <1>0, <1>4, RestIs DEF OutCut
  <2> QED
    BY <1>0, <2>1
<1>5. CASE OutAdded(c)
  <2>1. PICK t \in Thread : /\ cast[t].pc = "append" /\ Len(out[c]) < OutLimit
                            /\ out'[c] = out[c] \o Halves(cast[t].frame)
    BY <1>5 DEF OutAdded, AddFrame
  <2>2. Halves(cast[t].frame) \in Seq(Unit) /\ Len(Halves(cast[t].frame)) = 2
    BY <2>1, Beginnings DEF Casts
  <2>3. out'[c] \in Seq(Unit)
    BY <1>0, <2>1, <2>2, ConcatProperties
  <2>6. Len(out[c] \o Halves(cast[t].frame)) = Len(out[c]) + Len(Halves(cast[t].frame))
    BY <1>0, <2>2, ConcatProperties
  <2>4. Len(out'[c]) = Len(out[c]) + 2
    BY <2>1, <2>2, <2>6
  <2>5. written'[c] = written[c]
    BY <1>5 DEF OutAdded
  <2> QED
    BY <1>0, <2>1, <2>3, <2>4, <2>5
<1>6. CASE OutAccounted(c)
  <2>1. w.pc = "account" /\ c = Here /\ out'[c] = out[c] /\ written'[c] = written[c] + w.took
    BY <1>6 DEF OutAccounted, Account
  <2>2. written[c] + w.took \in Nat /\ written[c] + w.took <= Len(out[c])
    BY <2>1, TookIs DEF Types
  <2> QED
    BY <1>0, <2>1, <2>2
<1>7. OutSteps(c)
  BY StepOut DEF OutGoes
<1> QED
  BY <1>1, <1>2, <1>3, <1>4, <1>5, <1>6, <1>7 DEF OutSteps

\* What a browser has received grows by what send() took of the chunk.
GotMore(c) ==
    /\ Send /\ c = Here /\ w'.took \in 1 .. Len(w.chunk)
    /\ got'[c] = got[c] \o SubSeq(w.chunk, 1, w'.took)
GotSteps(c) ==
    \/ got'[c] = got[c]
    \/ GotMore(c)
    \/ peer'[c] = "gone" /\ got'[c] = <<>>

LEMMA StepGot == Types /\ [Next]_vars => /\ got' \in [Client -> Seq(Unit)]
                                         /\ \A c \in Client : GotSteps(c)
<1> SUFFICES ASSUME NetTypes, ConnTypes, WorkerTypes, [Next]_vars
             PROVE  got' \in [Client -> Seq(Unit)] /\ \A c \in Client : GotSteps(c)
  BY DEF Types
<1>0. got \in [Client -> Seq(Unit)]
  BY DEF ConnTypes
<1>1. CASE UNCHANGED got
  BY <1>0, <1>1 DEF GotSteps
<1>2. CASE Send
  <2>1. CASE UNCHANGED got
    BY <1>1, <2>1
  <2>2. CASE ~ UNCHANGED got
    <3>1. Here \in Client /\ w \in [pc : {"top", "poll", "accept", "end"} \cup Busy, todo : Seq(Client),
              ready : [Client -> SUBSET Wanted], chunk : Seq(Unit), took : Nat]
      BY <1>2, HereIs DEF Send, WorkerTypes, Busy
    <3>2. PICK n \in 1 .. Len(w.chunk) : /\ w' = [w EXCEPT !.pc = "account", !.took = n]
                                         /\ got' = [got EXCEPT ![Here] = @ \o SubSeq(w.chunk, 1, n)]
      BY <1>2, <2>2, Zenon DEF Send
    <3>3. w'.took = n
      BY <3>1, <3>2
    <3>4. w.chunk \in Seq(Unit) /\ Len(w.chunk) \in Nat /\ n \in Int /\ 1 \in Int
      BY <3>1, <3>2, LenProperties
    <3>5. \A i \in 1 .. n : w.chunk[i] \in Unit
      BY <3>2, <3>4, ElementsIn
    <3>6. SubSeq(w.chunk, 1, n) \in Seq(Unit)
      BY <3>4, <3>5, SubSeqProperties
    <3> HIDE DEF Here
    <3>7. got[Here] \o SubSeq(w.chunk, 1, n) \in Seq(Unit)
      BY <1>0, <3>1, <3>6, ConcatProperties
    <3>8. got' \in [Client -> Seq(Unit)]
      BY <1>0, <3>1, <3>2, <3>7
    <3>9. \A c \in Client : got'[c] = got[c] \/ GotMore(c)
      BY <1>0, <1>2, <3>1, <3>2, <3>3 DEF GotMore
    <3> QED
      BY <3>8, <3>9 DEF GotSteps
  <2> QED
    BY <2>1, <2>2
<1>3. ASSUME NEW c \in Client, Turn(c)
      PROVE  got' \in [Client -> Seq(Unit)] /\ \A d \in Client : GotSteps(d)
  <2>1. \/ UNCHANGED got
        \/ peer' = [peer EXCEPT ![c] = "gone"] /\ got' = [got EXCEPT ![c] = <<>>]
    BY <1>3, Zenon DEF Turn
  <2>2. CASE peer' = [peer EXCEPT ![c] = "gone"] /\ got' = [got EXCEPT ![c] = <<>>]
    <3>1. got' \in [Client -> Seq(Unit)]
      BY <1>0, <2>2, Nothings
    <3>2. \A d \in Client : got'[d] = got[d] \/ (peer'[d] = "gone" /\ got'[d] = <<>>)
      BY <1>0, <2>2 DEF NetTypes
    <3> QED
      BY <3>1, <3>2 DEF GotSteps
  <2> QED
    BY <1>1, <2>1, <2>2
<1>4. CASE Next /\ ~ Send /\ ~ \E c \in Client : Turn(c)
  <2>1. UNCHANGED got
    BY <1>4, Zenon DEF Next, Working, Snapshot, Poll, Accept, Hangup, WorkerEnds, ReadCloses, Read,
       Respond, Upgrade, Upgraded, TakeChunk, SendFails, Account, Casting, Make, Lock, Visit,
       AddFrame, Beat, Event, StopServer, Join, Browse, connVars
  <2> QED
    BY <1>1, <2>1
<1>5. CASE UNCHANGED vars
  BY <1>1, <1>5 DEF vars, connVars
<1> QED
  BY <1>2, <1>3, <1>4, <1>5

LEMMA StepConnTypes == Types /\ Casts /\ Opened /\ Serving /\ [Next]_vars => ConnTypes'
<1> SUFFICES ASSUME Types, Casts, Opened, Serving, [Next]_vars PROVE ConnTypes'
  OBVIOUS
<1>0. /\ running \in BOOLEAN /\ stopping \in {"no", "join", "done"}
      /\ connMu \in Thread \cup {NoOne} /\ outMu \in [Client -> BOOLEAN]
  BY DEF Types, ConnTypes
<1>1. running' \in BOOLEAN /\ stopping' \in {"no", "join", "done"}
  <2>1. CASE UNCHANGED <<running, stopping>>
    BY <1>0, <2>1
  <2>2. CASE StopServer \/ Join
    BY <1>0, <2>2 DEF StopServer, Join
  <2>3. CASE Next /\ ~ (StopServer \/ Join)
    <3>1. UNCHANGED <<running, stopping>>
      BY <2>3, Zenon DEF Next, Working, Snapshot, Poll, Accept, Hangup, WorkerEnds, ReadCloses, Read,
         Respond, Upgrade, Upgraded, TakeChunk, Send, SendFails, Account, Casting, Make, Lock, Visit,
         AddFrame, Beat, Event, Browse, Turn
    <3> QED
      BY <2>1, <3>1
  <2>4. CASE UNCHANGED vars
    BY <2>1, <2>4 DEF vars
  <2> QED
    BY <2>2, <2>3, <2>4
<1>2. connMu' \in Thread \cup {NoOne}
  <2>1. CASE UNCHANGED connMu
    BY <1>0, <2>1
  <2>2. ASSUME NEW t \in Thread, Casting(t) PROVE connMu' \in Thread \cup {NoOne}
    <3>1. connMu' = connMu \/ connMu' = t \/ connMu' = NoOne
      BY <2>2, Zenon DEF Casting, Make, Lock, Visit, AddFrame, Advances
    <3> QED
      BY <1>0, <3>1
  <2>3. CASE Next /\ ~ \E t \in Thread : Casting(t)
    <3>1. UNCHANGED connMu
      BY <2>3, Zenon DEF Next, Working, Snapshot, Poll, Accept, Hangup, WorkerEnds, ReadCloses, Read,
         Respond, Upgrade, Upgraded, TakeChunk, Send, SendFails, Account,
         Beat, Event, StopServer, Join, Browse, Turn
    <3> QED
      BY <2>1, <3>1
  <2>4. CASE UNCHANGED vars
    BY <2>1, <2>4 DEF vars
  <2> QED
    BY <2>2, <2>3, <2>4
<1>3. outMu' \in [Client -> BOOLEAN]
  <2>1. CASE UNCHANGED outMu
    BY <1>0, <2>1
  <2>2. CASE Upgrade \/ Upgraded
    <3>1. outMu' = [outMu EXCEPT ![Here] = TRUE] \/ outMu' = [outMu EXCEPT ![Here] = FALSE]
      BY <2>2, Zenon DEF Upgrade, Upgraded
    <3> QED
      BY <1>0, <3>1
  <2>3. CASE Next /\ ~ (Upgrade \/ Upgraded)
    <3>1. UNCHANGED outMu
      BY <2>3, Zenon DEF Next, Working, Snapshot, Poll, Accept, Hangup, WorkerEnds, ReadCloses, Read,
         Respond, TakeChunk, Send, SendFails, Account, Casting, Make, Lock, Visit, AddFrame,
         Beat, Event, StopServer, Join, Browse, Turn, connVars
    <3> QED
      BY <2>1, <3>1
  <2>4. CASE UNCHANGED vars
    BY <2>1, <2>4 DEF vars, connVars
  <2> QED
    BY <2>2, <2>3, <2>4
<1>4. conns' \in Seq(Client) /\ IsInjective(conns')
  BY StepList
<1>5. state' \in [Client -> {"None", "ReadingRequest", "WritingResponse", Streaming, "Closed"}]
  BY StepState DEF StateGoes, State
<1>6. /\ out' \in [Client -> Seq(Unit)] /\ written' \in [Client -> Nat]
      /\ \A c \in Client : Len(out'[c]) <= OutLimit + 1 /\ written'[c] <= Len(out'[c])
  BY StepOutTypes
<1>7. got' \in [Client -> Seq(Unit)]
  BY StepGot
<1> QED
  BY <1>1, <1>2, <1>3, <1>4, <1>5, <1>6, <1>7, Zenon DEF ConnTypes

\* The worker's own variables.
Work == [pc : {"top", "poll", "accept", "end"} \cup Busy, todo : Seq(Client),
         ready : [Client -> SUBSET Wanted], chunk : Seq(Unit), took : Nat]

LEMMA WorkIs ==
    ASSUME WorkerTypes
    PROVE  /\ w \in Work /\ w.todo \in Seq(Client) /\ w.ready \in [Client -> SUBSET Wanted]
           /\ Top \in Work /\ Top.pc = "top" /\ Top.todo = <<>>
           /\ Tail(w.todo) \in Seq(Client) \/ w.pc \notin Busy
  BY HereIs, Nothings DEF WorkerTypes, Work, Top, Wanted

\* The worker turns to the next connection, or begins a new round.
LEMMA ServesIs ==
    ASSUME WorkerTypes, NEW todo \in Seq(Client), Serves(todo)
    PROVE  /\ WorkerTypes'
           /\ w'.pc \in {"top", "serve"} /\ w'.todo = todo
           /\ w'.pc = "serve" => w'.todo # <<>>
<1>1. CASE todo = <<>>
  <2>1. w' = Top
    BY <1>1 DEF Serves
  <2> QED
    BY <1>1, <2>1, WorkIs DEF WorkerTypes, Work, Busy
<1>2. CASE todo # <<>>
  <2>1. w' = [w EXCEPT !.pc = "serve", !.todo = todo, !.chunk = <<>>, !.took = 0]
    BY <1>2 DEF Serves
  <2>2. w' \in Work /\ w'.pc = "serve" /\ w'.todo = todo
    BY <2>1, WorkIs, Nothings DEF Work, Busy
  <2> QED
    BY <1>2, <2>2 DEF WorkerTypes, Work
<1> QED
  BY <1>1, <1>2

LEMMA GoesIs ==
    ASSUME WorkerTypes, NEW where \in {"end"} \cup Busy, Goes(where), where \in Busy => w.pc \in Busy
    PROVE  WorkerTypes' /\ w'.pc = where /\ w'.todo = w.todo
<1>1. w' = [w EXCEPT !.pc = where]
  BY DEF Goes
<1>2. w' \in Work /\ w'.pc = where /\ w'.todo = w.todo
  BY <1>1, WorkIs DEF Work
<1> QED
  BY <1>2 DEF WorkerTypes, Work

\* The connections a worker has still to serve are some it had before, or some
\* of the list; it ends when the server is to stop.
TodoGoes ==
    /\ \A i \in DOMAIN w'.todo :
          \/ \E j \in DOMAIN w.todo : w'.todo[i] = w.todo[j]
          \/ \E j \in DOMAIN conns' : w'.todo[i] = conns'[j]
    /\ w'.pc = "end" => w.pc = "end" \/ ~ running

LEMMA StepWork == Types /\ conns' \in Seq(Client) /\ [Next]_vars => WorkerTypes' /\ TodoGoes
<1> SUFFICES ASSUME ConnTypes, WorkerTypes, conns' \in Seq(Client), [Next]_vars
             PROVE  WorkerTypes' /\ TodoGoes
  BY DEF Types
<1>0. w \in Work /\ w.todo \in Seq(Client)
  BY WorkIs
<1>1. CASE UNCHANGED w
  BY <1>1 DEF WorkerTypes, TodoGoes
<1>2. CASE Accept
  <2>1. Serves(w.todo)
    BY <1>2 DEF Accept
  <2> QED
    BY <1>0, <2>1, ServesIs DEF TodoGoes
<1>3. CASE w.pc \in Busy /\ Passes
  <2>1. Tail(w.todo) \in Seq(Client) /\ w.todo # <<>> /\ Serves(Tail(w.todo))
    BY <1>3, HereIs DEF Passes, WorkerTypes
  <2>2. WorkerTypes' /\ w'.todo = Tail(w.todo) /\ w'.pc # "end"
    BY <2>1, ServesIs
  <2>3. /\ Len(w.todo) \in Nat /\ DOMAIN w.todo = 1 .. Len(w.todo)
        /\ Len(Tail(w.todo)) = Len(w.todo) - 1 /\ DOMAIN Tail(w.todo) = 1 .. Len(Tail(w.todo))
        /\ \A i \in 1 .. Len(Tail(w.todo)) : Tail(w.todo)[i] = w.todo[i + 1]
    BY <1>0, <2>1, LenProperties, HeadTailProperties
  <2> DEFINE rest == Tail(w.todo)
  <2> HIDE DEF rest
  <2>4. \A i \in DOMAIN rest : i + 1 \in DOMAIN w.todo /\ rest[i] = w.todo[i + 1]
    BY <2>3 DEF rest
  <2>5. \A i \in DOMAIN rest : \E j \in DOMAIN w.todo : rest[i] = w.todo[j]
    BY <2>4
  <2> QED
    BY <2>2, <2>5 DEF TodoGoes, rest
<1>4. ASSUME NEW where \in {"end"} \cup Busy, Goes(where), where \in Busy => w.pc \in Busy,
             where = "end" => ~ running
      PROVE  WorkerTypes' /\ TodoGoes
  BY <1>4, GoesIs DEF TodoGoes
<1>5. CASE Hangup \/ ReadCloses \/ Respond \/ Upgraded \/ SendFails \/ Account
  <2>1. w.pc \in Busy /\ Passes
    BY <1>5, Zenon DEF Hangup, ReadCloses, Respond, Upgraded, SendFails, Account, Has, Busy
  <2> QED
    BY <1>3, <2>1
<1>6. CASE WorkerEnds \/ Upgrade
  <2>1. (Goes("end") /\ ~ running) \/ (Goes("upgraded") /\ w.pc \in Busy)
    BY <1>6, Zenon DEF WorkerEnds, Upgrade, Busy
  <2>2. "end" \in {"end"} \cup Busy /\ "upgraded" \in Busy /\ "end" \notin Busy
    BY DEF Busy
  <2> QED
    BY <1>4, <2>1, <2>2
<1>7. CASE Read
  <2>1. w.pc \in Busy /\ (Passes \/ Goes("upgrade") \/ Goes("handler"))
    BY <1>7, Zenon DEF Read, Has, Busy
  <2>2. "upgrade" \in Busy /\ "handler" \in Busy
    BY DEF Busy
  <2> QED
    BY <1>3, <1>4, <2>1, <2>2
<1>8. CASE Snapshot
  <2>1. w' = [w EXCEPT !.pc = "poll", !.todo = conns',
                    !.ready = [c \in Client |-> IF Listed(c) THEN Watched(c) ELSE {}]]
    BY <1>8 DEF Snapshot, Begins
  <2>2. \A c \in Client : Watched(c) \in SUBSET Wanted
    BY DEF Watched, Wanted
  <2> DEFINE ready == [c \in Client |-> IF Listed(c) THEN Watched(c) ELSE {}]
  <2>3. ready \in [Client -> SUBSET Wanted]
    BY <2>2
  <2> HIDE DEF ready
  <2>4. w' \in Work /\ w'.pc = "poll" /\ w'.todo = conns'
    BY <1>0, <2>1, <2>3 DEF Work, ready
  <2> QED
    BY <2>4 DEF WorkerTypes, Work, Busy, TodoGoes
<1>9. CASE Poll
  <2>1. PICK broken \in SUBSET {c \in ToSet(w.todo) : peer[c] = "gone"} :
         LET ready == [c \in Client |-> Polled(c, w.ready[c]) \cup
                                         IF c \in broken THEN {"err"} ELSE {}]
             todo  == Kept(w.todo, {c \in Client : ready[c] # {}})
         IN  w' = IF \E c \in Client : Waiting(c)
                  THEN [w EXCEPT !.pc = "accept", !.todo = todo, !.ready = ready]
                  ELSE IF todo = <<>> THEN Top
                  ELSE [w EXCEPT !.pc = "serve", !.todo = todo, !.ready = ready]
    BY <1>9 DEF Poll
  <2> DEFINE ready == [c \in Client |-> Polled(c, w.ready[c]) \cup IF c \in broken THEN {"err"} ELSE {}]
             some == {c \in Client : ready[c] # {}}
             todo == Kept(w.todo, some)
  <2>2. ready \in [Client -> SUBSET Wanted]
    <3>1. \A c \in Client : w.ready[c] \in SUBSET Wanted
      BY WorkIs
    <3>2. \A c \in Client : Polled(c, w.ready[c]) \in SUBSET Wanted
      BY <3>1 DEF Polled
    <3> QED
      BY <3>2 DEF Wanted
  <2> HIDE DEF ready, some
  <2>3. todo \in Seq(Client)
    BY <1>0, KeptIs
  <2>4. \A i \in DOMAIN todo : \E j \in DOMAIN w.todo : todo[i] = w.todo[j]
    BY <1>0, KeptIs
  <2> HIDE DEF todo
  <2>5. \/ w' = [w EXCEPT !.pc = "accept", !.todo = todo, !.ready = ready]
        \/ w' = Top
        \/ todo # <<>> /\ w' = [w EXCEPT !.pc = "serve", !.todo = todo, !.ready = ready]
    BY <2>1 DEF todo, some, ready
  <2>6. CASE w' = [w EXCEPT !.pc = "accept", !.todo = todo, !.ready = ready]
    <3>1. w' \in Work /\ w'.pc = "accept" /\ w'.todo = todo
      BY <1>0, <2>2, <2>3, <2>6 DEF Work
    <3> QED
      BY <2>4, <3>1 DEF WorkerTypes, Work, Busy, TodoGoes
  <2>7. CASE w' = Top
    BY <2>7, WorkIs, Nothings DEF WorkerTypes, Work, Busy, TodoGoes
  <2>8. CASE todo # <<>> /\ w' = [w EXCEPT !.pc = "serve", !.todo = todo, !.ready = ready]
    <3>1. w' \in Work /\ w'.pc = "serve" /\ w'.todo = todo
      BY <1>0, <2>2, <2>3, <2>8 DEF Work, Busy
    <3> QED
      BY <2>4, <2>8, <3>1 DEF WorkerTypes, Work, Busy, TodoGoes
  <2> QED
    BY <2>5, <2>6, <2>7, <2>8
<1>10. CASE TakeChunk
  <2> DEFINE rest == SubSeq(out[Here], written[Here] + 1, Len(out[Here]))
  <2>1. w.pc \in Busy /\ w' = [w EXCEPT !.pc = "send", !.chunk = rest]
    BY <1>10 DEF TakeChunk, Has, Busy
  <2>2. Here \in Client
    BY <2>1, HereIs
  <2>3. rest \in Seq(Unit)
    <3>1. out[Here] \in Seq(Unit) /\ written[Here] \in Nat /\ written[Here] <= Len(out[Here])
      BY <2>2 DEF ConnTypes
    <3> QED
      BY <3>1, RestIs
  <2> HIDE DEF rest
  <2>4. w' \in Work /\ w'.pc = "send" /\ w'.todo = w.todo
    BY <1>0, <2>1, <2>3 DEF Work, Busy
  <2> QED
    BY <2>1, <2>4 DEF WorkerTypes, Work, TodoGoes
<1>11. CASE Send
  <2>1. PICK n \in 1 .. Len(w.chunk) : w' = [w EXCEPT !.pc = "account", !.took = n]
    BY <1>11, Zenon DEF Send
  <2>2. w.pc \in Busy /\ n \in Nat
    BY <1>11 DEF Send, Busy
  <2>3. w' \in Work /\ w'.pc = "account" /\ w'.todo = w.todo
    BY <1>0, <2>1, <2>2 DEF Work, Busy
  <2> QED
    BY <2>2, <2>3 DEF WorkerTypes, Work, TodoGoes
<1>12. CASE Next /\ ~ Working
  <2>1. UNCHANGED w
    BY <1>12, Zenon DEF Next, Casting, Make, Lock, Visit, AddFrame, Beat, Event, StopServer, Join,
       Browse, Turn
  <2> QED
    BY <1>1, <2>1
<1>13. CASE UNCHANGED vars
  BY <1>1, <1>13 DEF vars
<1> QED
  BY <1>2, <1>5, <1>6, <1>7, <1>8, <1>9, <1>10, <1>11, <1>12, <1>13 DEF Working

\* What an event and a handler broadcast.
What == {"data", "activity", "link", "beat"}

LEMMA FramesIs == /\ \A e \in Events : FramesOf(e) \in Seq(What)
                  /\ FramesOf("heard") \in Seq(What) /\ <<"beat">> \in Seq(What)
<1>1. ASSUME NEW e \in {"connected", "heard", "known", "direct", "traced", "neighbours"}
      PROVE  FramesOf(e) \in Seq(What)
  <2> USE DEF FramesOf, What
  <2>1. CASE e = "connected"
    BY <2>1
  <2>2. CASE e = "heard"
    BY <2>2
  <2>3. CASE e = "known"
    BY <2>3
  <2>4. CASE e = "direct"
    BY <2>4
  <2>5. CASE e = "traced"
    BY <2>5
  <2>6. CASE e = "neighbours"
    BY <2>6
  <2> QED
    BY <2>1, <2>2, <2>3, <2>4, <2>5, <2>6
<1>2. <<"beat">> \in Seq(What)
  BY DEF What
<1> QED
  BY <1>1, <1>2, HttpAssumption DEF HttpAssumption

\* How a thread's broadcast goes on: a frame is made, every connection of the
\* list is visited, and a stream is added to.
Becomes(t, pc, left, frame) == cast'[t].pc = pc /\ cast'[t].left = left /\ cast'[t].frame = frame
CastSteps(t) ==
    \/ cast'[t] = cast[t] /\ made'[t] = made[t]
    \/ Make(t) /\ made'[t] = made[t] + 1 /\ Becomes(t, "lock", <<>>, NextFrame(t))
    \/ cast'[t] = Idle /\ made'[t] = made[t]
    \/ /\ cast[t].pc = "lock" /\ conns # <<>> /\ made'[t] = made[t]
       /\ Becomes(t, "visit", conns, cast[t].frame)
    \/ /\ cast[t].pc \in {"visit", "append"} /\ Len(cast[t].left) # 1 /\ made'[t] = made[t]
       /\ Becomes(t, "visit", Tail(cast[t].left), cast[t].frame)
    \/ /\ cast[t].pc = "visit" /\ state[Head(cast[t].left)] = Streaming /\ made'[t] = made[t]
       /\ Becomes(t, "append", cast[t].left, cast[t].frame)
CastGoes == /\ cast' \in [Thread -> Passing] /\ made' \in [Thread -> Nat]
            /\ \A t \in Thread : CastSteps(t)

\* The frame a thread makes.
LEMMA NextFrameIs ==
    ASSUME CastTypes, NEW t \in Thread, due[t] # <<>>
    PROVE  NextFrame(t) \in Frame /\ NextFrame(t).from = t /\ NextFrame(t).n = made[t] + 1
<1>1. due[t] \in Seq(What) /\ made[t] \in Nat
  BY DEF CastTypes, What
<1>2. Head(due[t]) \in What
  BY <1>1, HeadTailProperties
<1> QED
  BY <1>1, <1>2 DEF NextFrame, Frame, What

LEMMA StepCast == Types /\ Casts /\ [Next]_vars => CastGoes
<1> SUFFICES ASSUME ConnTypes, CastTypes, Casts, [Next]_vars PROVE CastGoes
  BY DEF Types
<1>0. cast \in [Thread -> Passing] /\ made \in [Thread -> Nat] /\ conns \in Seq(Client)
  BY DEF CastTypes, ConnTypes
<1>1. CASE UNCHANGED <<cast, made>>
  BY <1>0, <1>1 DEF CastGoes, CastSteps
<1>2. ASSUME NEW t \in Thread, NEW p \in Passing, cast' = [cast EXCEPT ![t] = p], UNCHANGED made
      PROVE  /\ cast' \in [Thread -> Passing] /\ made' \in [Thread -> Nat] /\ cast'[t] = p
             /\ \A u \in Thread : made'[u] = made[u]
             /\ \A u \in Thread : u # t => cast'[u] = cast[u]
  BY <1>0, <1>2
<1>3. ASSUME NEW t \in Thread, Make(t) PROVE CastGoes
  <2> DEFINE p == [Idle EXCEPT !.pc = "lock", !.frame = NextFrame(t)]
  <2>1. cast' = [cast EXCEPT ![t] = p] /\ made' = [made EXCEPT ![t] = made[t] + 1] /\ due[t] # <<>>
    BY <1>3 DEF Make
  <2>2. NextFrame(t) \in Frame
    BY <2>1, NextFrameIs
  <2>3. Idle \in Passing /\ Idle.left = <<>>
    BY DEF Idle, Passing
  <2>4. p \in Passing /\ p.pc = "lock" /\ p.left = <<>> /\ p.frame = NextFrame(t)
    BY <2>2, <2>3 DEF Passing
  <2> HIDE DEF p
  <2>5. /\ cast' \in [Thread -> Passing] /\ made' \in [Thread -> Nat]
        /\ made'[t] = made[t] + 1 /\ cast'[t] = p
        /\ \A u \in Thread : u # t => made'[u] = made[u] /\ cast'[u] = cast[u]
    BY <1>0, <2>1, <2>4
  <2> QED
    BY <1>3, <2>4, <2>5 DEF CastGoes, CastSteps, Becomes
<1>4. ASSUME NEW t \in Thread, UNCHANGED made, cast' = [cast EXCEPT ![t] = Idle] PROVE CastGoes
  <2>1. Idle \in Passing
    BY DEF Idle, Passing
  <2> QED
    BY <1>2, <1>4, <2>1 DEF CastGoes, CastSteps
<1>5. ASSUME NEW t \in Thread, Lock(t) PROVE CastGoes
  <2>1. UNCHANGED made
    BY <1>5 DEF Lock
  <2>2. CASE conns = <<>>
    BY <1>4, <1>5, <2>1, <2>2 DEF Lock
  <2>3. CASE conns # <<>>
    <3> DEFINE p == [cast[t] EXCEPT !.pc = "visit", !.left = conns]
    <3>1. cast' = [cast EXCEPT ![t].pc = "visit", ![t].left = conns] /\ cast[t].pc = "lock"
      BY <1>5, <2>3 DEF Lock
    <3>2. cast' = [cast EXCEPT ![t] = p]
      BY <1>0, <3>1 DEF Passing
    <3>4. cast[t] \in Passing
      BY <1>0
    <3>3. p \in Passing /\ p.pc = "visit" /\ p.left = conns /\ p.frame = cast[t].frame
      BY <1>0, <3>4 DEF Passing
    <3> HIDE DEF p
    <3> QED
      BY <1>2, <2>1, <2>3, <3>1, <3>2, <3>3 DEF CastGoes, CastSteps, Becomes
  <2> QED
    BY <2>2, <2>3
<1>6. ASSUME NEW t \in Thread, cast[t].pc \in {"visit", "append"}, UNCHANGED made, Advances(t) PROVE CastGoes
  <2>1. CASE Len(cast[t].left) = 1
    BY <1>4, <1>6, <2>1 DEF Advances
  <2>2. CASE Len(cast[t].left) # 1
    <3> DEFINE rest == Tail(cast[t].left)
               p == [cast[t] EXCEPT !.pc = "visit", !.left = rest]
    <3>1. cast' = [cast EXCEPT ![t].pc = "visit", ![t].left = rest]
      BY <1>6, <2>2 DEF Advances
    <3>2. cast[t].left \in Seq(Client) /\ cast[t].left # <<>>
      BY <1>0, <1>6 DEF Passing, Casts
    <3>3. rest \in Seq(Client)
      BY <3>2, HeadTailProperties
    <3> HIDE DEF rest
    <3>4. cast' = [cast EXCEPT ![t] = p]
      BY <1>0, <3>1 DEF Passing
    <3>6. cast[t] \in Passing
      BY <1>0
    <3>5. p \in Passing /\ p.pc = "visit" /\ p.left = rest /\ p.frame = cast[t].frame
      BY <3>3, <3>6 DEF Passing
    <3> HIDE DEF p
    <3> QED
      BY <1>2, <1>6, <2>2, <3>4, <3>5 DEF CastGoes, CastSteps, Becomes, rest
  <2> QED
    BY <2>1, <2>2
<1>7. ASSUME NEW t \in Thread, Visit(t) PROVE CastGoes
  <2>1. UNCHANGED made /\ cast[t].pc = "visit"
    BY <1>7 DEF Visit
  <2>2. CASE state[Head(cast[t].left)] # Streaming
    BY <1>6, <1>7, <2>1, <2>2 DEF Visit
  <2>3. CASE state[Head(cast[t].left)] = Streaming
    <3> DEFINE p == [cast[t] EXCEPT !.pc = "append"]
    <3>1. cast' = [cast EXCEPT ![t].pc = "append"]
      BY <1>7, <2>3 DEF Visit
    <3>2. cast' = [cast EXCEPT ![t] = p]
      BY <1>0, <3>1 DEF Passing
    <3>4. cast[t] \in Passing
      BY <1>0
    <3>3. p \in Passing /\ p.pc = "append" /\ p.left = cast[t].left /\ p.frame = cast[t].frame
      BY <3>4 DEF Passing
    <3> HIDE DEF p
    <3> QED
      BY <1>2, <2>1, <2>3, <3>2, <3>3 DEF CastGoes, CastSteps, Becomes
  <2> QED
    BY <2>2, <2>3
<1>8. ASSUME NEW t \in Thread, AddFrame(t) PROVE CastGoes
  <2>1. UNCHANGED made /\ cast[t].pc = "append" /\ Advances(t)
    BY <1>8 DEF AddFrame
  <2> QED
    BY <1>6, <2>1
<1>9. CASE Next /\ ~ \E t \in Thread : Casting(t)
  <2>1. UNCHANGED <<cast, made>>
    BY <1>9, Zenon DEF Next, Working, Snapshot, Poll, Accept, Hangup, WorkerEnds, ReadCloses, Read,
       Respond, Upgrade, Upgraded, TakeChunk, Send, SendFails, Account, Beat, Event, StopServer, Join,
       Browse, Turn, castVars
  <2> QED
    BY <1>1, <2>1
<1>10. CASE UNCHANGED vars
  BY <1>1, <1>10 DEF vars, castVars
<1> QED
  BY <1>3, <1>5, <1>7, <1>8, <1>9, <1>10 DEF Casting

\* What has been recorded stays so, until KeepRecent newer packets have come.
RecentGoes == /\ recent' \in Seq(Frame) /\ Len(recent') <= KeepRecent /\ links' \in SUBSET Frame
              /\ \A f : IsRecorded(f) => IsRecorded(f)'

LEMMA MakeRecords ==
    ASSUME CastTypes, NEW t \in Thread, Make(t), NEW f, f = NextFrame(t)
    PROVE  RecentGoes /\ IsRecorded(f)'
<1>0. /\ recent \in Seq(Frame) /\ Len(recent) <= KeepRecent /\ links \in SUBSET Frame
      /\ KeepRecent \in Nat /\ KeepRecent >= 1 /\ Len(recent) \in Nat /\ DOMAIN recent = 1 .. Len(recent)
  BY Threads, LenProperties DEF CastTypes
<1>1. f \in Frame
  BY NextFrameIs DEF Make
<1>2. Recorded(f)
  BY DEF Make
<1>3. CASE f.is # "activity"
  <2>1. recent' = recent /\ links' = IF f.is = "link" THEN links \cup {f} ELSE links
    BY <1>2, <1>3 DEF Recorded
  <2>2. links' \in SUBSET Frame /\ links \subseteq links' /\ (f.is = "link" => f \in links')
    BY <1>0, <1>1, <2>1
  <2> QED
    BY <1>0, <1>3, <2>1, <2>2 DEF RecentGoes, IsRecorded
<1>4. CASE f.is = "activity" /\ Len(recent) = KeepRecent
  <2>1. recent' = Append(Tail(recent), f) /\ links' = links
    BY <1>2, <1>4 DEF Recorded
  <2>2. recent # <<>>
    BY <1>0, <1>4, Nothings
  <2>3. Tail(recent) \in Seq(Frame)
    BY <1>0, <2>2, HeadTailProperties
  <2>4. Len(Tail(recent)) = Len(recent) - 1
    BY <1>0, <2>2, HeadTailProperties
  <2> DEFINE rest == Tail(recent)
  <2> HIDE DEF rest
  <2>5. rest \in Seq(Frame) /\ recent' = Append(rest, f)
    BY <2>1, <2>3 DEF rest
  <2>6. recent' \in Seq(Frame) /\ Len(recent') = Len(rest) + 1
    BY <1>1, <2>5, AppendProperties
  <2>7. Len(recent') = KeepRecent
    BY <1>0, <1>4, <2>4, <2>6 DEF rest
  <2> QED
    BY <1>0, <1>4, <2>1, <2>6, <2>7 DEF RecentGoes, IsRecorded
<1>5. CASE f.is = "activity" /\ Len(recent) # KeepRecent
  <2>1. recent' = Append(recent, f) /\ links' = links
    BY <1>2, <1>5 DEF Recorded
  <2>2. recent' \in Seq(Frame)
    BY <1>0, <1>1, <2>1, AppendProperties
  <2>3. Len(recent') = Len(recent) + 1
    BY <1>0, <1>1, <2>1, AppendProperties
  <2>4. (\A i \in 1 .. Len(recent) : recent'[i] = recent[i]) /\ recent'[Len(recent) + 1] = f
    BY <1>0, <1>1, <2>1, AppendProperties
  <2>5. DOMAIN recent' = 1 .. Len(recent) + 1 /\ Len(recent') <= KeepRecent
    <3>1. DOMAIN recent' = 1 .. Len(recent')
      BY <2>2, LenProperties
    <3>3. \A m, k \in Nat : m <= k /\ m # k => m + 1 <= k
      OBVIOUS
    <3>2. Len(recent) + 1 <= KeepRecent
      BY <1>0, <1>5, <3>3
    <3> QED
      BY <2>3, <3>1, <3>2
  <2>6. ToSet(recent) \subseteq ToSet(recent') /\ f \in ToSet(recent')
    BY <1>0, <2>4, <2>5 DEF ToSet
  <2>7. \A g : IsRecorded(g) => IsRecorded(g)'
    BY <1>5, <2>1, <2>6 DEF IsRecorded
  <2> QED
    BY <1>0, <1>5, <2>1, <2>2, <2>5, <2>6, <2>7 DEF RecentGoes, IsRecorded
<1> QED
  BY <1>3, <1>4, <1>5

LEMMA StepRecent == Types /\ [Next]_vars => RecentGoes
<1> SUFFICES ASSUME CastTypes, [Next]_vars PROVE RecentGoes
  BY DEF Types
<1>1. CASE UNCHANGED <<recent, links>>
  BY <1>1 DEF CastTypes, RecentGoes, IsRecorded
<1>2. CASE \E t \in Thread : Make(t)
  BY <1>2, MakeRecords
<1>3. CASE Next /\ ~ \E t \in Thread : Make(t)
  <2>1. UNCHANGED <<recent, links>>
    BY <1>3, Zenon DEF Next, Working, Snapshot, Poll, Accept, Hangup, WorkerEnds, ReadCloses, Read,
       Respond, Upgrade, Upgraded, TakeChunk, Send, SendFails, Account, Casting, Lock, Visit,
       AddFrame, Beat, Event, StopServer, Join, Browse, Turn, castVars
  <2> QED
    BY <1>1, <2>1
<1>4. CASE UNCHANGED vars
  BY <1>1, <1>4 DEF vars, castVars
<1> QED
  BY <1>2, <1>3, <1>4

LEMMA StepCastTypes == Types /\ Casts /\ [Next]_vars => CastTypes'
<1> SUFFICES ASSUME Types, Casts, [Next]_vars PROVE CastTypes'
  OBVIOUS
<1>0. due \in [Thread -> Seq(What)]
  BY DEF Types, CastTypes, What
<1>1. due' \in [Thread -> Seq(What)]
  <2>1. CASE UNCHANGED due
    BY <1>0, <2>1
  <2>2. ASSUME NEW t \in Thread, NEW s \in Seq(What), due' = [due EXCEPT ![t] = s]
        PROVE  due' \in [Thread -> Seq(What)]
    BY <1>0, <2>2
  <2>3. ASSUME NEW t \in Thread, Make(t) PROVE due' \in [Thread -> Seq(What)]
    <3>1. due' = [due EXCEPT ![t] = Tail(due[t])] /\ due[t] # <<>>
      BY <2>3 DEF Make
    <3>2. Tail(due[t]) \in Seq(What)
      BY <1>0, <3>1, HeadTailProperties
    <3> QED
      BY <2>2, <3>1, <3>2
  <2>4. ASSUME NEW t \in Caster, Event(t) PROVE due' \in [Thread -> Seq(What)]
    <3>1. t \in Thread /\ \E e \in Events : due' = [due EXCEPT ![t] = FramesOf(e)]
      BY <2>4, Threads DEF Event
    <3> QED
      BY <2>2, <3>1, FramesIs
  <2>5. CASE Beat
    BY <2>2, <2>5, FramesIs, Threads DEF Beat
  <2>6. CASE Read
    <3>1. UNCHANGED due \/ due' = [due EXCEPT ![Worker] = FramesOf("heard")]
      BY <2>6, Zenon DEF Read
    <3> QED
      BY <2>1, <2>2, <3>1, FramesIs, Threads
  <2>7. CASE Next /\ ~ (Beat \/ Read \/ (\E t \in Caster : Event(t)) \/ \E t \in Thread : Make(t))
    <3>1. UNCHANGED due
      BY <2>7, Zenon DEF Next, Working, Snapshot, Poll, Accept, Hangup, WorkerEnds, ReadCloses,
         Respond, Upgrade, Upgraded, TakeChunk, Send, SendFails, Account, Casting, Lock, Visit,
         AddFrame, StopServer, Join, Browse, Turn, castVars
    <3> QED
      BY <2>1, <3>1
  <2>8. CASE UNCHANGED vars
    BY <2>1, <2>8 DEF vars, castVars
  <2> QED
    BY <2>3, <2>4, <2>5, <2>6, <2>7, <2>8
<1>2. cast' \in [Thread -> Passing] /\ made' \in [Thread -> Nat]
  BY StepCast DEF CastGoes
<1>3. recent' \in Seq(Frame) /\ Len(recent') <= KeepRecent /\ links' \in SUBSET Frame
  BY StepRecent DEF RecentGoes
<1> QED
  BY <1>1, <1>2, <1>3 DEF CastTypes, What

LEMMA StepTypes == Types /\ Casts /\ Opened /\ Serving /\ [Next]_vars => Types'
  BY StepNetTypes, StepConnTypes, StepWork, StepCastTypes, Zenon DEF Types, ConnTypes

-----------------------------------------------------------------------------
(* The steps of the invariant *)

\* What is left of a list, without its first connection.
LEMMA TailIs ==
    ASSUME NEW s \in Seq(Client), s # <<>>
    PROVE  /\ Tail(s) \in Seq(Client) /\ Head(s) \in Client
           /\ Len(s) # 1 => Tail(s) # <<>>
           /\ \A i \in DOMAIN Tail(s) : i + 1 \in DOMAIN s /\ i + 1 # 1 /\ Tail(s)[i] = s[i + 1]
           /\ IsInjective(s) => /\ IsInjective(Tail(s))
                                /\ \A i \in DOMAIN Tail(s) : Tail(s)[i] # Head(s)
<1> DEFINE r == Tail(s)
<1>1. r \in Seq(Client) /\ Head(s) \in Client
  BY HeadTailProperties
<1>2. Len(r) = Len(s) - 1 /\ \A i \in 1 .. Len(r) : r[i] = s[i + 1]
  BY HeadTailProperties
<1>3. Head(s) = s[1] /\ 1 \in DOMAIN s
  OBVIOUS
<1> HIDE DEF r
<1>4. Len(s) \in Nat /\ DOMAIN s = 1 .. Len(s) /\ Len(r) \in Nat /\ DOMAIN r = 1 .. Len(r)
  BY <1>1, LenProperties
<1>5. \A i \in DOMAIN r : i + 1 \in DOMAIN s /\ i + 1 # 1 /\ r[i] = s[i + 1]
  BY <1>2, <1>4
<1>6. Len(s) # 1 => r # <<>>
  <2>1. \A m \in Nat : m # 1 => m - 1 # 0
    OBVIOUS
  <2> QED
    BY <1>2, <1>4, <2>1, Nothings
<1>7. IsInjective(s) => IsInjective(r) /\ \A i \in DOMAIN r : r[i] # Head(s)
  <2> SUFFICES ASSUME IsInjective(s) PROVE IsInjective(r) /\ \A i \in DOMAIN r : r[i] # Head(s)
    OBVIOUS
  <2>1. ASSUME NEW i \in DOMAIN r, NEW j \in DOMAIN r, r[i] = r[j] PROVE i = j
    <3>1. i + 1 = j + 1
      BY <1>5, <2>1 DEF IsInjective
    <3> QED
      BY <1>4, <3>1
  <2>2. \A i \in DOMAIN r : r[i] # Head(s)
    BY <1>3, <1>5 DEF IsInjective
  <2> QED
    BY <2>1, <2>2 DEF IsInjective
<1> QED
  BY <1>1, <1>5, <1>6, <1>7 DEF r

\* A stream becomes nothing but closed, and what is closed stays so.
LEMMA StreamsClose ==
    StateGoes => \A c \in Client : state[c] \in {Streaming, "Closed"} => state'[c] \in {Streaming, "Closed"}
  BY DEF StateGoes, StateSteps, Streaming

LEMMA StepCasts == Types /\ Casts /\ StateGoes /\ [Next]_vars => Casts'
<1> SUFFICES ASSUME Types, Casts, StateGoes, [Next]_vars, NEW t \in Thread
             PROVE  /\ cast'[t].pc # "none" => cast'[t].frame \in Frame /\ cast'[t].frame.from = t
                                               /\ cast'[t].frame.n = made'[t]
                    /\ cast'[t].pc \in {"visit", "append"} =>
                           cast'[t].left # <<>> /\ IsInjective(cast'[t].left)
                    /\ cast'[t].pc = "append" => state'[Head(cast'[t].left)] \in {Streaming, "Closed"}
  BY DEF Casts
<1>0. /\ cast[t].pc # "none" => cast[t].frame \in Frame /\ cast[t].frame.from = t
                                  /\ cast[t].frame.n = made[t]
      /\ cast[t].pc \in {"visit", "append"} => cast[t].left # <<>> /\ IsInjective(cast[t].left)
      /\ cast[t].pc = "append" => state[Head(cast[t].left)] \in {Streaming, "Closed"}
      /\ cast[t].left \in Seq(Client) /\ made[t] \in Nat
      /\ conns \in Seq(Client) /\ IsInjective(conns)
  BY DEF Types, ConnTypes, CastTypes, Casts, Passing
<1>1. CASE cast'[t] = cast[t] /\ made'[t] = made[t]
  <2>1. ASSUME cast[t].pc = "append" PROVE state'[Head(cast[t].left)] \in {Streaming, "Closed"}
    <3>1. Head(cast[t].left) \in Client
      BY <1>0, <2>1, TailIs
    <3> QED
      BY <1>0, <2>1, <3>1, StreamsClose
  <2> QED
    BY <1>0, <1>1, <2>1
<1>2. CASE Make(t) /\ made'[t] = made[t] + 1 /\ Becomes(t, "lock", <<>>, NextFrame(t))
  <2>1. NextFrame(t) \in Frame /\ NextFrame(t).from = t /\ NextFrame(t).n = made[t] + 1
    BY <1>2, NextFrameIs DEF Make, Types
  <2> QED
    BY <1>2, <2>1 DEF Becomes
<1>3. CASE cast'[t] = Idle /\ made'[t] = made[t]
  BY <1>3 DEF Idle
<1>4. CASE /\ cast[t].pc = "lock" /\ conns # <<>> /\ made'[t] = made[t]
           /\ Becomes(t, "visit", conns, cast[t].frame)
  BY <1>0, <1>4 DEF Becomes
<1>5. CASE /\ cast[t].pc \in {"visit", "append"} /\ Len(cast[t].left) # 1 /\ made'[t] = made[t]
           /\ Becomes(t, "visit", Tail(cast[t].left), cast[t].frame)
  <2>1. Tail(cast[t].left) # <<>> /\ IsInjective(Tail(cast[t].left))
    BY <1>0, <1>5, TailIs
  <2> QED
    BY <1>0, <1>5, <2>1 DEF Becomes
<1>6. CASE /\ cast[t].pc = "visit" /\ state[Head(cast[t].left)] = Streaming /\ made'[t] = made[t]
           /\ Becomes(t, "append", cast[t].left, cast[t].frame)
  <2>1. state'[Head(cast[t].left)] \in {Streaming, "Closed"}
    BY <1>0, <1>6, TailIs, StreamsClose
  <2> QED
    BY <1>0, <1>6, <2>1 DEF Becomes
<1>7. CastSteps(t)
  BY StepCast DEF CastGoes
<1> QED
  BY <1>1, <1>2, <1>3, <1>4, <1>5, <1>6, <1>7 DEF CastSteps

LEMMA StepEnds == Types /\ Opened /\ StateGoes /\ Ends /\ [Next]_vars => Ends'
<1> SUFFICES ASSUME Opened, Types, StateGoes, Ends, [Next]_vars PROVE Ends'
  OBVIOUS
<1>0. /\ stopping # "no" => ~ running
      /\ w.pc = "end" => ~ running
      /\ stopping = "done" => w.pc = "end" /\ \A c \in Client : state[c] \in {"None", "Closed"}
      /\ running \in BOOLEAN /\ stopping \in {"no", "join", "done"}
  BY DEF Ends, Types, ConnTypes
<1>1. CASE StopServer
  BY <1>1 DEF StopServer, Ends
<1>2. CASE Join
  <2>1. /\ running' = running /\ w' = w /\ stopping = "join" /\ w.pc = "end"
        /\ state' = [c \in Client |-> IF Listed(c) THEN "Closed" ELSE state[c]]
    BY <1>2 DEF Join
  <2>2. \A c \in Client : state'[c] \in {"None", "Closed"}
    BY <2>1 DEF Opened
  <2> QED
    BY <1>0, <2>1, <2>2 DEF Ends
<1>3. CASE Working
  <2>1. UNCHANGED <<running, stopping>>
    BY <1>3, Zenon DEF Working, Snapshot, Poll, Accept, Hangup, WorkerEnds, ReadCloses, Read,
       Respond, Upgrade, Upgraded, TakeChunk, Send, SendFails, Account
  <2>2. w.pc # "end"
    BY <1>3 DEF Working, Snapshot, Poll, Accept, Hangup, WorkerEnds, ReadCloses, Read,
       Respond, Upgrade, Upgraded, TakeChunk, Send, SendFails, Account, Has
  <2>3. w'.pc = "end" => ~ running
    BY <1>0, StepWork, StepList DEF TodoGoes
  <2> QED
    BY <1>0, <2>1, <2>2, <2>3 DEF Ends
<1>4. CASE Next /\ ~ Working /\ ~ StopServer /\ ~ Join
  <2>1. UNCHANGED <<running, stopping, w, state>>
    BY <1>4, Zenon DEF Next, Casting, Make, Lock, Visit, AddFrame, Beat, Event, Browse, Turn, connVars
  <2> QED
    BY <2>1 DEF Ends
<1>5. CASE UNCHANGED vars
  BY <1>5 DEF vars, connVars, Ends
<1> QED
  BY <1>1, <1>2, <1>3, <1>4, <1>5

\* Where what an output holds comes from.
UnitsGo(c) ==
    \A i \in DOMAIN out'[c] :
        \/ \E j \in DOMAIN out[c] : out'[c][i] = out[c][j]
        \/ out'[c][i].of.from = NoOne /\ out'[c][i].of.is \in {"header", "answer"}
        \/ \E t \in Thread : /\ cast[t].pc = "append" /\ AddFrame(t) /\ c = Head(cast[t].left)
                             /\ out'[c][i].of = cast[t].frame

\* The units of a sequence that a frame has been added to.
LEMMA AddedIs ==
    ASSUME NEW s \in Seq(Unit), NEW f \in Frame
    PROVE  /\ s \o Halves(f) \in Seq(Unit) /\ Len(s \o Halves(f)) = Len(s) + 2
           /\ \A i \in 1 .. Len(s) : (s \o Halves(f))[i] = s[i]
           /\ (s \o Halves(f))[Len(s) + 1] = [of |-> f, part |-> 1]
           /\ (s \o Halves(f))[Len(s) + 2] = [of |-> f, part |-> 2]
<1> DEFINE h == Halves(f)
<1>1. h \in Seq(Unit) /\ Len(h) = 2 /\ h[1] = [of |-> f, part |-> 1] /\ h[2] = [of |-> f, part |-> 2]
  BY Beginnings
<1>2. Len(s) \in Nat
  BY LenProperties
<1> HIDE DEF h
<1> DEFINE r == s \o h
<1>3. r \in Seq(Unit)
  BY <1>1, ConcatProperties
<1>4. Len(r) = Len(s) + Len(h)
  BY <1>1, ConcatProperties
<1>5. \A i \in 1 .. Len(s) + Len(h) : r[i] = IF i <= Len(s) THEN s[i] ELSE h[i - Len(s)]
  BY <1>1, ConcatProperties
<1> HIDE DEF r
<1>6. \A i \in 1 .. Len(s) : r[i] = s[i]
  BY <1>1, <1>2, <1>5
<1>7. r[Len(s) + 1] = h[1]
  <2>1. \A m \in Nat : m + 1 \in 1 .. m + 2 /\ ~ (m + 1 <= m) /\ m + 1 - m = 1
    OBVIOUS
  <2> QED
    BY <1>1, <1>2, <1>5, <2>1
<1>8. r[Len(s) + 2] = h[2]
  <2>1. \A m \in Nat : m + 2 \in 1 .. m + 2 /\ ~ (m + 2 <= m) /\ m + 2 - m = 2
    OBVIOUS
  <2> QED
    BY <1>1, <1>2, <1>5, <2>1
<1> QED
  BY <1>1, <1>3, <1>4, <1>6, <1>7, <1>8 DEF r, h

LEMMA StepUnits == Types /\ Casts /\ [Next]_vars => \A c \in Client : UnitsGo(c)
<1> SUFFICES ASSUME Types, Casts, [Next]_vars, NEW c \in Client PROVE UnitsGo(c)
  OBVIOUS
<1>0. out[c] \in Seq(Unit) /\ written[c] \in Nat /\ written[c] <= Len(out[c]) /\ Len(out[c]) \in Nat
      /\ DOMAIN out[c] = 1 .. Len(out[c])
  BY LenProperties DEF Types, ConnTypes
<1>1. CASE OutKept(c) \/ OutAccounted(c)
  BY <1>1 DEF OutKept, OutAccounted, UnitsGo
<1>2. CASE OutEmptied(c)
  BY <1>2, Nothings DEF OutEmptied, UnitsGo
<1>3. CASE OutBegun(c)
  <2>1. CASE out'[c] = <<Header>>
    <3>1. DOMAIN out'[c] = {1} /\ out'[c][1] = Header
      BY <2>1
    <3> QED
      BY <3>1, Beginnings DEF UnitsGo
  <2>2. CASE out'[c] = Halves(Fixed("answer"))
    <3> DEFINE f == Fixed("answer")
    <3>1. DOMAIN out'[c] = {1, 2} /\ out'[c][1].of = f /\ out'[c][2].of = f
      BY <2>2 DEF Halves
    <3>2. f.from = NoOne /\ f.is = "answer"
      BY Beginnings
    <3> HIDE DEF f
    <3> QED
      BY <3>1, <3>2 DEF UnitsGo
  <2> QED
    BY <1>3, <2>1, <2>2 DEF OutBegun
<1>4. CASE OutCut(c)
  <2> DEFINE rest == SubSeq(out[c], written[c] + 1, Len(out[c]))
  <2>1. out'[c] = rest
    BY <1>4 DEF OutCut
  <2>2. rest \in Seq(Unit) /\ Len(rest) = Len(out[c]) - written[c]
        /\ \A i \in 1 .. Len(out[c]) - written[c] : rest[i] = out[c][written[c] + i]
    BY <1>0, RestIs
  <2> HIDE DEF rest
  <2>3. DOMAIN rest = 1 .. Len(out[c]) - written[c]
    BY <2>2, LenProperties
  <2>4. \A i \in DOMAIN rest : written[c] + i \in DOMAIN out[c] /\ rest[i] = out[c][written[c] + i]
    BY <1>0, <2>2, <2>3
  <2> QED
    BY <2>1, <2>4 DEF UnitsGo
<1>5. CASE OutAdded(c)
  <2>1. PICK t \in Thread : /\ cast[t].pc = "append" /\ AddFrame(t) /\ c = Head(cast[t].left)
                            /\ out'[c] = out[c] \o Halves(cast[t].frame)
    BY <1>5 DEF OutAdded, AddFrame
  <2> DEFINE f == cast[t].frame
             r == out[c] \o Halves(f)
  <2>2. f \in Frame
    BY <2>1 DEF Casts
  <2> HIDE DEF f
  <2>3. r \in Seq(Unit) /\ Len(r) = Len(out[c]) + 2
    BY <1>0, <2>2, AddedIs
  <2>4. \A i \in 1 .. Len(out[c]) : r[i] = out[c][i]
    BY <1>0, <2>2, AddedIs
  <2>5. r[Len(out[c]) + 1] = [of |-> f, part |-> 1] /\ r[Len(out[c]) + 2] = [of |-> f, part |-> 2]
    BY <1>0, <2>2, AddedIs
  <2>9. out'[c] = r
    BY <2>1 DEF f
  <2> HIDE DEF r
  <2>6. DOMAIN r = 1 .. Len(out[c]) + 2
    BY <2>3, LenProperties
  <2>7. \A i \in DOMAIN r : i \in DOMAIN out[c] \/ i = Len(out[c]) + 1 \/ i = Len(out[c]) + 2
    BY <1>0, <2>6
  <2>8. \A i \in DOMAIN r : (\E j \in DOMAIN out[c] : r[i] = out[c][j]) \/ r[i].of = f
    BY <1>0, <2>4, <2>5, <2>7
  <2> QED
    BY <2>1, <2>8, <2>9 DEF UnitsGo, f
<1>6. OutSteps(c)
  BY StepOut DEF OutGoes
<1> QED
  BY <1>1, <1>2, <1>3, <1>4, <1>5, <1>6 DEF OutSteps

\* Whatever a thread can be broadcasting, or an output holds, is on record.
LEMMA StepRecords == Types /\ Casts /\ Records /\ [Next]_vars => Records'
<1> SUFFICES ASSUME Types, Casts, Records, [Next]_vars PROVE Records'
  OBVIOUS
<1>1. \A f : IsRecorded(f) => IsRecorded(f)'
  BY StepRecent DEF RecentGoes
<1>2. ASSUME NEW t \in Thread, cast'[t].pc # "none" PROVE IsRecorded(cast[t].frame)'
  <2>1. CASE cast[t].pc # "none" /\ cast'[t].frame = cast[t].frame
    <3> DEFINE f == cast[t].frame
    <3>1. IsRecorded(f)
      BY <2>1 DEF Records
    <3>2. f' = f
      BY <2>1
    <3>3. PICK g : g = f /\ IsRecorded(g)'
      BY <1>1, <3>1
    <3> QED
      BY <3>2, <3>3 DEF IsRecorded
  <2>2. CASE Make(t) /\ cast'[t].frame = NextFrame(t)
    <3>1. PICK g : g = NextFrame(t)
      OBVIOUS
    <3>2. IsRecorded(g)'
      BY <2>2, <3>1, MakeRecords DEF Types
    <3> QED
      BY <2>2, <3>1, <3>2 DEF IsRecorded
  <2>3. CastSteps(t)
    BY StepCast DEF CastGoes
  <2> QED
    BY <1>2, <2>1, <2>2, <2>3 DEF CastSteps, Becomes, Idle
<1>3. ASSUME NEW c \in Client, NEW i \in DOMAIN out'[c] PROVE IsRecorded(out[c][i].of)'
  <2>1. PICK f : f = out'[c][i].of
    OBVIOUS
  <2>2. IsRecorded(f)'
    <3>1. CASE \E j \in DOMAIN out[c] : out'[c][i] = out[c][j]
      BY <1>1, <2>1, <3>1 DEF Records
    <3>2. CASE out'[c][i].of.is \in {"header", "answer"}
      BY <2>1, <3>2 DEF IsRecorded
    <3>3. ASSUME NEW t \in Thread, cast[t].pc = "append", out'[c][i].of = cast[t].frame PROVE IsRecorded(f)'
      BY <1>1, <2>1, <3>3 DEF Records
    <3> QED
      BY <3>1, <3>2, <3>3, StepUnits DEF UnitsGo
  <2> QED
    BY <2>1, <2>2 DEF IsRecorded
<1> QED
  BY <1>2, <1>3 DEF Records

\* Where what a browser has received comes from.
LEMMA StepReceived ==
    Types /\ Serving /\ [Next]_vars =>
        \A c \in Client : \A i \in DOMAIN got'[c] :
            \/ \E j \in DOMAIN got[c] : got'[c][i] = got[c][j]
            \/ \E j \in DOMAIN out[c] : got'[c][i] = out[c][j]
<1> SUFFICES ASSUME Types, Serving, [Next]_vars, NEW c \in Client, NEW i \in DOMAIN got'[c]
             PROVE  \/ \E j \in DOMAIN got[c] : got'[c][i] = got[c][j]
                    \/ \E j \in DOMAIN out[c] : got'[c][i] = out[c][j]
  OBVIOUS
<1>1. CASE got'[c] = got[c]
  BY <1>1
<1>2. CASE got'[c] = <<>>
  BY <1>2, Nothings
<1>3. CASE GotMore(c)
  <2> DEFINE n == w'.took
             s == SubSeq(w.chunk, 1, n)
  <2>1. /\ w.pc = "send" /\ c = Here /\ n \in 1 .. Len(w.chunk) /\ got'[c] = got[c] \o s
        /\ w.chunk \in Seq(Unit) /\ got[c] \in Seq(Unit) /\ out[c] \in Seq(Unit) /\ written[c] \in Nat
    BY <1>3 DEF GotMore, Send, Types, WorkerTypes, ConnTypes
  <2>2. \A j \in DOMAIN w.chunk : /\ written[c] + j <= Len(out[c])
                                  /\ w.chunk[j] = out[c][written[c] + j]
    BY <2>1 DEF Serving
  <2>3. /\ Len(w.chunk) \in Nat /\ DOMAIN w.chunk = 1 .. Len(w.chunk) /\ n \in Int /\ 1 \in Int
        /\ Len(out[c]) \in Nat /\ DOMAIN out[c] = 1 .. Len(out[c])
        /\ Len(got[c]) \in Nat /\ DOMAIN got[c] = 1 .. Len(got[c])
    BY <2>1, LenProperties
  <2>4. \A j \in 1 .. n : w.chunk[j] \in Unit
    BY <2>1, <2>3, ElementsIn
  <2>5. s \in Seq(Unit) /\ Len(s) = (IF 1 <= n THEN n - 1 + 1 ELSE 0)
        /\ \A j \in 1 .. n - 1 + 1 : s[j] = w.chunk[1 + j - 1]
    BY <2>3, <2>4, SubSeqProperties
  <2> HIDE DEF n, s
  <2>6. n \in Nat /\ n >= 1 /\ n <= Len(w.chunk)
    BY <2>1, <2>3
  <2>7. Len(s) = n /\ \A j \in 1 .. n : s[j] = w.chunk[j]
    BY <2>5, <2>6
  <2>8. \A j \in 1 .. n : \E k \in DOMAIN out[c] : s[j] = out[c][k]
    <3> SUFFICES ASSUME NEW j \in 1 .. n PROVE written[c] + j \in DOMAIN out[c] /\ s[j] = out[c][written[c] + j]
      OBVIOUS
    <3>1. j \in DOMAIN w.chunk
      BY <2>3, <2>6
    <3>2. written[c] + j <= Len(out[c]) /\ w.chunk[j] = out[c][written[c] + j] /\ s[j] = w.chunk[j]
      BY <2>2, <2>7, <3>1
    <3>3. written[c] \in Nat /\ j \in Nat /\ j >= 1
      BY <2>1, <2>6
    <3>4. written[c] + j \in 1 .. Len(out[c])
      BY <2>3, <3>2, <3>3
    <3> QED
      BY <2>3, <3>2, <3>4
  <2>9. DOMAIN got'[c] = 1 .. Len(got[c]) + n
    <3>1. got[c] \o s \in Seq(Unit)
      BY <2>1, <2>5, ConcatProperties
    <3>2. Len(got[c] \o s) = Len(got[c]) + Len(s)
      BY <2>1, <2>5, ConcatProperties
    <3> QED
      BY <2>1, <2>7, <3>1, <3>2, LenProperties
  <2>10. got'[c][i] = IF i <= Len(got[c]) THEN got[c][i] ELSE s[i - Len(got[c])]
    <3>1. \A j \in 1 .. Len(got[c]) + Len(s) :
             (got[c] \o s)[j] = IF j <= Len(got[c]) THEN got[c][j] ELSE s[j - Len(got[c])]
      BY <2>1, <2>5, ConcatProperties
    <3> QED
      BY <2>1, <2>7, <2>9, <3>1
  <2>11. CASE i <= Len(got[c])
    BY <2>3, <2>9, <2>10, <2>11
  <2>12. CASE ~ (i <= Len(got[c]))
    <3>1. i - Len(got[c]) \in 1 .. n
      BY <2>3, <2>6, <2>9, <2>12
    <3> QED
      BY <2>8, <2>10, <2>12, <3>1
  <2> QED
    BY <2>11, <2>12
<1>4. GotSteps(c)
  BY StepGot
<1> QED
  BY <1>1, <1>2, <1>3, <1>4 DEF GotSteps

\* A unit that is not too young for a stream stays so, as frames are made and
\* streams visited.
LEMMA StepAged ==
    ASSUME Types, Casts, [Next]_vars, NEW t \in Thread, NEW c \in Client, NEW u \in Unit, Aged(t, c, u)
    PROVE  Aged(t, c, u)'
<1> SUFFICES ASSUME u.of.from = t
             PROVE  u.of.n <= made'[t] /\ (Unseen(t, c)' => u.of.n < made'[t])
  BY DEF Aged
<1>0. /\ u.of.n \in Nat /\ made[t] \in Nat /\ u.of.n <= made[t]
      /\ Unseen(t, c) => u.of.n < made[t]
  BY DEF Aged, Unit, Piece, Types, CastTypes
<1>1. CASE made'[t] = made[t] + 1
  BY <1>0, <1>1
<1>2. ASSUME made'[t] = made[t], Unseen(t, c)' => Unseen(t, c)
      PROVE  u.of.n <= made'[t] /\ (Unseen(t, c)' => u.of.n < made'[t])
  BY <1>0, <1>2
<1>3. CASE cast'[t] = cast[t] /\ made'[t] = made[t]
  BY <1>2, <1>3 DEF Unseen
<1>4. CASE cast'[t] = Idle /\ made'[t] = made[t]
  BY <1>2, <1>4 DEF Unseen, Idle
<1>5. CASE cast[t].pc = "lock" /\ made'[t] = made[t]
  BY <1>2, <1>5 DEF Unseen
<1>6. CASE /\ cast[t].pc \in {"visit", "append"} /\ made'[t] = made[t]
           /\ Becomes(t, "visit", Tail(cast[t].left), cast[t].frame)
  <2>1. cast[t].left \in Seq(Client) /\ cast[t].left # <<>>
    BY <1>6 DEF Types, CastTypes, Passing, Casts
  <2>2. \A i \in DOMAIN Tail(cast[t].left) :
           i + 1 \in DOMAIN cast[t].left /\ Tail(cast[t].left)[i] = cast[t].left[i + 1]
    BY <2>1, TailIs
  <2> QED
    BY <1>2, <1>6, <2>2 DEF Unseen, Becomes
<1>7. CASE /\ cast[t].pc = "visit" /\ made'[t] = made[t]
           /\ Becomes(t, "append", cast[t].left, cast[t].frame)
  BY <1>2, <1>7 DEF Unseen, Becomes
<1>8. CastSteps(t)
  BY StepCast DEF CastGoes
<1> QED
  BY <1>1, <1>3, <1>4, <1>5, <1>6, <1>7, <1>8 DEF CastSteps

\* After a frame has been added to a stream, its thread is done with that.
LEMMA AddedAged ==
    ASSUME Types, Casts, NEW t \in Thread, AddFrame(t), NEW c \in Client, c = Head(cast[t].left)
    PROVE  /\ cast[t].frame \in Frame /\ cast[t].frame.from = t /\ cast[t].frame.n = made[t]
           /\ made'[t] = made[t] /\ ~ Unseen(t, c)'
<1>1. cast[t].pc = "append" /\ UNCHANGED made /\ Advances(t)
  BY DEF AddFrame
<1>2. /\ cast[t].frame \in Frame /\ cast[t].frame.from = t /\ cast[t].frame.n = made[t]
      /\ cast[t].left \in Seq(Client) /\ cast[t].left # <<>> /\ IsInjective(cast[t].left)
      /\ cast \in [Thread -> Passing]
  BY <1>1 DEF Casts, Types, CastTypes, Passing
<1>3. \A i \in DOMAIN Tail(cast[t].left) : Tail(cast[t].left)[i] # Head(cast[t].left)
  BY <1>2, TailIs
<1>4. CASE cast' = [cast EXCEPT ![t] = Idle]
  BY <1>1, <1>2, <1>4 DEF Unseen, Idle
<1>5. CASE cast' = [cast EXCEPT ![t].pc = "visit", ![t].left = Tail(@)]
  <2>1. cast'[t].pc = "visit" /\ cast'[t].left = Tail(cast[t].left)
    BY <1>2, <1>5 DEF Passing
  <2>2. ~ (\E i \in DOMAIN cast'[t].left : cast'[t].left[i] = c)
    BY <1>3, <2>1
  <2> QED
    BY <1>1, <1>2, <2>1, <2>2 DEF Unseen
<1> QED
  BY <1>1, <1>4, <1>5 DEF Advances

LEMMA StepAges == Types /\ Casts /\ Serving /\ Ages /\ [Next]_vars => Ages'
<1> SUFFICES ASSUME Types, Casts, Serving, Ages, [Next]_vars, NEW t \in Thread, NEW c \in Client
             PROVE  /\ \A i \in DOMAIN out'[c] : Aged(t, c, out[c][i])'
                    /\ \A i \in DOMAIN got'[c] : Aged(t, c, got[c][i])'
  BY DEF Ages
<1>0. /\ \A i \in DOMAIN out[c] : out[c][i] \in Unit /\ Aged(t, c, out[c][i])
      /\ \A i \in DOMAIN got[c] : got[c][i] \in Unit /\ Aged(t, c, got[c][i])
  BY ElementsIn DEF Types, ConnTypes, Ages
<1>1. \A u \in Unit : Aged(t, c, u) => Aged(t, c, u)'
  BY StepAged
<1>2. ASSUME NEW i \in DOMAIN out'[c] PROVE Aged(t, c, out[c][i])'
  <2>1. PICK u : u = out'[c][i]
    OBVIOUS
  <2>2. Aged(t, c, u)'
    <3>1. CASE \E j \in DOMAIN out[c] : u = out[c][j]
      BY <1>0, <1>1, <3>1
    <3>2. CASE u.of.from = NoOne
      BY <3>2, Threads DEF Aged
    <3>3. ASSUME NEW s \in Thread, cast[s].pc = "append", AddFrame(s), c = Head(cast[s].left), u.of = cast[s].frame
          PROVE  Aged(t, c, u)'
      <4>1. /\ cast[s].frame.from = s /\ cast[s].frame.n = made[s] /\ made[s] \in Nat
            /\ made'[s] = made[s] /\ ~ Unseen(s, c)'
        BY <3>3, AddedAged DEF Types, CastTypes
      <4> QED
        BY <3>3, <4>1 DEF Aged
    <3> QED
      BY <2>1, <3>1, <3>2, <3>3, StepUnits DEF UnitsGo
  <2> QED
    BY <2>1, <2>2 DEF Aged
<1>3. ASSUME NEW i \in DOMAIN got'[c] PROVE Aged(t, c, got[c][i])'
  <2>1. PICK u : u = got'[c][i]
    OBVIOUS
  <2>2. u \in Unit /\ Aged(t, c, u)
    BY <1>0, <2>1, StepReceived
  <2>3. Aged(t, c, u)'
    BY <1>1, <2>2
  <2> QED
    BY <2>1, <2>3 DEF Aged
<1> QED
  BY <1>2, <1>3

\* A browser is accepted once, and one that has gone stays away.
LEMMA StepPeer ==
    Types /\ [Next]_vars =>
        \A c \in Client : /\ peer'[c] \in {"away", "waiting"} => peer[c] \in {"away", "waiting"}
                          /\ peer[c] = "gone" => peer'[c] = "gone"
<1> SUFFICES ASSUME NetTypes, [Next]_vars, NEW c \in Client
             PROVE  /\ peer'[c] \in {"away", "waiting"} => peer[c] \in {"away", "waiting"}
                    /\ peer[c] = "gone" => peer'[c] = "gone"
  BY DEF Types
<1>0. peer \in [Client -> {"away", "waiting", "open", "slow", "gone"}]
  BY DEF NetTypes
<1>1. CASE UNCHANGED peer
  BY <1>1
<1>2. ASSUME NEW d \in Client, peer[d] # "gone",
             \/ peer' = [peer EXCEPT ![d] = "open"]
             \/ peer' = [peer EXCEPT ![d] = "slow"]
             \/ peer' = [peer EXCEPT ![d] = "gone"]
             \/ peer[d] = "away" /\ peer' = [peer EXCEPT ![d] = "waiting"]
      PROVE  /\ peer'[c] \in {"away", "waiting"} => peer[c] \in {"away", "waiting"}
             /\ peer[c] = "gone" => peer'[c] = "gone"
  <2>1. CASE c # d
    BY <1>0, <1>2, <2>1
  <2>2. CASE c = d
    BY <1>0, <1>2, <2>2
  <2> QED
    BY <2>1, <2>2
<1>3. CASE Accept
  BY <1>1, <1>2, <1>3 DEF Accept, Waiting
<1>4. CASE StopServer
  BY <1>0, <1>4 DEF StopServer
<1>5. ASSUME NEW d \in Client, Browse(d) \/ Turn(d)
      PROVE  /\ peer'[c] \in {"away", "waiting"} => peer[c] \in {"away", "waiting"}
             /\ peer[c] = "gone" => peer'[c] = "gone"
  <2>1. \/ UNCHANGED peer
        \/ /\ peer[d] # "gone"
           /\ \/ peer' = [peer EXCEPT ![d] = "open"]
              \/ peer' = [peer EXCEPT ![d] = "slow"]
              \/ peer' = [peer EXCEPT ![d] = "gone"]
              \/ peer[d] = "away" /\ peer' = [peer EXCEPT ![d] = "waiting"]
    BY <1>5 DEF Browse, Turn
  <2> QED
    BY <1>1, <1>2, <2>1
<1>6. CASE Next /\ ~ Accept /\ ~ StopServer /\ ~ \E d \in Client : Browse(d) \/ Turn(d)
  <2>1. UNCHANGED peer
    BY <1>6, Zenon DEF Next, Working, Snapshot, Poll, Hangup, WorkerEnds, ReadCloses, Read,
       Respond, Upgrade, Upgraded, TakeChunk, Send, SendFails, Account, Casting, Make, Lock, Visit,
       AddFrame, Beat, Event, Join, netVars
  <2> QED
    BY <1>1, <2>1
<1>7. CASE UNCHANGED vars
  BY <1>1, <1>7 DEF vars, netVars
<1> QED
  BY <1>3, <1>4, <1>5, <1>6, <1>7

\* A connection is in the list from when it is accepted until it is closed.
ListGoes(c) ==
    /\ Listed(c)' => Listed(c) \/ state'[c] = "ReadingRequest"
    /\ Listed(c) => Listed(c)' \/ Closed(c) \/ state'[c] = "Closed"
    /\ Accept /\ Waiting(c) /\ state'[c] = "ReadingRequest" => Listed(c)' /\ peer'[c] = "open"

LEMMA StepListed == Types /\ Opened /\ [Next]_vars => \A c \in Client : ListGoes(c)
<1> SUFFICES ASSUME NetTypes, ConnTypes, Opened, [Next]_vars, NEW c \in Client PROVE ListGoes(c)
  BY DEF Types
<1>0. conns \in Seq(Client) /\ state \in [Client -> State]
      /\ peer \in [Client -> {"away", "waiting", "open", "slow", "gone"}]
  BY DEF ConnTypes, NetTypes, State
<1>1. CASE UNCHANGED conns /\ ~ Accept
  BY <1>1 DEF ListGoes, Listed
<1>2. CASE Snapshot
  <2> DEFINE S == {d \in Client : ~ Closed(d)}
  <2>1. conns' = Kept(conns, S) /\ ~ Accept
    BY <1>2 DEF Snapshot, Accept
  <2>2. c \in S <=> ~ Closed(c)
    OBVIOUS
  <2> HIDE DEF S
  <2>3. /\ \A i \in DOMAIN conns' : \E j \in DOMAIN conns : conns'[i] = conns[j] /\ conns[j] \in S
        /\ \A j \in DOMAIN conns : conns[j] \in S => \E i \in DOMAIN conns' : conns'[i] = conns[j]
    BY <1>0, <2>1, KeptIs
  <2>4. Listed(c) <=> \E j \in DOMAIN conns : conns[j] = c
    BY DEF Listed, ToSet
  <2>5. Listed(c)' <=> \E j \in DOMAIN conns' : conns'[j] = c
    BY DEF Listed, ToSet
  <2> QED
    BY <2>1, <2>2, <2>3, <2>4, <2>5 DEF ListGoes
<1>3. ASSUME NEW d \in Client, Waiting(d), peer' = [peer EXCEPT ![d] = "open"],
             Turns(d, "ReadingRequest"), conns' = Append(conns, d)
      PROVE  ListGoes(c)
  <2>1. /\ conns' \in Seq(Client) /\ Len(conns') = Len(conns) + 1
        /\ \A i \in 1 .. Len(conns) : conns'[i] = conns[i]
        /\ conns'[Len(conns) + 1] = d
    BY <1>0, <1>3, AppendProperties
  <2>2. /\ Len(conns) \in Nat /\ DOMAIN conns = 1 .. Len(conns)
        /\ DOMAIN conns' = 1 .. Len(conns) + 1
    BY <1>0, <2>1, LenProperties
  <2>3. \A i \in 1 .. Len(conns) + 1 : i \in 1 .. Len(conns) \/ i = Len(conns) + 1
    BY <2>2
  <2>4. Listed(c) <=> \E j \in DOMAIN conns : conns[j] = c
    BY DEF Listed, ToSet
  <2>5. Listed(c)' <=> \E j \in DOMAIN conns' : conns'[j] = c
    BY DEF Listed, ToSet
  <2>6. Listed(c)' <=> Listed(c) \/ c = d
    BY <2>1, <2>2, <2>3, <2>4, <2>5
  <2>7. state'[d] = "ReadingRequest" /\ peer'[d] = "open" /\ state[d] = "None"
        /\ (c # d => state'[c] = state[c])
    BY <1>0, <1>3 DEF Turns, Opened, Waiting
  <2>8. c # d => ~ (Waiting(c) /\ state'[c] = "ReadingRequest")
    BY <2>7 DEF Waiting, Opened
  <2> QED
    BY <2>6, <2>7, <2>8 DEF ListGoes
<1>4. CASE Accept
  <2>1. CASE \A d \in Client : ~ Waiting(d)
    <3>1. UNCHANGED conns
      BY <1>4, <2>1 DEF Accept
    <3> QED
      BY <2>1, <3>1 DEF ListGoes, Listed
  <2>2. CASE ~ (\A d \in Client : ~ Waiting(d))
    BY <1>3, <1>4, <2>2 DEF Accept
  <2> QED
    BY <2>1, <2>2
<1>5. CASE Join
  <2>1. /\ conns' = <<>> /\ w.pc = "end"
        /\ state' = [d \in Client |-> IF Listed(d) THEN "Closed" ELSE state[d]]
    BY <1>5 DEF Join
  <2>2. ~ Listed(c)' /\ ~ Accept
    BY <2>1, Nothings DEF Listed, ToSet, Accept
  <2> QED
    BY <2>1, <2>2 DEF ListGoes
<1>6. CASE Next /\ ~ Snapshot /\ ~ Accept /\ ~ Join
  <2>1. UNCHANGED conns
    BY <1>6, Zenon DEF Next, Working, Poll, Hangup, WorkerEnds, ReadCloses, Read, Respond, Upgrade,
       Upgraded, TakeChunk, Send, SendFails, Account, Casting, Make, Lock, Visit, AddFrame, Beat,
       Event, StopServer, Browse, Turn, connVars
  <2> QED
    BY <1>1, <1>6, <2>1
<1>7. CASE UNCHANGED vars
  <2>1. UNCHANGED <<conns, w, peer, state>>
    BY <1>7 DEF vars, connVars, netVars
  <2>2. ~ (Waiting(c) /\ state'[c] = "ReadingRequest")
    BY <2>1 DEF Waiting, Opened
  <2> QED
    BY <2>1, <2>2 DEF ListGoes, Listed
<1> QED
  BY <1>2, <1>4, <1>5, <1>6, <1>7

\* The worker's variables are its own.
LEMMA WorkerMoves == [Next]_vars => Working \/ UNCHANGED w
  BY Zenon DEF Next, Casting, Make, Lock, Visit, AddFrame, Beat, Event, StopServer, Join, Browse, Turn, vars

LEMMA UpgradedMoves == w.pc = "upgraded" /\ [Next]_vars => Upgraded \/ UNCHANGED w
<1> SUFFICES ASSUME w.pc = "upgraded", Working PROVE Upgraded
  BY WorkerMoves
<1> QED
  BY DEF Working, Snapshot, Poll, Accept, Hangup, WorkerEnds, ReadCloses, Read, Respond, Upgrade,
     TakeChunk, Send, SendFails, Account, Has

\* While its request is being read, nothing is put into a connection's output
\* but the header, just before it becomes a stream.
LEMMA StepOpened ==
    Types /\ Casts /\ Opened /\ Serving /\ StateGoes /\ [Next]_vars => Opened'
<1> SUFFICES ASSUME Types, Casts, Opened, Serving, StateGoes, [Next]_vars, NEW c \in Client
             PROVE  /\ peer'[c] \in {"away", "waiting"} => state'[c] = "None"
                    /\ state'[c] = "None" => ~ Listed(c)'
                    /\ state'[c] \notin {"None", "Closed"} => Listed(c)'
                    /\ state'[c] \in {"None", "ReadingRequest"} =>
                           /\ got'[c] = <<>>
                           /\ out'[c] = <<>> \/ (w'.pc = "upgraded" /\ Head(w'.todo) = c)
  BY DEF Opened, Here
<1>0. /\ peer[c] \in {"away", "waiting"} => state[c] = "None"
      /\ state[c] = "None" => ~ Listed(c)
      /\ state[c] \notin {"None", "Closed"} => Listed(c)
      /\ state[c] \in {"None", "ReadingRequest"} =>
             got[c] = <<>> /\ (out[c] = <<>> \/ (w.pc = "upgraded" /\ Here = c))
  BY DEF Opened
<1>1. StateSteps(c) /\ ListGoes(c)
  BY StepListed DEF StateGoes
<1>2. peer'[c] \in {"away", "waiting"} => peer[c] \in {"away", "waiting"}
  BY StepPeer
<1> USE DEF Streaming
<1>3. peer'[c] \in {"away", "waiting"} => state'[c] = "None"
  BY <1>0, <1>1, <1>2 DEF StateSteps, ListGoes
<1>4. state'[c] = "None" => ~ Listed(c)'
  BY <1>0, <1>1 DEF StateSteps, ListGoes
<1>5. state'[c] \notin {"None", "Closed"} => Listed(c)'
  BY <1>0, <1>1 DEF StateSteps, ListGoes, Closed
<1>6. ASSUME state'[c] \in {"None", "ReadingRequest"}
      PROVE  got'[c] = <<>> /\ (out'[c] = <<>> \/ (w'.pc = "upgraded" /\ Head(w'.todo) = c))
  <2>1. state[c] \in {"None", "ReadingRequest"} /\ ~ (Upgraded /\ c = Here)
    <3>1. state[c] \in {"None", "ReadingRequest"}
      BY <1>1, <1>6 DEF StateSteps
    <3>2. Upgraded => state' = [state EXCEPT ![Here] = Streaming]
      BY DEF Upgraded, Turns
    <3>3. Upgraded /\ c = Here => state'[c] = Streaming
      BY <3>2 DEF Types, ConnTypes
    <3> QED
      BY <1>6, <3>1, <3>3
  <2>2. got[c] = <<>> /\ (out[c] = <<>> \/ (w.pc = "upgraded" /\ Here = c))
    BY <1>0, <2>1
  <2>3. w.pc = "upgraded" /\ Here = c => w'.pc = "upgraded" /\ Head(w'.todo) = c
    BY <2>1, UpgradedMoves DEF Here
  <2>4. got'[c] = <<>>
    <3>1. CASE GotMore(c)
      <4>1. w.pc = "send" /\ c = Here /\ w'.took \in 1 .. Len(w.chunk) /\ w.chunk \in Seq(Unit)
            /\ written[c] \in Nat
        BY <3>1 DEF GotMore, Send, Types, WorkerTypes, ConnTypes
      <4>2. 1 \in DOMAIN w.chunk
        <5>1. Len(w.chunk) \in Nat /\ DOMAIN w.chunk = 1 .. Len(w.chunk)
          BY <4>1, LenProperties
        <5> QED
          BY <4>1, <5>1
      <4>3. written[c] + 1 <= Len(out[c])
        BY <4>1, <4>2 DEF Serving
      <4>4. out[c] = <<>>
        BY <2>2, <4>1
      <4> QED
        BY <4>1, <4>3, <4>4, Nothings
    <3>2. GotSteps(c)
      BY StepGot
    <3> QED
      BY <2>2, <3>1, <3>2 DEF GotSteps
  <2>5. out'[c] = <<>> \/ (w'.pc = "upgraded" /\ Head(w'.todo) = c)
    <3>1. CASE OutKept(c) \/ OutAccounted(c)
      BY <2>2, <2>3, <3>1 DEF OutKept, OutAccounted
    <3>2. CASE OutEmptied(c)
      BY <3>2 DEF OutEmptied
    <3>3. CASE OutBegun(c)
      <4>1. Upgrade /\ c = Here
        BY <1>6, <3>3 DEF OutBegun
      <4>2. w.pc = "upgrade" /\ Goes("upgraded")
        BY <4>1 DEF Upgrade
      <4>3. w'.pc = "upgraded" /\ w'.todo = w.todo
        BY <4>2, GoesIs DEF Types, Busy
      <4> QED
        BY <4>1, <4>3 DEF Here
    <3>4. CASE OutCut(c)
      BY <2>1, <3>4 DEF OutCut
    <3>5. CASE OutAdded(c)
      BY <2>1, <3>5 DEF OutAdded, AddFrame, Casts
    <3>6. OutSteps(c)
      BY StepOut DEF OutGoes
    <3> QED
      BY <3>1, <3>2, <3>3, <3>4, <3>5, <3>6 DEF OutSteps
  <2> QED
    BY <2>4, <2>5
<1> QED
  BY <1>3, <1>4, <1>5, <1>6

\* Where the worker is after a step of its own.
WorkGoes ==
    \/ w'.pc \in {"top", "serve", "poll", "accept", "end"}
    \/ /\ Read /\ w'.pc \in {"handler", "upgrade"} /\ w'.todo = w.todo
       /\ UNCHANGED state /\ state[Here] = "ReadingRequest"
    \/ Upgrade /\ w'.pc = "upgraded" /\ w'.todo = w.todo
    \/ /\ TakeChunk /\ w'.pc = "send" /\ w'.todo = w.todo
       /\ w'.chunk = SubSeq(out[Here], written[Here] + 1, Len(out[Here]))
    \/ /\ Send /\ w'.pc = "account" /\ w'.todo = w.todo /\ w'.chunk = w.chunk
       /\ w'.took \in 1 .. Len(w.chunk)

LEMMA StepWorking == WorkerTypes /\ Working => WorkGoes
<1> SUFFICES ASSUME WorkerTypes, Working PROVE WorkGoes
  OBVIOUS
<1>0. w \in Work /\ w.todo \in Seq(Client)
  BY WorkIs
<1>1. ASSUME NEW todo \in Seq(Client), Serves(todo) PROVE WorkGoes
  BY <1>1, ServesIs DEF WorkGoes
<1>2. CASE Accept
  BY <1>0, <1>1, <1>2 DEF Accept
<1>3. CASE w.pc \in Busy /\ Passes
  BY <1>1, <1>3, HereIs DEF Passes
<1>4. CASE Hangup \/ ReadCloses \/ Respond \/ Upgraded \/ SendFails \/ Account
  <2>1. w.pc \in Busy /\ Passes
    BY <1>4, Zenon DEF Hangup, ReadCloses, Respond, Upgraded, SendFails, Account, Has, Busy
  <2> QED
    BY <1>3, <2>1
<1>5. CASE Read
  <2>1. \/ w.pc \in Busy /\ Passes
        \/ /\ state[Here] = "ReadingRequest" /\ UNCHANGED state /\ w.pc \in Busy
           /\ Goes("upgrade") \/ Goes("handler")
    BY <1>5, Zenon DEF Read, Has, Busy
  <2>2. ASSUME NEW where \in {"upgrade", "handler"}, Goes(where), w.pc \in Busy
        PROVE  w'.pc = where /\ w'.todo = w.todo
    BY <2>2, GoesIs DEF Busy
  <2> QED
    BY <1>3, <1>5, <2>1, <2>2 DEF WorkGoes
<1>6. CASE WorkerEnds
  BY <1>0, <1>6 DEF WorkerEnds, Goes, Work, WorkGoes
<1>7. CASE Upgrade
  <2>1. w.pc \in Busy /\ Goes("upgraded")
    BY <1>7 DEF Upgrade, Busy
  <2> QED
    BY <1>7, <2>1, GoesIs DEF WorkGoes, Busy
<1>8. CASE Snapshot
  BY <1>0, <1>8 DEF Snapshot, Begins, Work, WorkGoes
<1>9. CASE Poll
  <2>1. \E todo, ready : \/ w' = [w EXCEPT !.pc = "accept", !.todo = todo, !.ready = ready]
                         \/ w' = Top
                         \/ w' = [w EXCEPT !.pc = "serve", !.todo = todo, !.ready = ready]
    BY <1>9, Zenon DEF Poll
  <2>2. PICK todo, ready : \/ w' = [w EXCEPT !.pc = "accept", !.todo = todo, !.ready = ready]
                           \/ w' = Top
                           \/ w' = [w EXCEPT !.pc = "serve", !.todo = todo, !.ready = ready]
    BY <2>1
  <2>3. CASE w' = [w EXCEPT !.pc = "accept", !.todo = todo, !.ready = ready]
    BY <1>0, <2>3 DEF Work, WorkGoes
  <2>4. CASE w' = Top
    BY <2>4 DEF Top, WorkGoes
  <2>5. CASE w' = [w EXCEPT !.pc = "serve", !.todo = todo, !.ready = ready]
    BY <1>0, <2>5 DEF Work, WorkGoes
  <2> QED
    BY <2>2, <2>3, <2>4, <2>5
<1>10. CASE TakeChunk
  <2> DEFINE rest == SubSeq(out[Here], written[Here] + 1, Len(out[Here]))
  <2>1. w' = [w EXCEPT !.pc = "send", !.chunk = rest]
    BY <1>10 DEF TakeChunk
  <2> HIDE DEF rest
  <2>2. w'.pc = "send" /\ w'.todo = w.todo /\ w'.chunk = rest
    BY <1>0, <2>1 DEF Work
  <2> QED
    BY <1>10, <2>2 DEF WorkGoes, rest
<1>11. CASE Send
  <2>1. PICK n \in 1 .. Len(w.chunk) : w' = [w EXCEPT !.pc = "account", !.took = n]
    BY <1>11, Zenon DEF Send
  <2>2. w'.pc = "account" /\ w'.todo = w.todo /\ w'.chunk = w.chunk /\ w'.took = n
    BY <1>0, <2>1 DEF Work
  <2> QED
    BY <1>11, <2>1, <2>2 DEF WorkGoes
<1> QED
  BY <1>2, <1>4, <1>5, <1>6, <1>7, <1>8, <1>9, <1>10, <1>11 DEF Working

\* What the others do meanwhile: they add frames to streams.
LEMMA OthersMove ==
    Types /\ [Next]_vars /\ ~ Working =>
        /\ UNCHANGED w /\ (UNCHANGED state \/ w.pc = "end")
        /\ \A c \in Client : OutKept(c) \/ OutAdded(c)
<1> SUFFICES ASSUME Types, [Next]_vars, ~ Working
             PROVE  /\ UNCHANGED w /\ (UNCHANGED state \/ w.pc = "end")
                    /\ \A c \in Client : OutKept(c) \/ OutAdded(c)
  OBVIOUS
<1>1. CASE \E t \in Thread : AddFrame(t)
  <2>1. UNCHANGED <<w, state>>
    BY <1>1, Zenon DEF AddFrame
  <2> QED
    BY <1>1, <2>1, AddFrameIs DEF Types
<1>2. CASE Next /\ ~ \E t \in Thread : AddFrame(t)
  <2>1. UNCHANGED <<out, written, w>> /\ (UNCHANGED state \/ w.pc = "end")
    BY <1>2, Zenon DEF Next, Casting, Make, Lock, Visit, Beat, Event, StopServer, Join,
       Browse, Turn, connVars
  <2> QED
    BY <2>1 DEF OutKept
<1>3. CASE UNCHANGED vars
  BY <1>3 DEF vars, connVars, OutKept
<1> QED
  BY <1>1, <1>2, <1>3

\* The chunk that is being sent stays what comes next of the output, whatever is
\* added behind it.
LEMMA StepServing ==
    Types /\ Casts /\ Opened /\ Serving /\ StateGoes /\ Opened' /\ [Next]_vars => Serving'
<1> SUFFICES ASSUME Types, Casts, Opened, Serving, StateGoes, Opened', [Next]_vars PROVE Serving'
  OBVIOUS
<1> USE DEF Streaming
<1>1. \A i \in DOMAIN w'.todo : state'[w'.todo[i]] # "None"
  <2>1. conns' \in Seq(Client)
    BY StepList
  <2>2. \A c \in Client : /\ state[c] # "None" => state'[c] # "None"
                          /\ Listed(c)' => state'[c] # "None"
    BY DEF StateGoes, StateSteps, Opened
  <2>3. \A j \in DOMAIN w.todo : w.todo[j] \in Client /\ state[w.todo[j]] # "None"
    BY ElementsIn DEF Types, WorkerTypes, Serving
  <2>4. \A j \in DOMAIN conns' : conns'[j] \in Client
    BY <2>1, ElementsIn
  <2>5. \A j \in DOMAIN conns' : state'[conns'[j]] # "None"
    <3> SUFFICES ASSUME NEW j \in DOMAIN conns' PROVE state'[conns'[j]] # "None"
      OBVIOUS
    <3>1. PICK c \in Client : c = conns'[j]
      BY <2>4
    <3>3. Listed(c)' <=> \E k \in DOMAIN conns' : conns'[k] = c
      BY DEF Listed, ToSet
    <3>2. Listed(c)'
      BY <3>1, <3>3
    <3> QED
      BY <2>2, <3>1, <3>2
  <2>6. \A i \in DOMAIN w'.todo : \/ \E j \in DOMAIN w.todo : w'.todo[i] = w.todo[j]
                                  \/ \E j \in DOMAIN conns' : w'.todo[i] = conns'[j]
    BY <2>1, StepWork DEF TodoGoes
  <2> QED
    BY <2>2, <2>3, <2>5, <2>6
<1>2. CASE ~ Working
  <2>1. UNCHANGED w /\ (UNCHANGED state \/ w.pc = "end") /\ \A c \in Client : OutKept(c) \/ OutAdded(c)
    BY <1>2, OthersMove
  <2>2. CASE w.pc \in {"handler", "upgrade", "upgraded", "send", "account"}
    <3> DEFINE c == Here
    <3>1. /\ c \in Client /\ c' = c /\ UNCHANGED <<w, state>> /\ (OutKept(c) \/ OutAdded(c))
          /\ out[c] \in Seq(Unit) /\ Len(out[c]) \in Nat /\ DOMAIN out[c] = 1 .. Len(out[c])
          /\ written[c] \in Nat /\ w.chunk \in Seq(Unit) /\ DOMAIN w.chunk = 1 .. Len(w.chunk)
      <4>1. c \in Client
        BY <2>2, HereIs DEF Types, Busy
      <4>2. UNCHANGED <<w, state>> /\ c' = c
        BY <2>1, <2>2 DEF Here
      <4> HIDE DEF c
      <4>3. out[c] \in Seq(Unit) /\ written[c] \in Nat /\ w.chunk \in Seq(Unit)
        BY <4>1 DEF Types, ConnTypes, WorkerTypes
      <4> QED
        BY <2>1, <4>1, <4>2, <4>3, LenProperties
    <3>2. /\ w.pc \in {"handler", "upgrade", "upgraded"} => state[c] = "ReadingRequest"
          /\ w.pc = "upgraded" => out[c] = <<Header>> /\ written[c] = 0
          /\ w.pc \in {"send", "account"} =>
                 \A i \in DOMAIN w.chunk : written[c] + i <= Len(out[c]) /\ w.chunk[i] = out[c][written[c] + i]
          /\ w.pc = "account" => w.took <= Len(w.chunk)
      BY DEF Serving
    <3> HIDE DEF c
    <3>3. state[c] = "ReadingRequest" => ~ OutAdded(c)
      BY DEF OutAdded, AddFrame, Casts
    <3>4. w'.pc = "upgraded" => out'[c] = <<Header>> /\ written'[c] = 0
      BY <3>1, <3>2, <3>3 DEF OutKept
    <3>5. ASSUME w.pc \in {"send", "account"}, NEW i \in DOMAIN w.chunk
          PROVE  written'[c] + i <= Len(out'[c]) /\ w.chunk[i] = out'[c][written'[c] + i]
      <4>1. written[c] + i <= Len(out[c]) /\ w.chunk[i] = out[c][written[c] + i]
        BY <3>2, <3>5
      <4>2. CASE OutKept(c)
        BY <4>1, <4>2 DEF OutKept
      <4>3. CASE OutAdded(c)
        <5>1. PICK f \in Frame : out'[c] = out[c] \o Halves(f)
          BY <4>3 DEF OutAdded, AddFrame, Casts
        <5>2. Len(out'[c]) = Len(out[c]) + 2 /\ \A k \in 1 .. Len(out[c]) : out'[c][k] = out[c][k]
          <6>1. Len(out[c] \o Halves(f)) = Len(out[c]) + 2
                /\ \A k \in 1 .. Len(out[c]) : (out[c] \o Halves(f))[k] = out[c][k]
            BY <3>1, AddedIs
          <6> QED
            BY <5>1, <6>1
        <5>3. written'[c] = written[c]
          BY <4>3 DEF OutAdded
        <5>4. i \in Nat /\ i >= 1
          BY <3>1, <3>5
        <5>5. written[c] + i \in 1 .. Len(out[c]) /\ written[c] + i <= Len(out[c]) + 2
          BY <3>1, <4>1, <5>4
        <5> QED
          BY <4>1, <5>2, <5>3, <5>5
      <4> QED
        BY <3>1, <4>2, <4>3
    <3>6. w' = w /\ state' = state
      BY <3>1
    <3>7. /\ w'.pc \in {"handler", "upgrade", "upgraded"} => state'[c'] = "ReadingRequest"
          /\ w'.pc = "upgraded" => out'[c'] = <<Header>> /\ written'[c'] = 0
          /\ w'.pc \in {"send", "account"} =>
                 \A i \in DOMAIN w'.chunk : /\ written'[c'] + i <= Len(out'[c'])
                                            /\ w'.chunk[i] = out'[c'][written'[c'] + i]
          /\ w'.pc = "account" => w'.took <= Len(w'.chunk)
      BY <3>1, <3>2, <3>4, <3>5, <3>6
    <3> QED
      BY <1>1, <3>7 DEF Serving, c
  <2>3. CASE w.pc \notin {"handler", "upgrade", "upgraded", "send", "account"}
    BY <1>1, <2>1, <2>3 DEF Serving
  <2> QED
    BY <2>2, <2>3
<1>3. CASE Working
  <2>1. WorkGoes
    BY <1>3, StepWorking DEF Types
  <2>2. CASE w'.pc \in {"top", "serve", "poll", "accept", "end"}
    BY <1>1, <2>2 DEF Serving
  <2>3. CASE /\ Read /\ w'.pc \in {"handler", "upgrade"} /\ w'.todo = w.todo
             /\ UNCHANGED state /\ state[Here] = "ReadingRequest"
    BY <1>1, <2>3 DEF Serving, Here
  <2>4. CASE Upgrade /\ w'.pc = "upgraded" /\ w'.todo = w.todo
    <3>1. /\ w.pc = "upgrade" /\ UNCHANGED state
          /\ out' = [out EXCEPT ![Here] = <<Header>>] /\ written' = [written EXCEPT ![Here] = 0]
      BY <2>4 DEF Upgrade
    <3>2. Here \in Client /\ Here' = Here
      BY <2>4, <3>1, HereIs DEF Types, Busy, Here
    <3>3. state'[Here'] = "ReadingRequest" /\ out'[Here'] = <<Header>> /\ written'[Here'] = 0
      BY <3>1, <3>2 DEF Serving, Types, ConnTypes
    <3> QED
      BY <1>1, <2>4, <3>3 DEF Serving
  <2>5. CASE /\ TakeChunk /\ w'.pc = "send" /\ w'.todo = w.todo
             /\ w'.chunk = SubSeq(out[Here], written[Here] + 1, Len(out[Here]))
    <3> DEFINE c == Here
               rest == SubSeq(out[c], written[c] + 1, Len(out[c]))
    <3>1. c \in Client /\ c' = c /\ w'.chunk = rest
      BY <2>5, HereIs DEF TakeChunk, Has, Types, Busy, Here
    <3>2. \/ state[c] = Streaming /\ out' = [out EXCEPT ![c] = rest] /\ written' = [written EXCEPT ![c] = 0]
          \/ UNCHANGED <<out, written>>
      BY <2>5 DEF TakeChunk
    <3> HIDE DEF c
    <3>3. out[c] \in Seq(Unit) /\ written[c] \in Nat /\ written[c] <= Len(out[c]) /\ Len(out[c]) \in Nat
          /\ out \in [Client -> Seq(Unit)] /\ written \in [Client -> Nat]
      BY <3>1, LenProperties DEF Types, ConnTypes
    <3>4. rest \in Seq(Unit) /\ Len(rest) = Len(out[c]) - written[c]
          /\ \A i \in 1 .. Len(out[c]) - written[c] : rest[i] = out[c][written[c] + i]
      BY <3>3, RestIs
    <3> HIDE DEF rest
    <3>5. DOMAIN rest = 1 .. Len(out[c]) - written[c]
      BY <3>4, LenProperties
    <3>6. ASSUME NEW i \in DOMAIN rest
          PROVE  written'[c] + i <= Len(out'[c]) /\ rest[i] = out'[c][written'[c] + i]
      <4>1. CASE UNCHANGED <<out, written>>
        BY <3>3, <3>4, <3>5, <4>1
      <4>2. CASE out' = [out EXCEPT ![c] = rest] /\ written' = [written EXCEPT ![c] = 0]
        <5>1. out'[c] = rest /\ written'[c] = 0
          BY <3>1, <3>3, <4>2
        <5>2. i \in Nat /\ 0 + i = i /\ i <= Len(rest)
          BY <3>3, <3>4, <3>5
        <5> QED
          BY <5>1, <5>2
      <4> QED
        BY <3>2, <4>1, <4>2
    <3>7. \A i \in DOMAIN w'.chunk : written'[c'] + i <= Len(out'[c']) /\ w'.chunk[i] = out'[c'][written'[c'] + i]
      BY <3>1, <3>6
    <3> QED
      BY <1>1, <2>5, <3>7 DEF Serving, c
  <2>6. CASE /\ Send /\ w'.pc = "account" /\ w'.todo = w.todo /\ w'.chunk = w.chunk
             /\ w'.took \in 1 .. Len(w.chunk)
    <3>1. w.pc = "send" /\ UNCHANGED <<out, written>> /\ Here' = Here
      BY <2>6 DEF Send, Here
    <3>2. w'.took <= Len(w'.chunk)
      <4>1. Len(w.chunk) \in Nat
        BY LenProperties DEF Types, WorkerTypes
      <4> QED
        BY <2>6, <4>1
    <3>3. \A i \in DOMAIN w'.chunk : /\ written'[Here'] + i <= Len(out'[Here'])
                                     /\ w'.chunk[i] = out'[Here'][written'[Here'] + i]
      BY <2>6, <3>1 DEF Serving
    <3> QED
      BY <1>1, <2>6, <3>2, <3>3 DEF Serving
  <2> QED
    BY <2>1, <2>2, <2>3, <2>4, <2>5, <2>6 DEF WorkGoes
<1> QED
  BY <1>2, <1>3

-----------------------------------------------------------------------------
(* A stream: what has been received, and what is left for it *)

Rest(s, n) == SubSeq(s, n + 1, Len(s))
Done(c) == written[c] + IF w.pc = "account" /\ Here = c THEN w.took ELSE 0

LEMMA StreamIs == \A c : Stream(c) = got[c] \o Rest(out[c], Done(c))
  BY DEF Stream, Rest, Done

\* What is left of an output that more is added to.
LEMMA RestAdded ==
    ASSUME NEW s \in Seq(Unit), NEW h \in Seq(Unit), NEW n \in Nat, n <= Len(s)
    PROVE  Rest(s \o h, n) = Rest(s, n) \o h
<1> DEFINE r == s \o h
<1>1. r \in Seq(Unit)
  BY ConcatProperties
<1>2. Len(r) = Len(s) + Len(h)
  BY ConcatProperties
<1>3. \A i \in 1 .. Len(s) + Len(h) : r[i] = IF i <= Len(s) THEN s[i] ELSE h[i - Len(s)]
  BY ConcatProperties
<1> HIDE DEF r
<1>4. Len(s) \in Nat /\ Len(h) \in Nat
  BY LenProperties
<1>5. n <= Len(r)
  BY <1>2, <1>4
<1>6. /\ Rest(r, n) \in Seq(Unit) /\ Len(Rest(r, n)) = Len(r) - n
      /\ \A i \in 1 .. Len(r) - n : Rest(r, n)[i] = r[n + i]
  BY <1>1, <1>5, RestIs DEF Rest
<1>7. /\ Rest(s, n) \in Seq(Unit) /\ Len(Rest(s, n)) = Len(s) - n
      /\ \A i \in 1 .. Len(s) - n : Rest(s, n)[i] = s[n + i]
  BY RestIs DEF Rest
<1> DEFINE t == Rest(s, n)
           both == t \o h
<1> HIDE DEF t
<1>8. both \in Seq(Unit)
  BY <1>7, ConcatProperties DEF t
<1>9. Len(both) = Len(t) + Len(h)
  BY <1>7, ConcatProperties DEF t
<1>10. \A i \in 1 .. Len(t) + Len(h) : both[i] = IF i <= Len(t) THEN t[i] ELSE h[i - Len(t)]
  BY <1>7, ConcatProperties DEF t
<1> HIDE DEF both
<1>11. Len(t) = Len(s) - n
  BY <1>7 DEF t
<1>12. Len(both) = Len(r) - n /\ Len(Rest(r, n)) = Len(both)
  BY <1>2, <1>4, <1>6, <1>9, <1>11
<1>13. ASSUME NEW i \in 1 .. Len(both) PROVE Rest(r, n)[i] = both[i]
  <2>1. i \in 1 .. Len(r) - n /\ n + i \in 1 .. Len(s) + Len(h) /\ i \in 1 .. Len(t) + Len(h)
    BY <1>2, <1>4, <1>9, <1>11, <1>12
  <2>2. Rest(r, n)[i] = IF n + i <= Len(s) THEN s[n + i] ELSE h[n + i - Len(s)]
    BY <1>3, <1>6, <2>1
  <2>3. both[i] = IF i <= Len(t) THEN t[i] ELSE h[i - Len(t)]
    BY <1>10, <2>1
  <2>4. CASE i <= Len(t)
    <3>1. i \in 1 .. Len(s) - n /\ n + i <= Len(s)
      BY <1>4, <1>11, <2>1, <2>4
    <3>2. t[i] = s[n + i]
      BY <1>7, <3>1 DEF t
    <3> QED
      BY <2>2, <2>3, <2>4, <3>1, <3>2
  <2>5. CASE ~ (i <= Len(t))
    <3>1. ~ (n + i <= Len(s)) /\ n + i - Len(s) = i - Len(t)
      BY <1>4, <1>11, <2>1, <2>5
    <3> QED
      BY <2>2, <2>3, <2>5, <3>1
  <2> QED
    BY <2>4, <2>5
<1>14. Rest(r, n) = both
  BY <1>6, <1>8, <1>12, <1>13, SeqEqual
<1> QED
  BY <1>14 DEF r, both, t

\* Some units of a sequence, after the first n.
LEMMA PartIs ==
    ASSUME NEW s \in Seq(Unit), NEW n \in Nat, NEW k \in Nat, n + k <= Len(s)
    PROVE  /\ SubSeq(s, n + 1, n + k) \in Seq(Unit)
           /\ Len(SubSeq(s, n + 1, n + k)) = k
           /\ \A i \in 1 .. k : SubSeq(s, n + 1, n + k)[i] = s[n + i]
<1>1. Len(s) \in Nat /\ DOMAIN s = 1 .. Len(s) /\ n + 1 \in Int /\ n + k \in Int
  BY LenProperties
<1>2. \A i \in n + 1 .. n + k : s[i] \in Unit
  <2>1. \A i \in n + 1 .. n + k : i \in DOMAIN s
    BY <1>1
  <2> QED
    BY <2>1, ElementsIn
<1> DEFINE r == SubSeq(s, n + 1, n + k)
<1>3. /\ r \in Seq(Unit)
      /\ Len(r) = IF n + 1 <= n + k THEN n + k - (n + 1) + 1 ELSE 0
      /\ \A i \in 1 .. n + k - (n + 1) + 1 : r[i] = s[n + 1 + i - 1]
  BY <1>1, <1>2, SubSeqProperties
<1> HIDE DEF r
<1>4. Len(r) = k
  <2>1. CASE k = 0
    BY <1>3, <2>1
  <2>2. CASE k >= 1
    BY <1>3, <2>2
  <2> QED
    BY <2>1, <2>2
<1>5. ASSUME NEW i \in 1 .. k PROVE r[i] = s[n + i]
  <2>1. i \in 1 .. n + k - (n + 1) + 1 /\ n + 1 + i - 1 = n + i
    OBVIOUS
  <2> QED
    BY <1>3, <2>1
<1> QED
  BY <1>3, <1>4, <1>5 DEF r

\* A part of what is left has been sent: it is with the browser instead.
LEMMA RestSent ==
    ASSUME NEW g \in Seq(Unit), NEW s \in Seq(Unit), NEW n \in Nat, NEW k \in Nat, n + k <= Len(s)
    PROVE  (g \o SubSeq(s, n + 1, n + k)) \o Rest(s, n + k) = g \o Rest(s, n)
<1>1. Len(s) \in Nat
  BY LenProperties
<1>2. /\ n + 1 \in 1 .. Len(s) + 1 /\ n + k \in n + 1 - 1 .. Len(s) /\ Len(s) \in n + k .. Len(s)
      /\ n + k <= Len(s) /\ n <= Len(s) /\ n + k \in Nat
  BY <1>1
<1>3. SubSeq(s, n + 1, n + k) \o SubSeq(s, n + k + 1, Len(s)) = SubSeq(s, n + 1, Len(s))
  <2>1. \A m \in 1 .. Len(s) + 1 : \A i \in m - 1 .. Len(s) : \A j \in i .. Len(s) :
           SubSeq(s, m, i) \o SubSeq(s, i + 1, j) = SubSeq(s, m, j)
    BY ConcatAdjacentSubSeq
  <2> DEFINE a == n + 1
             b == n + k
  <2>2. a \in 1 .. Len(s) + 1 /\ b \in a - 1 .. Len(s) /\ Len(s) \in b .. Len(s)
    BY <1>2
  <2> HIDE DEF a, b
  <2>3. SubSeq(s, a, b) \o SubSeq(s, b + 1, Len(s)) = SubSeq(s, a, Len(s))
    BY <2>1, <2>2
  <2> QED
    BY <2>3 DEF a, b
<1>4. Rest(s, n + k) \in Seq(Unit)
  BY <1>2, RestIs DEF Rest
<1>5. SubSeq(s, n + 1, n + k) \in Seq(Unit)
  BY PartIs
<1>6. (g \o SubSeq(s, n + 1, n + k)) \o Rest(s, n + k) = g \o (SubSeq(s, n + 1, n + k) \o Rest(s, n + k))
  <2>1. \A a, b \in Seq(Unit) : (g \o a) \o b = g \o (a \o b)
    BY ConcatAssociative
  <2> QED
    BY <1>4, <1>5, <2>1
<1> QED
  BY <1>3, <1>6 DEF Rest

\* A stream that begins is well formed ...
LEMMA HeaderWell == WellFormed(<<Header>>)
<1>1. <<Header>> # <<>> /\ <<Header>>[1] = Header /\ Len(<<Header>>) = 1 /\ 1 % 2 = 1
  OBVIOUS
<1>2. 2 .. 1 = {}
  OBVIOUS
<1> HIDE DEF Header
<1> QED
  BY <1>1, <1>2 DEF WellFormed

\* ... and stays so when a frame is added that is younger than all of its
\* thread's in it.
LEMMA AddedWell ==
    ASSUME NEW s \in Seq(Unit), WellFormed(s), NEW f \in Frame,
           \A i \in DOMAIN s : s[i].of.from = f.from => s[i].of.n < f.n
    PROVE  WellFormed(s \o Halves(f))
<1> DEFINE r == s \o Halves(f)
           L == Len(s)
<1>1. r \in Seq(Unit) /\ Len(r) = L + 2 /\ \A i \in 1 .. L : r[i] = s[i]
  BY AddedIs
<1>2. r[L + 1] = [of |-> f, part |-> 1] /\ r[L + 2] = [of |-> f, part |-> 2]
  BY AddedIs
<1> HIDE DEF r
<1>3. L \in Nat /\ DOMAIN s = 1 .. L
  BY LenProperties
<1> HIDE DEF L
<1>4. /\ s # <<>> /\ s[1] = Header /\ L % 2 = 1
      /\ \A i \in 2 .. L : i % 2 = 0 =>
           /\ s[i].part = 1 /\ s[i + 1].part = 2 /\ s[i].of = s[i + 1].of
           /\ \A j \in 2 .. i - 1 : s[j].of.from = s[i].of.from => s[j].of.n < s[i].of.n
  BY DEF WellFormed, L
<1>5. L >= 1 /\ (L + 2) % 2 = 1 /\ (L + 1) % 2 = 0
  BY <1>3, <1>4
<1>6. r[1] = Header
  BY <1>1, <1>3, <1>4, <1>5
<1>7. r # <<>>
  <2>1. L + 2 # 0
    BY <1>3
  <2> QED
    BY <1>1, <2>1, Nothings
<1>8. ASSUME NEW i \in 2 .. L + 2, i % 2 = 0
      PROVE  /\ r[i].part = 1 /\ r[i + 1].part = 2 /\ r[i].of = r[i + 1].of
             /\ \A j \in 2 .. i - 1 : r[j].of.from = r[i].of.from => r[j].of.n < r[i].of.n
  <2>1. CASE i <= L
    <3>1. i \in 2 .. L /\ i \in 1 .. L /\ i + 1 \in 1 .. L
      <4>1. i # L
        BY <1>4, <1>8
      <4> QED
        BY <1>3, <2>1, <4>1
    <3>2. \A j \in 2 .. i - 1 : j \in 1 .. L
      BY <1>3, <3>1
    <3>3. r[i] = s[i] /\ r[i + 1] = s[i + 1] /\ \A j \in 2 .. i - 1 : r[j] = s[j]
      BY <1>1, <3>1, <3>2
    <3> QED
      BY <1>4, <1>8, <3>1, <3>3
  <2>2. CASE i = L + 1
    <3>1. i + 1 = L + 2 /\ i - 1 = L
      BY <1>3, <2>2
    <3>2. r[i].part = 1 /\ r[i + 1].part = 2 /\ r[i].of = f /\ r[i + 1].of = f
      BY <1>2, <2>2, <3>1
    <3>3. ASSUME NEW j \in 2 .. L, r[j].of.from = f.from PROVE r[j].of.n < f.n
      <4>1. j \in 1 .. L /\ j \in DOMAIN s /\ r[j] = s[j]
        BY <1>1, <1>3
      <4> QED
        BY <3>3, <4>1
    <3> QED
      BY <3>1, <3>2, <3>3
  <2>3. CASE i = L + 2
    BY <1>3, <1>5, <1>8, <2>3
  <2> QED
    BY <1>3, <2>1, <2>2, <2>3
<1>9. WellFormed(r)
  BY <1>1, <1>5, <1>6, <1>7, <1>8 DEF WellFormed
<1> QED
  BY <1>9 DEF r

\* The units of a stream are units of what was received, and of the output.
LEMMA StreamUnits ==
    ASSUME NEW g \in Seq(Unit), NEW s \in Seq(Unit), NEW n \in Nat, n <= Len(s)
    PROVE  /\ g \o Rest(s, n) \in Seq(Unit)
           /\ \A i \in DOMAIN (g \o Rest(s, n)) :
                 \/ \E j \in DOMAIN g : (g \o Rest(s, n))[i] = g[j]
                 \/ \E j \in DOMAIN s : (g \o Rest(s, n))[i] = s[j]
<1> DEFINE t == Rest(s, n)
           r == g \o t
<1>1. t \in Seq(Unit) /\ Len(t) = Len(s) - n /\ \A i \in 1 .. Len(s) - n : t[i] = s[n + i]
  BY RestIs DEF Rest
<1> HIDE DEF t
<1>2. r \in Seq(Unit)
  BY <1>1, ConcatProperties
<1>3. Len(r) = Len(g) + Len(t)
  BY <1>1, ConcatProperties
<1>4. \A i \in 1 .. Len(g) + Len(t) : r[i] = IF i <= Len(g) THEN g[i] ELSE t[i - Len(g)]
  BY <1>1, ConcatProperties
<1> HIDE DEF r
<1>5. /\ Len(g) \in Nat /\ DOMAIN g = 1 .. Len(g) /\ Len(s) \in Nat /\ DOMAIN s = 1 .. Len(s)
      /\ DOMAIN r = 1 .. Len(r)
  BY <1>2, LenProperties
<1>6. ASSUME NEW i \in DOMAIN r
      PROVE  (\E j \in DOMAIN g : r[i] = g[j]) \/ (\E j \in DOMAIN s : r[i] = s[j])
  <2>1. CASE i <= Len(g)
    <3>1. i \in DOMAIN g
      BY <1>3, <1>5, <2>1
    <3> QED
      BY <1>3, <1>4, <1>5, <2>1, <3>1
  <2>2. CASE ~ (i <= Len(g))
    <3>1. i - Len(g) \in 1 .. Len(s) - n /\ n + (i - Len(g)) \in DOMAIN s
      BY <1>1, <1>3, <1>5, <2>2
    <3>2. r[i] = t[i - Len(g)]
      BY <1>3, <1>4, <1>5, <2>2
    <3>3. t[i - Len(g)] = s[n + (i - Len(g))]
      BY <1>1, <3>1
    <3> QED
      BY <3>1, <3>2, <3>3
  <2> QED
    BY <2>1, <2>2
<1> QED
  BY <1>2, <1>6 DEF r, t

\* What has been done of an output is some of it.
LEMMA DoneIs ==
    ASSUME Types, Serving, NEW c \in Client
    PROVE  /\ got[c] \in Seq(Unit) /\ out[c] \in Seq(Unit) /\ written[c] \in Nat
           /\ Done(c) \in Nat /\ Done(c) <= Len(out[c]) /\ Len(out[c]) \in Nat
<1>1. /\ got[c] \in Seq(Unit) /\ out[c] \in Seq(Unit) /\ written[c] \in Nat
      /\ written[c] <= Len(out[c]) /\ Len(out[c]) \in Nat
  BY LenProperties DEF Types, ConnTypes
<1>2. CASE w.pc = "account" /\ Here = c
  BY <1>1, <1>2, TookIs DEF Done, Types
<1>3. CASE ~ (w.pc = "account" /\ Here = c)
  <2>1. Done(c) = written[c] + 0
    BY <1>3 DEF Done
  <2> QED
    BY <1>1, <2>1
<1> QED
  BY <1>2, <1>3

\* A connection becomes a stream: what is left for it is the header.
LEMMA UpgradedStream ==
    ASSUME Types, Opened, Serving, [Next]_vars, NEW c \in Client, Upgraded, c = Here
    PROVE  WellFormed(Stream(c))'
<1>1. /\ w.pc = "upgraded" /\ UNCHANGED <<out, written, got>> /\ Passes
  BY DEF Upgraded
<1>2. out[c] = <<Header>> /\ written[c] = 0 /\ got[c] = <<>>
  BY <1>1 DEF Serving, Opened
<1>3. w'.pc # "account"
  BY <1>1, HereIs, ServesIs DEF Passes, Types, Busy
<1>4. Stream(c)' = got'[c] \o Rest(out'[c], Done(c)')
  BY StreamIs DEF Stream, Rest, Done
<1>5. Done(c)' = 0
  <2>1. Done(c)' = 0 + 0
    BY <1>1, <1>2, <1>3 DEF Done
  <2> QED
    BY <2>1
<1>6. Rest(<<Header>>, 0) = <<Header>>
  <2>1. <<Header>> \in Seq(Unit) /\ 0 + 1 = 1
    BY Beginnings
  <2> HIDE DEF Header
  <2> QED
    BY <2>1, SubSeqFull DEF Rest
<1>7. <<>> \o <<Header>> = <<Header>>
  BY Beginnings, ConcatEmptySeq
<1>8. Stream(c)' = <<Header>>
  BY <1>1, <1>2, <1>4, <1>5, <1>6, <1>7
<1> QED
  BY <1>8, HeaderWell DEF WellFormed

\* A frame is added to a stream.
LEMMA AddedStream ==
    ASSUME Types, Casts, Serving, Ages, NEW c \in Client, WellFormed(Stream(c)), OutAdded(c)
    PROVE  WellFormed(Stream(c))'
<1>1. PICK t \in Thread : /\ cast[t].pc = "append" /\ c = Head(cast[t].left)
                          /\ UNCHANGED <<w, got>> /\ out'[c] = out[c] \o Halves(cast[t].frame)
  BY DEF OutAdded, AddFrame
<1> DEFINE f == cast[t].frame
<1>2. /\ f \in Frame /\ f.from = t /\ f.n = made[t]
      /\ cast[t].left \in Seq(Client) /\ cast[t].left # <<>> /\ t # NoOne
  BY <1>1, Threads DEF Casts, Types, CastTypes, Passing
<1>3. Unseen(t, c)
  <2>1. \A seq \in Seq(Client) : seq # <<>> => 1 \in DOMAIN seq /\ Head(seq) = seq[1]
    OBVIOUS
  <2>2. 1 \in DOMAIN cast[t].left /\ Head(cast[t].left) = cast[t].left[1]
    BY <1>2, <2>1
  <2> QED
    BY <1>1, <2>2 DEF Unseen
<1>4. /\ \A i \in DOMAIN out[c] : out[c][i].of.from = t => out[c][i].of.n < made[t]
      /\ \A i \in DOMAIN got[c] : got[c][i].of.from = t => got[c][i].of.n < made[t]
  BY <1>3 DEF Ages, Aged
<1> DEFINE n == Done(c)
           s == got[c] \o Rest(out[c], n)
<1>5. /\ got[c] \in Seq(Unit) /\ out[c] \in Seq(Unit) /\ n \in Nat /\ n <= Len(out[c])
  BY DoneIs
<1>6. written'[c] = written[c]
  BY DEF OutAdded
<1>7. n' = n
  BY <1>1, <1>6 DEF Done, Here
<1> HIDE DEF f, n
<1>8. Halves(f) \in Seq(Unit) /\ Rest(out[c], n) \in Seq(Unit)
  BY <1>2, <1>5, Beginnings, RestIs DEF Rest
<1>9. Stream(c)' = got[c] \o Rest(out[c] \o Halves(f), n)
  <2>1. Stream(c)' = got'[c] \o Rest(out'[c], n')
    BY DEF Stream, Rest, n, Done
  <2> QED
    BY <1>1, <1>7, <2>1 DEF f
<1>10. Rest(out[c] \o Halves(f), n) = Rest(out[c], n) \o Halves(f)
  BY <1>5, <1>8, RestAdded
<1>11. got[c] \o (Rest(out[c], n) \o Halves(f)) = s \o Halves(f)
  <2>1. \A g, a, b \in Seq(Unit) : (g \o a) \o b = g \o (a \o b)
    BY ConcatAssociative
  <2> QED
    BY <1>5, <1>8, <2>1
<1>12. WellFormed(s)
  BY StreamIs DEF n
<1>13. /\ s \in Seq(Unit)
       /\ \A i \in DOMAIN s : (\E j \in DOMAIN got[c] : s[i] = got[c][j]) \/ (\E j \in DOMAIN out[c] : s[i] = out[c][j])
  BY <1>5, StreamUnits
<1> HIDE DEF s
<1>14. \A i \in DOMAIN s : s[i].of.from = f.from => s[i].of.n < f.n
  BY <1>2, <1>4, <1>13
<1>15. WellFormed(s \o Halves(f))
  BY <1>2, <1>12, <1>13, <1>14, AddedWell
<1>16. Stream(c)' = s \o Halves(f)
  BY <1>9, <1>10, <1>11
<1> QED
  BY <1>15, <1>16 DEF WellFormed


\* send() took some of the chunk.
LEMMA SentStream ==
    ASSUME Types, Serving, NEW c \in Client, Send, c = Here, GotMore(c)
    PROVE  Stream(c)' = Stream(c)
<1> DEFINE k == w'.took
           n == written[c]
<1>1. /\ w.pc = "send" /\ UNCHANGED <<out, written>> /\ k \in 1 .. Len(w.chunk)
      /\ got'[c] = got[c] \o SubSeq(w.chunk, 1, k)
  BY DEF Send, GotMore
<1>2. w'.pc = "account" /\ w'.todo = w.todo
  <2>1. PICK i \in 1 .. Len(w.chunk) : w' = [w EXCEPT !.pc = "account", !.took = i]
    BY Zenon DEF Send
  <2> QED
    BY <2>1, WorkIs DEF Types, Work
<1>3. /\ got[c] \in Seq(Unit) /\ out[c] \in Seq(Unit) /\ n \in Nat /\ Len(out[c]) \in Nat
      /\ w.chunk \in Seq(Unit) /\ Len(w.chunk) \in Nat /\ DOMAIN w.chunk = 1 .. Len(w.chunk)
      /\ DOMAIN out[c] = 1 .. Len(out[c])
  BY DoneIs, LenProperties DEF Types, WorkerTypes
<1>4. Done(c)' = n + k /\ Done(c) = n
  <2>1. Here' = c
    BY <1>2 DEF Here
  <2>2. Done(c)' = written'[c] + w'.took
    BY <1>2, <2>1 DEF Done
  <2>3. Done(c) = written[c] + 0
    BY <1>1 DEF Done
  <2> QED
    BY <1>1, <1>3, <2>2, <2>3
<1>5. Stream(c)' = got'[c] \o Rest(out'[c], Done(c)')
  BY DEF Stream, Rest, Done
<1>6. \A i \in DOMAIN w.chunk : n + i <= Len(out[c]) /\ w.chunk[i] = out[c][n + i]
  BY <1>1 DEF Serving
<1> HIDE DEF k, n
<1>7. k \in Nat /\ k >= 1 /\ k <= Len(w.chunk) /\ k \in DOMAIN w.chunk
  BY <1>1, <1>3
<1>8. n + k <= Len(out[c])
  BY <1>6, <1>7
<1>9. SubSeq(w.chunk, 1, k) = SubSeq(out[c], n + 1, n + k)
  <2> DEFINE a == SubSeq(w.chunk, 1, k)
             b == SubSeq(out[c], n + 1, n + k)
  <2>1. (\A i \in 1 .. k : w.chunk[i] \in Unit) /\ 1 \in Int /\ k \in Int
    <3>1. \A i \in 1 .. k : i \in DOMAIN w.chunk
      BY <1>3, <1>7
    <3> QED
      BY <1>3, <1>7, <3>1, ElementsIn
  <2>3. /\ a \in Seq(Unit) /\ Len(a) = (IF 1 <= k THEN k - 1 + 1 ELSE 0)
        /\ \A i \in 1 .. k - 1 + 1 : a[i] = w.chunk[1 + i - 1]
    BY <2>1, SubSeqProperties
  <2>4. b \in Seq(Unit) /\ Len(b) = k /\ \A i \in 1 .. k : b[i] = out[c][n + i]
    <3>1. \A s \in Seq(Unit) : \A i, j \in Nat :
             i + j <= Len(s) => /\ SubSeq(s, i + 1, i + j) \in Seq(Unit)
                                /\ Len(SubSeq(s, i + 1, i + j)) = j
                                /\ \A m \in 1 .. j : SubSeq(s, i + 1, i + j)[m] = s[i + m]
      BY PartIs
    <3> QED
      BY <1>3, <1>7, <1>8, <3>1
  <2> HIDE DEF a, b
  <2>5. Len(a) = k /\ Len(b) = k
    BY <1>3, <1>7, <2>3, <2>4
  <2>6. ASSUME NEW i \in 1 .. k PROVE a[i] = b[i]
    <3>1. i \in 1 .. k - 1 + 1 /\ 1 + i - 1 = i /\ i \in DOMAIN w.chunk
      BY <1>3, <1>7
    <3>2. a[i] = w.chunk[i]
      BY <2>3, <3>1
    <3>3. b[i] = out[c][n + i]
      BY <2>4, <3>1
    <3> QED
      BY <1>6, <3>1, <3>2, <3>3
  <2>7. a = b
    BY <2>3, <2>4, <2>5, <2>6, SeqEqual
  <2> QED
    BY <2>7 DEF a, b
<1>10. (got[c] \o SubSeq(out[c], n + 1, n + k)) \o Rest(out[c], n + k) = got[c] \o Rest(out[c], n)
  <2>1. \A g, s \in Seq(Unit) : \A i, j \in Nat :
           i + j <= Len(s) => (g \o SubSeq(s, i + 1, i + j)) \o Rest(s, i + j) = g \o Rest(s, i)
    BY RestSent
  <2> DEFINE g == got[c]
             s == out[c]
  <2>2. g \in Seq(Unit) /\ s \in Seq(Unit) /\ n \in Nat /\ k \in Nat /\ n + k <= Len(s)
    BY <1>3, <1>7, <1>8
  <2> HIDE DEF g, s
  <2>3. (g \o SubSeq(s, n + 1, n + k)) \o Rest(s, n + k) = g \o Rest(s, n)
    BY <2>1, <2>2
  <2> QED
    BY <2>3 DEF g, s
<1>11. Stream(c) = got[c] \o Rest(out[c], n)
  BY <1>4, StreamIs
<1>12. Stream(c)' = (got[c] \o SubSeq(out[c], n + 1, n + k)) \o Rest(out[c], n + k)
  BY <1>1, <1>4, <1>5, <1>9 DEF k
<1> QED
  BY <1>10, <1>11, <1>12

\* What was sent is accounted for, in a stream.
LEMMA AccountedStream ==
    ASSUME Types, Serving, NEW c \in Client, Account, c = Here, state[c] = Streaming
    PROVE  Stream(c)' = Stream(c)
<1> DEFINE n == written[c] + w.took
<1>1. w.pc = "account" /\ UNCHANGED got /\ Passes /\ Finished(c, n)
  BY DEF Account
<1>2. /\ out[c] \in Seq(Unit) /\ n \in Nat /\ n <= Len(out[c]) /\ Len(out[c]) \in Nat
      /\ out \in [Client -> Seq(Unit)] /\ written \in [Client -> Nat]
  BY <1>1, TookIs, LenProperties DEF Types, ConnTypes
<1>3. Done(c) = n
  BY <1>1 DEF Done
<1>4. w'.pc # "account"
  BY <1>1, HereIs, ServesIs DEF Passes, Types, Busy
<1>5. Stream(c)' = got'[c] \o Rest(out'[c], Done(c)')
  BY DEF Stream, Rest, Done
<1>6. Done(c)' = written'[c] + 0
  BY <1>4 DEF Done
<1>7. Stream(c) = got[c] \o Rest(out[c], n)
  BY <1>3, StreamIs
<1> HIDE DEF n
<1>8. CASE n < Len(out[c])
  <2>1. written' = [written EXCEPT ![c] = n] /\ UNCHANGED out
    BY <1>1, <1>8 DEF Finished
  <2>2. Done(c)' = n
    BY <1>2, <1>6, <2>1
  <2> QED
    BY <1>1, <1>5, <1>7, <2>1, <2>2
<1>9. CASE ~ (n < Len(out[c]))
  <2>1. out' = [out EXCEPT ![c] = <<>>] /\ written' = [written EXCEPT ![c] = 0]
    BY <1>1, <1>9 DEF Finished, Streaming
  <2>2. out'[c] = <<>> /\ Done(c)' = 0
    BY <1>2, <1>6, <2>1
  <2>3. Rest(<<>>, 0) = <<>>
    BY SubSeqEmpty, Nothings DEF Rest
  <2>4. Rest(out[c], n) = <<>>
    <3>1. Len(out[c]) < n + 1 /\ n + 1 \in Int /\ Len(out[c]) \in Int
      BY <1>2, <1>9
    <3> QED
      BY <3>1, SubSeqEmpty DEF Rest
  <2> QED
    BY <1>1, <1>5, <1>7, <2>2, <2>3, <2>4
<1> QED
  BY <1>8, <1>9

\* A stream's output is cut to what is left of it.
LEMMA CutStream ==
    ASSUME Types, Serving, NEW c \in Client, TakeChunk, c = Here, state[c] = Streaming
    PROVE  Stream(c)' = Stream(c)
<1> DEFINE rest == Rest(out[c], written[c])
<1>1. /\ w.pc = "serve" /\ UNCHANGED got
      /\ out' = [out EXCEPT ![c] = rest] /\ written' = [written EXCEPT ![c] = 0]
  BY DEF TakeChunk, Has, Rest
<1>2. w'.pc = "send"
  <2> DEFINE chunk == SubSeq(out[Here], written[Here] + 1, Len(out[Here]))
  <2>1. w' = [w EXCEPT !.pc = "send", !.chunk = chunk]
    BY DEF TakeChunk
  <2> HIDE DEF chunk
  <2> QED
    BY <2>1, WorkIs DEF Types, Work
<1>3. /\ out[c] \in Seq(Unit) /\ written[c] \in Nat /\ written[c] <= Len(out[c])
      /\ out \in [Client -> Seq(Unit)] /\ written \in [Client -> Nat]
  BY DEF Types, ConnTypes
<1>4. rest \in Seq(Unit)
  BY <1>3, RestIs DEF Rest
<1>5. Done(c) = written[c] + 0
  BY <1>1 DEF Done
<1>6. Stream(c) = got[c] \o Rest(out[c], Done(c))
  BY StreamIs
<1>7. Stream(c) = got[c] \o rest
  <2>1. Done(c) = written[c]
    BY <1>3, <1>5
  <2> QED
    BY <1>6, <2>1
<1>8. Stream(c)' = got'[c] \o Rest(out'[c], Done(c)')
  BY DEF Stream, Rest, Done
<1>9. Done(c)' = written'[c] + 0
  BY <1>2 DEF Done
<1> HIDE DEF rest
<1>10. out'[c] = rest /\ Done(c)' = 0
  BY <1>1, <1>3, <1>9
<1>11. Rest(rest, 0) = rest
  <2>1. 0 + 1 = 1
    OBVIOUS
  <2> QED
    BY <1>4, <2>1, SubSeqFull DEF Rest
<1> QED
  BY <1>1, <1>7, <1>8, <1>10, <1>11

\* What the other steps do not touch.
LEMMA KeptStream ==
    ASSUME Types, Serving, StateGoes, [Next]_vars,
           NEW c \in Client, state[c] = Streaming, peer'[c] # "gone", ~ OutAdded(c),
           c = Here => ~ Send /\ ~ Account /\ ~ TakeChunk
    PROVE  Stream(c)' = Stream(c)
<1>1. OutKept(c)
  <2>1. OutSteps(c)
    BY StepOut DEF OutGoes
  <2>2. ~ OutEmptied(c) /\ ~ OutCut(c) /\ ~ OutAccounted(c)
    BY DEF OutEmptied, OutCut, OutAccounted, Closed, Streaming
  <2>3. ~ OutBegun(c)
    <3>1. state'[c] # "WritingResponse"
      BY DEF StateGoes, StateSteps, Streaming
    <3>2. Upgrade => state[Here] = "ReadingRequest"
      BY DEF Upgrade, Serving
    <3> QED
      BY <3>1, <3>2 DEF OutBegun, Streaming
  <2> QED
    BY <2>1, <2>2, <2>3 DEF OutSteps
<1>2. got'[c] = got[c]
  <2>1. GotSteps(c)
    BY StepGot
  <2> QED
    BY <2>1 DEF GotSteps, GotMore
<1>3. CASE UNCHANGED w
  <2>1. Done(c)' = Done(c)
    BY <1>1, <1>3 DEF OutKept, Done, Here
  <2>2. Stream(c)' = got'[c] \o Rest(out'[c], Done(c)')
    BY DEF Stream, Rest, Done
  <2> QED
    BY <1>1, <1>2, <2>1, <2>2, StreamIs DEF OutKept
<1>4. CASE Working
  <2>1. ~ (w.pc = "account" /\ Here = c)
    <3>1. w.pc = "account" => Account
      BY <1>4 DEF Working, Snapshot, Poll, Accept, Hangup, WorkerEnds, ReadCloses, Read, Respond,
         Upgrade, Upgraded, TakeChunk, Send, SendFails, Has
    <3> QED
      BY <3>1
  <2>2. ~ (w'.pc = "account" /\ Here' = c)
    <3>1. WorkGoes
      BY <1>4, StepWorking DEF Types
    <3>2. w'.pc = "account" => Send /\ w'.todo = w.todo
      BY <3>1 DEF WorkGoes
    <3>3. w'.todo = w.todo => Here' = Here
      BY DEF Here
    <3> QED
      BY <3>2, <3>3
  <2>3. Done(c) = written[c] + 0
    BY <2>1 DEF Done
  <2>4. Done(c)' = written'[c] + 0
    BY <2>2 DEF Done
  <2>5. Stream(c)' = got'[c] \o Rest(out'[c], Done(c)')
    BY DEF Stream, Rest, Done
  <2>6. Done(c)' = Done(c)
    BY <1>1, <2>3, <2>4 DEF OutKept
  <2> QED
    BY <1>1, <1>2, <2>5, <2>6, StreamIs DEF OutKept
<1> QED
  BY <1>3, <1>4, WorkerMoves

\* However broadcasts, partial writes and drops interleave, a stream stays whole.
LEMMA StepStreams ==
    Types /\ Casts /\ Opened /\ Serving /\ Ages /\ StreamsWhole /\ StateGoes /\ [Next]_vars
        => StreamsWhole'
<1> SUFFICES ASSUME Types, Casts, Opened, Serving, Ages, StreamsWhole, StateGoes, [Next]_vars
             PROVE  StreamsWhole'
  OBVIOUS
<1> SUFFICES ASSUME NEW c \in Client, state'[c] = Streaming, peer'[c] # "gone"
             PROVE  WellFormed(Stream(c))'
  BY DEF StreamsWhole
<1>1. CASE Upgraded /\ c = Here
  BY <1>1, UpgradedStream
<1>2. CASE ~ (Upgraded /\ c = Here)
  <2>1. state[c] = Streaming
    BY <1>2 DEF StateGoes, StateSteps, Streaming
  <2>2. peer[c] # "gone"
    BY StepPeer
  <2>3. WellFormed(Stream(c))
    BY <2>1, <2>2 DEF StreamsWhole
  <2>4. Stream(c)' = Stream(c) => WellFormed(Stream(c))'
    BY <2>3 DEF WellFormed
  <2>5. CASE OutAdded(c)
    BY <2>3, <2>5, AddedStream
  <2>6. CASE Send /\ c = Here
    <3>1. GotMore(c)
      <4>1. PICK n \in 1 .. Len(w.chunk) :
               /\ w' = [w EXCEPT !.pc = "account", !.took = n]
               /\ got' = [got EXCEPT ![Here] = @ \o SubSeq(w.chunk, 1, n)]
        BY <2>2, <2>6, Zenon DEF Send
      <4>2. w'.took = n
        BY <4>1, WorkIs DEF Types, Work
      <4>3. got'[c] = got[c] \o SubSeq(w.chunk, 1, n)
        BY <2>6, <4>1 DEF Types, ConnTypes
      <4> QED
        BY <2>6, <4>1, <4>2, <4>3 DEF GotMore
    <3> QED
      BY <2>4, <2>6, <3>1, SentStream
  <2>7. CASE Account /\ c = Here
    BY <2>1, <2>4, <2>7, AccountedStream
  <2>8. CASE TakeChunk /\ c = Here
    BY <2>1, <2>4, <2>8, CutStream
  <2>9. CASE ~ OutAdded(c) /\ (c = Here => ~ Send /\ ~ Account /\ ~ TakeChunk)
    BY <2>1, <2>4, <2>9, KeptStream
  <2> QED
    BY <2>5, <2>6, <2>7, <2>8, <2>9
<1> QED
  BY <1>1, <1>2

-----------------------------------------------------------------------------
(* The theorems *)

LEMMA InitInvariant == Init => IInv
<1> SUFFICES ASSUME Init PROVE IInv
  OBVIOUS
<1>1. Types
  BY InitTypes
<1>2. \A t \in Thread : cast[t] = Idle
  BY DEF Init
<1>3. Casts /\ Records
  <2>1. Idle.pc = "none"
    BY DEF Idle
  <2>2. \A c \in Client : out[c] = <<>>
    BY DEF Init
  <2> QED
    BY <1>2, <2>1, <2>2, Nothings DEF Casts, Records
<1>4. Opened
  BY Nothings DEF Init, Opened, Listed, ToSet
<1>5. Serving
  BY Nothings DEF Init, Top, Serving
<1>6. Ends
  BY DEF Init, Top, Ends
<1>7. Ages
  BY Nothings DEF Init, Ages
<1>8. StreamsWhole
  BY DEF Init, StreamsWhole, Streaming
<1> QED
  BY <1>1, <1>3, <1>4, <1>5, <1>6, <1>7, <1>8 DEF IInv

LEMMA StepInvariant == IInv /\ [Next]_vars => IInv'
<1> SUFFICES ASSUME Types, Casts, Opened, Serving, Ends, Records, Ages, StreamsWhole, [Next]_vars
             PROVE  IInv'
  BY DEF IInv
<1>1. Types'
  BY StepTypes
<1>2. StateGoes
  BY StepState
<1>3. Opened'
  BY <1>2, StepOpened
<1>4. Serving'
  BY <1>2, <1>3, StepServing
<1>5. Casts' /\ Ends'
  BY <1>2, StepCasts, StepEnds
<1>6. Records' /\ Ages'
  BY StepRecords, StepAges
<1>7. StreamsWhole'
  BY <1>2, StepStreams
<1> QED
  BY <1>1, <1>3, <1>4, <1>5, <1>6, <1>7 DEF IInv

LEMMA Invariance == Spec => []IInv
  BY InitInvariant, StepInvariant, PTL DEF Spec

\* A stream is never torn and its output never too long: however broadcasts,
\* partial writes and drops at the limit interleave, a browser that stays gets
\* the header and then whole frames, none twice, in the order their threads
\* made them (broadcast_sse_raw, handle_write, handle_events).
THEOREM StreamsStayWhole == Spec => []StreamIntact
<1>1. IInv => StreamIntact
  <2> SUFFICES ASSUME Types, Casts, StreamsWhole PROVE StreamIntact
    BY DEF IInv
  <2>1. TypeOK
    <3>1. /\ running \in BOOLEAN /\ stopping \in {"no", "join", "done"}
          /\ connMu \in Thread \cup {NoOne} /\ outMu \in [Client -> BOOLEAN]
          /\ conns \in Seq(Client) /\ IsInjective(conns)
          /\ state \in [Client -> {"None", "ReadingRequest", "WritingResponse", Streaming,
                                   "Closed"}]
          /\ peer \in [Client -> {"away", "waiting", "open", "slow", "gone"}]
      BY DEF Types, ConnTypes, NetTypes
    <3>2. ASSUME NEW c \in Client
          PROVE  Len(out[c]) <= OutLimit + 1 /\ written[c] \in 0 .. Len(out[c])
      <4>1. out[c] \in Seq(Unit) /\ written[c] \in Nat /\ Len(out[c]) <= OutLimit + 1
            /\ written[c] <= Len(out[c])
        BY DEF Types, ConnTypes
      <4> QED
        BY <4>1, LenProperties
    <3>3. ASSUME NEW c \in Client
          PROVE  /\ input[c] \in 0 .. sent[c] /\ kind[c] \in Kinds
                 /\ sent[c] \in 0 .. Pieces(kind[c]) + MaxTurns
      <4>1. /\ input[c] \in Nat /\ sent[c] \in Nat /\ kind[c] \in Kinds
            /\ input[c] <= sent[c] /\ sent[c] <= Pieces(kind[c]) + MaxTurns
        BY DEF Types, NetTypes
      <4>2. Pieces(kind[c]) + MaxTurns \in Nat
        BY Threads DEF Pieces, HeadOf, BodyOf
      <4> HIDE DEF Pieces
      <4> QED
        BY <4>1, <4>2
    <3>4. \A t \in Thread : cast[t].pc \in {"none", "lock", "visit", "append"}
      BY DEF Types, CastTypes, Passing
    <3>5. ToSet(recent) \subseteq Frame /\ links \subseteq Frame /\ Len(recent) <= KeepRecent
      <4>1. recent \in Seq(Frame) /\ links \in SUBSET Frame /\ Len(recent) <= KeepRecent
        BY DEF Types, CastTypes
      <4> QED
        BY <4>1, ElementsIn DEF ToSet
    <3> QED
      BY <3>1, <3>2, <3>3, <3>4, <3>5 DEF TypeOK
  <2> QED
    BY <2>1 DEF StreamIntact, StreamsWhole
<1> QED
  BY <1>1, Invariance, PTL

\* What a browser is shown as it happens it finds when it asks for the list of
\* packets or links, unless newer packets have pushed it out
\* (record_and_broadcast_activity, update_link).
THEOREM ShownIsRecorded == Spec => []RecordedBeforeShown
<1>1. IInv => RecordedBeforeShown
  BY DEF IInv, Records, IsRecorded, RecordedBeforeShown, ToSet
<1> QED
  BY <1>1, Invariance, PTL

\* stop() leaves no connection open, also one that was accepted meanwhile.
THEOREM StopLeavesNoneOpen == Spec => []StopCloses
<1>1. IInv => StopCloses
  BY DEF IInv, Ends, StopCloses
<1> QED
  BY <1>1, Invariance, PTL
=============================================================================
