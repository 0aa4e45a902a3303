------------------------- MODULE StreamServerProofs -------------------------
(***************************************************************************)
(* Theorems of StreamServer, for every set of connections, every limit and *)
(* any number of broadcasts.                                               *)
(***************************************************************************)
EXTENDS StreamServer, SequenceTheorems, TLAPS

\* Where a thread that has started may be.
Going == {"handshake", "reading", "handling", "leaving", "closing", "ended"}

\* clients_ is only walked with the lock held, and the accepting thread has
\* ended before stop() goes on to the clients.
Walk ==
    /\ mu = "accept" <=> acc.pc = "cleanup"
    /\ acc.pc \in {"cleanup", "add"} => acc.conn \in Client /\ thread[acc.conn] = "accepted"
    /\ stopping \in {"join clients", "done"} => acc.pc = "ended"

\* Between its two critical sections the accepting thread can only lose
\* clients: there is still room for the one it adds.
Room ==
    /\ Len(clients) <= Limit
    /\ acc.pc = "add" => Len(clients) < Limit

\* A client is listed once, from when its thread starts until that has ended.
Members ==
    /\ \A i, j \in DOMAIN clients : clients[i] = clients[j] => i = j
    /\ \A i \in DOMAIN clients : thread[clients[i]] \in Going
    /\ stopping # "done" => \A c \in Client : Runs(c) => Listed(c)
    /\ stopping = "done" => \A c \in Client : ~ Runs(c)

IInv == TypeOK /\ Walk /\ Room /\ Members

-----------------------------------------------------------------------------
(* Sequences and threads *)

\* What a list is after the removal of one of its places.
LEMMA RemoveAtIs ==
    ASSUME NEW S, NEW seq \in Seq(S), NEW k \in 1 .. Len(seq)
    PROVE  /\ RemoveAt(seq, k) \in Seq(S)
           /\ Len(RemoveAt(seq, k)) = Len(seq) - 1
           /\ \A i \in 1 .. Len(seq) - 1 :
                 RemoveAt(seq, k)[i] = IF i < k THEN seq[i] ELSE seq[i + 1]
<1> DEFINE n == Len(seq)
           front == SubSeq(seq, 1, k - 1)
           back == SubSeq(seq, k + 1, n)
           both == front \o back
<1>1. n \in Nat /\ k \in 1 .. n
  BY LenProperties
<1>2. \A i \in 1 .. n : seq[i] \in S
  BY ElementOfSeq
<1>3. RemoveAt(seq, k) = both
  BY DEF RemoveAt
<1> HIDE DEF n
<1>4. /\ front \in Seq(S) /\ Len(front) = k - 1
      /\ \A i \in 1 .. k - 1 : front[i] = seq[i]
  <2>1. 1 \in Int /\ k - 1 \in Int /\ \A i \in 1 .. k - 1 : seq[i] \in S
    BY <1>1, <1>2
  <2>2. front \in Seq(S) /\ Len(front) = IF 1 <= k - 1 THEN (k - 1) - 1 + 1 ELSE 0
    BY <2>1, SubSeqProperties
  <2>3. \A i \in 1 .. (k - 1) - 1 + 1 : front[i] = seq[1 + i - 1]
    BY <2>1, SubSeqProperties
  <2> HIDE DEF front
  <2>4. ASSUME NEW i \in 1 .. k - 1 PROVE front[i] = seq[i]
    <3>1. i \in 1 .. (k - 1) - 1 + 1 /\ 1 + i - 1 = i
      BY <1>1
    <3> QED
      BY <2>3, <3>1
  <2>5. Len(front) = k - 1
    BY <1>1, <2>2
  <2> QED
    BY <2>2, <2>4, <2>5
<1>5. /\ back \in Seq(S) /\ Len(back) = n - k
      /\ \A i \in 1 .. n - k : back[i] = seq[k + i]
  <2>1. k + 1 \in Int /\ n \in Int /\ \A i \in k + 1 .. n : seq[i] \in S
    BY <1>1, <1>2
  <2>2. back \in Seq(S) /\ Len(back) = IF k + 1 <= n THEN n - (k + 1) + 1 ELSE 0
    BY <2>1, SubSeqProperties
  <2>3. \A i \in 1 .. n - (k + 1) + 1 : back[i] = seq[(k + 1) + i - 1]
    BY <2>1, SubSeqProperties
  <2> HIDE DEF back
  <2>4. ASSUME NEW i \in 1 .. n - k PROVE back[i] = seq[k + i]
    <3>1. i \in 1 .. n - (k + 1) + 1 /\ (k + 1) + i - 1 = k + i
      BY <1>1
    <3> QED
      BY <2>3, <3>1
  <2>5. Len(back) = n - k
    BY <1>1, <2>2
  <2> QED
    BY <2>2, <2>4, <2>5
<1> HIDE DEF front, back
<1>6. /\ both \in Seq(S) /\ Len(both) = Len(front) + Len(back)
      /\ \A i \in 1 .. Len(front) + Len(back) :
            both[i] = IF i <= Len(front) THEN front[i] ELSE back[i - Len(front)]
  BY <1>4, <1>5, ConcatProperties
<1> HIDE DEF both
<1>7. Len(both) = n - 1 /\ Len(front) + Len(back) = n - 1
  BY <1>1, <1>4, <1>5, <1>6
<1>8. ASSUME NEW i \in 1 .. n - 1
      PROVE  both[i] = IF i < k THEN seq[i] ELSE seq[i + 1]
  <2>1. CASE i < k
    <3>1. i \in 1 .. k - 1 /\ i <= Len(front)
      BY <1>1, <1>4, <2>1
    <3> QED
      BY <1>4, <1>6, <1>7, <2>1, <3>1
  <2>2. CASE ~ (i < k)
    <3>1. ~ (i <= Len(front)) /\ i - Len(front) \in 1 .. n - k /\ k + (i - Len(front)) = i + 1
      BY <1>1, <1>4, <2>2
    <3>2. both[i] = back[i - Len(front)]
      BY <1>6, <1>7, <3>1
    <3>3. back[i - Len(front)] = seq[i + 1]
      BY <1>5, <3>1
    <3> QED
      BY <2>2, <3>2, <3>3
  <2> QED
    BY <2>1, <2>2
<1> QED
  BY <1>3, <1>6, <1>7, <1>8 DEF n

\* A thread goes on, and the others stay where they are.
LEMMA AtGoes ==
    ASSUME thread \in [Client -> ThreadStates], NEW c \in Client, NEW where \in ThreadStates,
           At(c, where)
    PROVE  /\ thread' \in [Client -> ThreadStates]
           /\ thread'[c] = where
           /\ \A d \in Client \ {c} : thread'[d] = thread[d]
  BY DEF At

-----------------------------------------------------------------------------
(* Types *)

LEMMA InitTypes == Init => TypeOK
<1> SUFFICES ASSUME Init PROVE TypeOK
  OBVIOUS
<1> USE ServerAssumption DEF ServerAssumption
<1>1. clients \in Seq(Client) /\ <<>> \in Seq(Client)
  BY EmptySeq DEF Init
<1>2. acc \in [pc : {"accept", "cleanup", "add", "ended"},
               conn : Client \cup {None}, it : Nat \ {0}] /\ acc.pc = "accept"
  BY DEF Init, Accepting
<1>3. work \in [Caller -> [pc : {"none", "lock", "each", "write"},
                           todo : Seq(Client), at : Client \cup {None}]]
      /\ \A t \in Caller : work[t].pc = "none"
  BY <1>1 DEF Init, NoWork
<1>4. started \in [Caller -> 0 .. MaxBroadcasts]
  BY DEF Init
<1> QED
  BY <1>1, <1>2, <1>3, <1>4 DEF Init, TypeOK, ThreadStates

\* The accepting thread.
LEMMA AcceptTypes ==
    ASSUME TypeOK, AcceptThread \/ \E c \in Client : Accept(c)
    PROVE  TypeOK'
<1> DEFINE Pc == {"accept", "cleanup", "add", "ended"}
<1> USE ServerAssumption DEF ServerAssumption
<1>1. /\ thread \in [Client -> ThreadStates] /\ clients \in Seq(Client)
      /\ acc \in [pc : Pc, conn : Client \cup {None}, it : Nat \ {0}]
      /\ acc.pc \in {"cleanup", "add"} => acc.conn \in Client
  BY DEF TypeOK
<1>2. ASSUME NEW c \in Client, Accept(c) PROVE TypeOK'
  <2>1. thread' \in [Client -> ThreadStates]
    BY <1>1, <1>2, AtGoes DEF Accept, ThreadStates
  <2>2. acc' \in [pc : Pc, conn : Client \cup {None}, it : Nat \ {0}] /\ acc'.conn # None
    BY <1>2 DEF Accept
  <2> QED
    BY <1>2, <2>1, <2>2 DEF TypeOK, Accept
<1>3. CASE Reap
  <2>1. /\ acc' = [acc EXCEPT !.it = @ + 1] \/ UNCHANGED acc
        /\ clients' \in Seq(Client)
    <3>1. acc.it \in Nat \ {0} /\ acc.it <= Len(clients) /\ Len(clients) \in Nat
      BY <1>1, <1>3, LenProperties DEF Reap
    <3>2. RemoveAt(clients, acc.it) \in Seq(Client)
      BY <1>1, <3>1, RemoveAtIs
    <3> QED
      BY <1>1, <1>3, <3>2 DEF Reap
  <2>2. /\ acc' \in [pc : Pc, conn : Client \cup {None}, it : Nat \ {0}]
        /\ acc'.conn = acc.conn /\ acc'.pc = acc.pc
    BY <1>1, <2>1
  <2>3. UNCHANGED <<running, mu, thread, active, ssl, gone, shut, stalled, work, started, stopping>>
    BY <1>3, Zenon DEF Reap
  <2> QED
    BY <2>1, <2>2, <2>3 DEF TypeOK
<1>4. CASE Decide
  <2>1. acc.pc = "cleanup" /\ acc.conn \in Client
    BY <1>1, <1>4 DEF Decide
  <2>2. thread' \in [Client -> ThreadStates]
    BY <1>1, <1>4, <2>1, AtGoes DEF Decide, ThreadStates
  <2>3. /\ acc' \in [pc : Pc, conn : Client \cup {None}, it : Nat \ {0}]
        /\ acc'.pc \in {"cleanup", "add"} => acc'.conn # None
    <3>1. CASE acc' = Accepting
      BY <3>1 DEF Accepting
    <3>2. CASE acc' = [acc EXCEPT !.pc = "add", !.it = 1]
      <4>1. acc' = [pc |-> "add", conn |-> acc.conn, it |-> 1]
        BY <1>1, <3>2
      <4> QED
        BY <2>1, <4>1
    <3> QED
      BY <1>4, <3>1, <3>2 DEF Decide
  <2>4. mu' = None /\ UNCHANGED <<running, clients, active, ssl, gone, shut, stalled, work,
                                  started, stopping>>
    BY <1>4, Zenon DEF Decide
  <2> QED
    BY <2>2, <2>3, <2>4 DEF TypeOK
<1>5. CASE AddClient
  <2>1. acc.conn \in Client
    BY <1>1, <1>5 DEF AddClient
  <2>2. thread' \in [Client -> ThreadStates]
    BY <1>1, <1>5, <2>1, AtGoes DEF AddClient, ThreadStates
  <2>3. clients' \in Seq(Client)
    BY <1>1, <1>5, <2>1, AppendProperties DEF AddClient
  <2>4. ssl' \in [Client -> {"none", "live", "freed"}]
    BY <1>5, <2>1 DEF AddClient, TypeOK
  <2>5. acc' \in [pc : Pc, conn : Client \cup {None}, it : Nat \ {0}] /\ acc'.pc = "accept"
    BY <1>5 DEF AddClient, Accepting
  <2>6. UNCHANGED <<running, mu, active, gone, shut, stalled, work, started, stopping>>
    BY <1>5, Zenon DEF AddClient
  <2> QED
    BY <2>2, <2>3, <2>4, <2>5, <2>6 DEF TypeOK
<1>6. CASE LeaveAcceptLoop
  <2>1. acc' \in [pc : Pc, conn : Client \cup {None}, it : Nat \ {0}] /\ acc'.pc = "ended"
    BY <1>1, <1>6 DEF LeaveAcceptLoop
  <2>2. UNCHANGED <<running, mu, clients, thread, active, ssl, gone, shut, stalled, work,
                    started, stopping>>
    BY <1>6, Zenon DEF LeaveAcceptLoop
  <2> QED
    BY <2>1, <2>2 DEF TypeOK
<1> QED
  BY <1>2, <1>3, <1>4, <1>5, <1>6 DEF AcceptThread

\* The thread of a client, and the client itself.
LEMMA ClientTypes ==
    ASSUME TypeOK, NEW c \in Client,
           ClientThread(c) \/ ReadPayload(c) \/ Leave(c) \/ Stall(c)
    PROVE  TypeOK'
<1>1. /\ thread \in [Client -> ThreadStates] /\ active \in [Client -> BOOLEAN]
      /\ ssl \in [Client -> {"none", "live", "freed"}]
      /\ gone \subseteq Client /\ shut \subseteq Client /\ stalled \subseteq Client
  BY DEF TypeOK
<1>2. thread' \in [Client -> ThreadStates]
  <2>1. UNCHANGED thread \/ \E where \in ThreadStates : At(c, where)
    BY Zenon DEF ClientThread, Handshake, HandlerDone, ReadFails, Close, FreeSession, ReadPayload,
       Leave, Stall, ThreadStates
  <2> QED
    BY <1>1, <2>1, AtGoes
<1>3. active' \in [Client -> BOOLEAN]
  <2>1. UNCHANGED active \/ active' = [active EXCEPT ![c] = FALSE]
    BY Zenon DEF ClientThread, Handshake, HandlerDone, ReadFails, Close, FreeSession, ReadPayload,
       Leave, Stall
  <2> QED
    BY <1>1, <2>1
<1>4. ssl' \in [Client -> {"none", "live", "freed"}]
  <2>1. UNCHANGED ssl \/ ssl' = [ssl EXCEPT ![c] = "freed"]
    BY Zenon DEF ClientThread, Handshake, HandlerDone, ReadFails, Close, FreeSession, ReadPayload,
       Leave, Stall
  <2> QED
    BY <1>1, <2>1
<1>5. gone' \subseteq Client /\ shut' \subseteq Client /\ stalled' \subseteq Client
  <2>1. /\ gone' \in {gone, gone \ {c}, gone \cup {c}} /\ UNCHANGED shut
        /\ stalled' \in {stalled, stalled \ {c}, stalled \cup {c}}
    BY DEF ClientThread, Handshake, HandlerDone, ReadFails, Close, FreeSession, ReadPayload,
       Leave, Stall
  <2> QED
    BY <1>1, <2>1
<1>6. UNCHANGED <<running, mu, clients, acc, work, started, stopping>>
  BY Zenon DEF ClientThread, Handshake, HandlerDone, ReadFails, Close, FreeSession, ReadPayload,
     Leave, Stall
<1> QED
  BY <1>2, <1>3, <1>4, <1>5, <1>6 DEF TypeOK

\* A broadcast, whatever thread makes it.
LEMMA BroadcastTypes ==
    ASSUME TypeOK, NEW t \in Caller, CallBroadcast(t) \/ Broadcasting(t)
    PROVE  TypeOK'
<1> DEFINE Work == [pc : {"none", "lock", "each", "write"},
                    todo : Seq(Client), at : Client \cup {None}]
<1>1. /\ work \in [Caller -> Work] /\ work[t] \in Work
      /\ \A u \in Caller : work[u].pc = "write" => work[u].at # None
      /\ clients \in Seq(Client) /\ active \in [Client -> BOOLEAN]
      /\ started \in [Caller -> 0 .. MaxBroadcasts]
  BY DEF TypeOK
<1>2. ASSUME NEW w \in Work, work' = [work EXCEPT ![t] = w], w.pc = "write" => w.at # None
      PROVE  /\ work' \in [Caller -> Work]
             /\ \A u \in Caller : work'[u].pc = "write" => work'[u].at # None
  BY <1>1, <1>2
<1>3. CASE CallBroadcast(t)
  <2> DEFINE w == [work[t] EXCEPT !.pc = "lock"]
  <2>1. UNCHANGED work \/ work' = [work EXCEPT ![t] = w]
    BY <1>1, <1>3 DEF CallBroadcast
  <2>2. /\ work' \in [Caller -> Work]
        /\ \A u \in Caller : work'[u].pc = "write" => work'[u].at # None
    <3>1. w \in Work /\ w.pc = "lock"
      BY <1>1
    <3> HIDE DEF w
    <3> QED
      BY <1>1, <1>2, <2>1, <3>1
  <2>3. started' \in [Caller -> 0 .. MaxBroadcasts]
    BY <1>1, <1>3, ServerAssumption DEF CallBroadcast, ServerAssumption
  <2>4. UNCHANGED <<running, mu, clients, acc, thread, active, ssl, gone, shut, stalled, stopping>>
    BY <1>3, Zenon DEF CallBroadcast
  <2> QED
    BY <2>2, <2>3, <2>4 DEF TypeOK
<1>4. CASE CopyClients(t)
  <2>1. work' = [work EXCEPT ![t] = [work[t] EXCEPT !.pc = "each", !.todo = clients]]
    BY <1>1, <1>4 DEF CopyClients
  <2>2. [work[t] EXCEPT !.pc = "each", !.todo = clients] \in Work
    BY <1>1
  <2>3. [work[t] EXCEPT !.pc = "each", !.todo = clients].pc = "each"
    BY <1>1
  <2>4. UNCHANGED <<running, mu, clients, acc, thread, active, ssl, gone, shut, stalled,
                    started, stopping>>
    BY <1>4, Zenon DEF CopyClients
  <2> QED
    BY <1>2, <2>1, <2>2, <2>3, <2>4 DEF TypeOK
<1>5. CASE Consider(t)
  <2>1. UNCHANGED <<running, mu, clients, acc, thread, active, ssl, gone, shut, stalled,
                    started, stopping>>
    BY <1>5, Zenon DEF Consider
  <2>2. CASE work[t].todo = <<>>
    <3>1. NoWork \in Work /\ NoWork.pc = "none"
      BY EmptySeq DEF NoWork
    <3>2. work' = [work EXCEPT ![t] = NoWork]
      BY <1>5, <2>2 DEF Consider
    <3> QED
      BY <1>2, <2>1, <3>1, <3>2 DEF TypeOK
  <2>3. CASE work[t].todo # <<>>
    <3> DEFINE c == Head(work[t].todo)
               rest == Tail(work[t].todo)
               going == [pc |-> "write", todo |-> rest, at |-> c]
               past == [work[t] EXCEPT !.todo = rest]
    <3>1. work[t].todo \in Seq(Client)
      BY <1>1
    <3>2. c \in Client /\ rest \in Seq(Client)
      BY <2>3, <3>1, HeadTailProperties
    <3>3. work' = [work EXCEPT ![t] = going] \/ work' = [work EXCEPT ![t] = past]
      BY <1>1, <1>5, <2>3 DEF Consider
    <3> HIDE DEF c, rest
    <3>4. going \in Work /\ going.pc = "write" /\ going.at # None
      BY <3>2, ServerAssumption DEF ServerAssumption
    <3>5. past \in Work /\ past.pc = work[t].pc /\ work[t].pc = "each"
      BY <1>1, <1>5, <3>2 DEF Consider
    <3> HIDE DEF going, past
    <3>6. /\ work' \in [Caller -> Work]
          /\ \A u \in Caller : work'[u].pc = "write" => work'[u].at # None
      BY <1>2, <3>3, <3>4, <3>5
    <3> QED
      BY <2>1, <3>6 DEF TypeOK
  <2> QED
    BY <2>2, <2>3
<1>6. CASE WriteTo(t)
  <2> DEFINE w == [work[t] EXCEPT !.pc = "each", !.at = None]
  <2>1. work' = [work EXCEPT ![t] = w]
    BY <1>1, <1>6 DEF WriteTo
  <2>2. w \in Work /\ w.pc = "each"
    BY <1>1
  <2>3. active' \in [Client -> BOOLEAN]
    <3>1. UNCHANGED active \/ active' = [active EXCEPT ![work[t].at] = FALSE]
      BY <1>6, Zenon DEF WriteTo
    <3> QED
      BY <1>1, <3>1
  <2>4. UNCHANGED <<running, mu, clients, acc, thread, ssl, gone, shut, stalled, started, stopping>>
    BY <1>6, Zenon DEF WriteTo
  <2> HIDE DEF w
  <2>5. /\ work' \in [Caller -> Work]
        /\ \A u \in Caller : work'[u].pc = "write" => work'[u].at # None
    BY <1>2, <2>1, <2>2
  <2> QED
    BY <2>3, <2>4, <2>5 DEF TypeOK
<1> QED
  BY <1>3, <1>4, <1>5, <1>6 DEF Broadcasting

LEMMA StepTypes == TypeOK /\ [Next]_vars => TypeOK'
<1> SUFFICES ASSUME TypeOK, [Next]_vars PROVE TypeOK'
  OBVIOUS
<1>1. CASE AskStop
  BY <1>1 DEF AskStop, TypeOK
<1>2. CASE CloseClients
  <2>1. active' \in [Client -> BOOLEAN] /\ shut' \in SUBSET Client
    BY <1>2 DEF CloseClients, TypeOK
  <2> QED
    BY <1>2, <2>1 DEF CloseClients, TypeOK
<1>3. CASE ClearClients
  BY <1>3, EmptySeq DEF ClearClients, TypeOK
<1>4. CASE UNCHANGED vars
  BY <1>4 DEF vars, TypeOK
<1> QED
  BY <1>1, <1>2, <1>3, <1>4, AcceptTypes, ClientTypes, BroadcastTypes DEF Next, Stop

-----------------------------------------------------------------------------
(* The list *)

LEMMA InitInvariant == Init => IInv
<1> SUFFICES ASSUME Init PROVE IInv
  OBVIOUS
<1>1. clients = <<>> /\ Len(clients) = 0 /\ DOMAIN clients = {}
  BY DEF Init
<1>2. acc.pc = "accept" /\ mu = None /\ stopping = "no"
  BY DEF Init, Accepting
<1>3. \A c \in Client : ~ Runs(c)
  BY DEF Init, Runs
<1>4. None # "accept"
  BY ServerAssumption DEF ServerAssumption
<1>5. Walk
  BY <1>2, <1>4 DEF Walk
<1>6. Room
  BY <1>1, <1>2, ServerAssumption DEF Room, ServerAssumption
<1>7. Members
  BY <1>1, <1>2, <1>3 DEF Members
<1> QED
  BY <1>5, <1>6, <1>7, InitTypes DEF IInv

\* A client's thread goes on, and nothing else: it is the same clients that run
\* or have ended, in the same list.
LEMMA ClientGoesOn ==
    ASSUME IInv, UNCHANGED <<mu, clients, acc, stopping>>, NEW c \in Client,
           \/ UNCHANGED thread
           \/ Runs(c) /\ \E where \in Going : At(c, where)
    PROVE  Walk' /\ Room' /\ Members'
<1>1. /\ thread \in [Client -> ThreadStates] /\ clients \in Seq(Client)
      /\ Walk /\ Room /\ Members
  BY DEF IInv, TypeOK
<1>2. Room'
  BY <1>1 DEF Room
<1>3. CASE UNCHANGED thread
  BY <1>1, <1>2, <1>3 DEF Walk, Members, Runs, Listed
<1>4. CASE ~ UNCHANGED thread
  <2>1. Runs(c)
    BY <1>4
  <2>2. /\ thread'[c] \in Going
        /\ \A d \in Client \ {c} : thread'[d] = thread[d]
    BY <1>1, <1>4, AtGoes DEF ThreadStates, Going
  <2>3. \A d \in Client : /\ Runs(d)' => Runs(d)
                          /\ thread[d] \in Going => thread'[d] \in Going
    BY <2>1, <2>2 DEF Runs
  <2>4. \A d \in Client : thread[d] = "accepted" => thread'[d] = "accepted"
    BY <2>1, <2>2 DEF Runs
  <2>5. Walk'
    BY <1>1, <2>4 DEF Walk
  <2>6. \A i \in DOMAIN clients : clients[i] \in Client
    BY <1>1, ElementOfSeq, LenProperties
  <2>7. Members'
    BY <1>1, <2>3, <2>6 DEF Members, Listed
  <2> QED
    BY <1>2, <2>5, <2>7
<1> QED
  BY <1>3, <1>4

\* The accepting thread: it erases clients whose threads have ended, and adds
\* one when there is room.
LEMMA AcceptKeepsList ==
    ASSUME IInv, AcceptThread \/ \E c \in Client : Accept(c)
    PROVE  Walk' /\ Room' /\ Members'
<1>1. /\ thread \in [Client -> ThreadStates] /\ clients \in Seq(Client)
      /\ acc \in [pc : {"accept", "cleanup", "add", "ended"},
                  conn : Client \cup {None}, it : Nat \ {0}]
      /\ Walk /\ Room /\ Members
  BY DEF IInv, TypeOK
<1>2. /\ Len(clients) \in Nat /\ DOMAIN clients = 1 .. Len(clients)
      /\ \A i \in DOMAIN clients : clients[i] \in Client
  BY <1>1, ElementOfSeq, LenProperties
<1>3. None # "accept" /\ Limit \in Nat
  BY ServerAssumption DEF ServerAssumption
\* A connection that is not served yet is nobody's business but the accepting
\* thread's.
<1>4. ASSUME NEW c \in Client, thread[c] \in {"new", "accepted"},
             NEW where \in {"accepted", "rejected"}, At(c, where),
             UNCHANGED <<clients, stopping>>
      PROVE  Members' /\ thread'[c] = where
  <2>1. /\ thread'[c] = where
        /\ \A d \in Client \ {c} : thread'[d] = thread[d]
    BY <1>1, <1>4, AtGoes DEF ThreadStates
  <2>2. \A d \in Client : Runs(d)' <=> Runs(d)
    BY <1>4, <2>1 DEF Runs
  <2>3. \A d \in Client : thread[d] \in Going => thread'[d] \in Going
    BY <1>4, <2>1 DEF Going
  <2> QED
    BY <1>1, <1>2, <1>4, <2>1, <2>2, <2>3 DEF Members, Listed
<1>5. ASSUME NEW c \in Client, Accept(c) PROVE Walk' /\ Room' /\ Members'
  <2>1. /\ acc.pc = "accept" /\ thread[c] = "new" /\ mu' = "accept"
        /\ acc' = [pc |-> "cleanup", conn |-> c, it |-> 1]
        /\ At(c, "accepted") /\ UNCHANGED <<clients, stopping>>
    BY <1>5 DEF Accept
  <2>2. Members' /\ thread'[c] = "accepted"
    BY <1>4, <2>1
  <2>3. Walk'
    BY <1>1, <2>1, <2>2 DEF Walk
  <2>4. Room'
    BY <1>1, <2>1 DEF Room
  <2> QED
    BY <2>2, <2>3, <2>4
<1>6. CASE Reap
  <2>1. /\ acc.pc = "cleanup" /\ acc'.pc = "cleanup" /\ acc'.conn = acc.conn
        /\ UNCHANGED <<mu, thread, stopping>>
    BY <1>1, <1>6 DEF Reap
  <2>2. Walk'
    BY <1>1, <2>1 DEF Walk
  <2>3. CASE UNCHANGED clients
    BY <1>1, <2>1, <2>2, <2>3 DEF Room, Members, Runs, Listed
  <2>4. CASE ~ UNCHANGED clients
    <3> DEFINE k == acc.it
               n == Len(clients)
    <3>1. k \in 1 .. n /\ thread[clients[k]] = "ended" /\ clients' = RemoveAt(clients, k)
      BY <1>1, <1>2, <1>6, <2>4 DEF Reap
    <3> HIDE DEF k
    <3>2. /\ Len(clients') = n - 1 /\ DOMAIN clients' = 1 .. n - 1
          /\ \A i \in 1 .. n - 1 : clients'[i] = IF i < k THEN clients[i] ELSE clients[i + 1]
      <4>0. clients \in Seq(Client) /\ k \in 1 .. Len(clients)
        BY <1>1, <3>1
      <4>1. RemoveAt(clients, k) \in Seq(Client)
        BY <4>0, RemoveAtIs
      <4>2. Len(RemoveAt(clients, k)) = n - 1
        BY <4>0, RemoveAtIs
      <4>3. DOMAIN RemoveAt(clients, k) = 1 .. n - 1
        BY <4>1, <4>2, LenProperties
      <4>4. \A i \in 1 .. n - 1 :
               RemoveAt(clients, k)[i] = IF i < k THEN clients[i] ELSE clients[i + 1]
        BY <4>0, RemoveAtIs
      <4> QED
        BY <3>1, <4>2, <4>3, <4>4
    <3> HIDE DEF n
    <3>3. n \in Nat /\ DOMAIN clients = 1 .. n
      BY <1>2 DEF n
    \* Each place of the new list is a place of the old one, in the same order.
    <3> DEFINE old(i) == IF i < k THEN i ELSE i + 1
    <3>4. \A i \in 1 .. n - 1 : old(i) \in 1 .. n /\ clients'[i] = clients[old(i)]
      BY <3>1, <3>2, <3>3
    <3>5. \A i, j \in 1 .. n - 1 : old(i) = old(j) => i = j
      BY <3>1, <3>3
    <3>6. \A j \in 1 .. n : j # k => \E i \in 1 .. n - 1 : old(i) = j
      <4> SUFFICES ASSUME NEW j \in 1 .. n, j # k PROVE \E i \in 1 .. n - 1 : old(i) = j
        OBVIOUS
      <4>1. CASE j < k
        BY <3>1, <3>3, <4>1
      <4>2. CASE j > k
        <5>1. j - 1 \in 1 .. n - 1 /\ old(j - 1) = j
          BY <3>1, <3>3, <4>2
        <5> QED
          BY <5>1
      <4> QED
        BY <3>1, <3>3, <4>1, <4>2
    <3> HIDE DEF old
    <3>7. \A c \in Client : Listed(c) /\ Runs(c) => Listed(c)'
      <4> SUFFICES ASSUME NEW c \in Client, Listed(c), Runs(c) PROVE Listed(c)'
        OBVIOUS
      <4>1. PICK j \in 1 .. n : clients[j] = c
        BY <3>3 DEF Listed
      <4>2. j # k
        BY <3>1, <4>1 DEF Runs
      <4>3. PICK i \in 1 .. n - 1 : old(i) = j
        BY <3>6, <4>2
      <4>4. i \in DOMAIN clients' /\ clients'[i] = c
        BY <3>2, <3>4, <4>1, <4>3
      <4> QED
        BY <4>4 DEF Listed
    <3>8. Room'
      BY <1>1, <1>3, <2>1, <3>2, <3>3 DEF Room, n
    <3>9. \A i, j \in DOMAIN clients' : clients'[i] = clients'[j] => i = j
      BY <1>1, <3>2, <3>3, <3>4, <3>5 DEF Members
    <3>10. \A i \in DOMAIN clients' : thread[clients'[i]] \in Going
      BY <1>1, <3>2, <3>3, <3>4 DEF Members
    <3>11. Members'
      BY <1>1, <2>1, <3>7, <3>9, <3>10 DEF Members, Runs
    <3> QED
      BY <2>2, <3>8, <3>11
  <2> QED
    BY <2>3, <2>4
<1>7. CASE Decide
  <2>1. /\ acc.pc = "cleanup" /\ acc.conn \in Client /\ thread[acc.conn] = "accepted"
        /\ mu' = None /\ UNCHANGED <<clients, stopping>>
    BY <1>1, <1>7 DEF Decide, Walk
  <2>2. CASE Full
    <3>1. At(acc.conn, "rejected") /\ acc'.pc = "accept"
      BY <1>7, <2>2 DEF Decide, Accepting
    <3>2. Members'
      BY <1>4, <2>1, <3>1
    <3> QED
      BY <1>1, <1>3, <2>1, <3>1, <3>2 DEF Walk, Room
  <2>3. CASE ~ Full
    <3>1. acc'.pc = "add" /\ acc'.conn = acc.conn /\ UNCHANGED thread
      BY <1>1, <1>7, <2>3 DEF Decide
    <3>2. Len(clients) < Limit
      BY <1>2, <1>3, <2>3 DEF Full
    <3> QED
      BY <1>1, <1>3, <2>1, <3>1, <3>2 DEF Walk, Room, Members, Runs, Listed
  <2> QED
    BY <2>2, <2>3
<1>8. CASE AddClient
  <2> DEFINE c == acc.conn
             n == Len(clients)
  <2>1. /\ acc.pc = "add" /\ c \in Client /\ thread[c] = "accepted" /\ stopping \in {"no", "join accept"}
        /\ mu = None /\ UNCHANGED <<mu, stopping>> /\ acc'.pc = "accept"
        /\ clients' = Append(clients, c)
    BY <1>1, <1>8 DEF AddClient, Walk, Accepting, IInv, TypeOK
  <2>2. thread'[c] = "handshake" /\ \A d \in Client \ {c} : thread'[d] = thread[d]
    BY <1>1, <1>8, <2>1, AtGoes DEF AddClient, ThreadStates
  <2> HIDE DEF c
  <2>3. /\ Len(clients') = n + 1 /\ DOMAIN clients' = 1 .. n + 1
        /\ \A i \in 1 .. n : clients'[i] = clients[i]
        /\ clients'[n + 1] = c
    <3>0. clients \in Seq(Client) /\ c \in Client
      BY <1>1, <2>1
    <3>1. Append(clients, c) \in Seq(Client) /\ Len(Append(clients, c)) = n + 1
      BY <3>0, AppendProperties
    <3>2. DOMAIN Append(clients, c) = 1 .. n + 1
      BY <3>1, LenProperties
    <3>3. \A i \in 1 .. n : Append(clients, c)[i] = clients[i]
      BY <3>0, AppendProperties
    <3>4. Append(clients, c)[n + 1] = c
      BY <3>0, AppendProperties
    <3> QED
      BY <2>1, <3>1, <3>2, <3>3, <3>4
  <2> HIDE DEF n
  <2>4. n \in Nat /\ DOMAIN clients = 1 .. n
    BY <1>2 DEF n
  <2>5. \A i \in 1 .. n : clients[i] # c
    BY <1>1, <2>1, <2>4 DEF Members, Going
  <2>6. Walk'
    BY <1>1, <1>3, <2>1 DEF Walk
  <2>7. Room'
    <3>1. acc'.pc # "add" /\ n < Limit
      BY <1>1, <2>1 DEF Room, n
    <3>2. Len(clients') <= Limit
      BY <1>3, <2>3, <2>4, <3>1
    <3> QED
      BY <3>1, <3>2 DEF Room
  <2>8. \A i, j \in 1 .. n + 1 : clients'[i] = clients'[j] => i = j
    <3> SUFFICES ASSUME NEW i \in 1 .. n + 1, NEW j \in 1 .. n + 1, clients'[i] = clients'[j]
                 PROVE  i = j
      OBVIOUS
    <3>1. CASE i \in 1 .. n /\ j \in 1 .. n
      BY <1>1, <2>3, <2>4, <3>1 DEF Members
    <3>2. CASE i = n + 1 \/ j = n + 1
      BY <2>3, <2>4, <2>5, <3>2
    <3> QED
      BY <2>4, <3>1, <3>2
  <2>9. \A d \in Client : Runs(d)' => d = c \/ Runs(d)
    BY <2>2 DEF Runs
  <2>10. \A d \in Client : Listed(d)' <=> d = c \/ Listed(d)
    <3> SUFFICES ASSUME NEW d \in Client PROVE Listed(d)' <=> d = c \/ Listed(d)
      OBVIOUS
    <3>1. Listed(d)' <=> \E i \in 1 .. n + 1 : clients'[i] = d
      BY <2>3 DEF Listed
    <3>2. Listed(d) <=> \E i \in 1 .. n : clients[i] = d
      BY <2>4 DEF Listed
    <3>3. \A i \in 1 .. n + 1 : i \in 1 .. n \/ i = n + 1
      BY <2>4
    <3>4. n + 1 \in 1 .. n + 1 /\ \A i \in 1 .. n : i \in 1 .. n + 1
      BY <2>4
    <3> QED
      BY <2>3, <3>1, <3>2, <3>3, <3>4
  <2>11. \A i \in 1 .. n + 1 : thread'[clients'[i]] \in Going
    <3> SUFFICES ASSUME NEW i \in 1 .. n + 1
                 PROVE  thread'[clients'[i]] \in Going
      OBVIOUS
    <3>1. CASE i = n + 1
      BY <2>2, <2>3, <3>1 DEF Going
    <3>2. CASE i \in 1 .. n
      <4>1. clients[i] \in Client \ {c} /\ thread[clients[i]] \in Going
        BY <1>1, <1>2, <2>4, <2>5, <3>2 DEF Members
      <4> QED
        BY <2>2, <2>3, <3>2, <4>1
    <3> QED
      BY <2>4, <3>1, <3>2
  <2>12. Members'
    BY <1>1, <2>1, <2>3, <2>8, <2>9, <2>10, <2>11 DEF Members
  <2> QED
    BY <2>6, <2>7, <2>12
<1>9. CASE LeaveAcceptLoop
  <2>1. /\ acc.pc = "accept" /\ acc'.pc = "ended" /\ UNCHANGED <<mu, clients, thread, stopping>>
    BY <1>1, <1>9 DEF LeaveAcceptLoop
  <2> QED
    BY <1>1, <2>1 DEF Walk, Room, Members, Runs, Listed
<1> QED
  BY <1>5, <1>6, <1>7, <1>8, <1>9 DEF AcceptThread

LEMMA StepInvariant == IInv /\ [Next]_vars => IInv'
<1> SUFFICES ASSUME IInv, [Next]_vars PROVE Walk' /\ Room' /\ Members'
  BY StepTypes DEF IInv
<1>1. TypeOK /\ Walk /\ Room /\ Members /\ thread \in [Client -> ThreadStates]
  BY DEF IInv, TypeOK
<1>2. ASSUME NEW c \in Client, ClientThread(c) \/ ReadPayload(c) \/ Leave(c) \/ Stall(c)
      PROVE  Walk' /\ Room' /\ Members'
  <2>1. UNCHANGED <<mu, clients, acc, stopping>>
    BY <1>2, Zenon DEF ClientThread, Handshake, HandlerDone, ReadFails, Close, FreeSession, ReadPayload,
       Leave, Stall
  <2>2. \/ UNCHANGED thread
        \/ Runs(c) /\ \E where \in Going : At(c, where)
    BY <1>2, Zenon DEF ClientThread, Handshake, HandlerDone, ReadFails, Close, FreeSession, ReadPayload,
       Leave, Stall, Runs, Going
  <2> QED
    BY <2>1, <2>2, ClientGoesOn
<1>3. CASE UNCHANGED <<mu, clients, acc, thread, stopping>>
  BY <1>1, <1>3 DEF Walk, Room, Members, Runs, Listed
<1>4. ASSUME NEW t \in Caller, CallBroadcast(t) \/ Broadcasting(t)
      PROVE  Walk' /\ Room' /\ Members'
  <2>1. UNCHANGED <<mu, clients, acc, thread, stopping>>
    BY <1>4, Zenon DEF CallBroadcast, Broadcasting, CopyClients, Consider, WriteTo
  <2> QED
    BY <1>3, <2>1
<1>5. CASE AskStop
  BY <1>1, <1>5 DEF AskStop, Walk, Room, Members, Runs, Listed
<1>6. CASE CloseClients
  BY <1>1, <1>6 DEF CloseClients, Walk, Room, Members, Runs, Listed
\* stop() has waited for the threads of the listed clients: no other runs.
<1>7. CASE ClearClients
  <2>1. /\ stopping = "join clients" /\ stopping' = "done" /\ clients' = <<>>
        /\ UNCHANGED <<mu, acc, thread>>
        /\ \A c \in Client : Listed(c) => thread[c] = "ended"
    BY <1>7 DEF ClearClients
  <2>2. \A c \in Client : ~ Runs(c)
    BY <1>1, <2>1 DEF Members, Runs
  <2>3. Len(<<>>) = 0 /\ DOMAIN <<>> = {}
    OBVIOUS
  <2>4. Walk' /\ Members'
    BY <1>1, <2>1, <2>2, <2>3 DEF Walk, Members, Runs
  <2>5. acc'.pc # "add" /\ Limit \in Nat
    BY <1>1, <2>1, ServerAssumption DEF Walk, ServerAssumption
  <2>6. Len(clients') = 0
    BY <2>1, <2>3
  <2>7. Room'
    BY <2>5, <2>6 DEF Room
  <2> QED
    BY <2>4, <2>7
<1> QED
  BY <1>2, <1>3, <1>4, <1>5, <1>6, <1>7, AcceptKeepsList DEF Next, Stop, vars

LEMMA Invariance == Spec => []IInv
  BY InitInvariant, StepInvariant, PTL DEF Spec

\* However clients come and go, and whatever the limit, clients_ has each
\* client whose thread runs, once, and never more clients than the limit.
THEOREM ListKept == Spec => []ListIsRight
<1>1. IInv => ListIsRight
  BY DEF IInv, Room, Members, ListIsRight
<1> QED
  BY <1>1, Invariance, PTL

\* stop() leaves no thread behind, whoever was being accepted or was talking
\* when it was called.
THEOREM StopIsComplete == Spec => []StopLeavesNothing
<1>1. IInv => StopLeavesNothing
  BY DEF IInv, Walk, Members, StopLeavesNothing
<1> QED
  BY <1>1, Invariance, PTL

=============================================================================
