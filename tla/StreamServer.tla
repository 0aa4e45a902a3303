---------------------------- MODULE StreamServer ----------------------------
(***************************************************************************)
(* The mesh stream server (src/src/stream/stream_server.cpp): an accepting *)
(* thread, a thread per client, and broadcast(), which the client threads  *)
(* call from their handlers (send_db_sync) and the radios' reading threads *)
(* for every packet.  clients_mu_ guards the list of clients; active and   *)
(* ssl are read without it.                                                *)
(*                                                                         *)
(* A connection is used once: a client that comes back is a new one.       *)
(***************************************************************************)
EXTENDS Integers, SequencesExt

CONSTANTS
    Client,         \* the connections clients may make
    Talker,         \* those that send sync payloads
    Lazy,           \* those that may stop reading
    Radio,          \* a radio's reading thread
    None,           \* no thread, no client
    Limit,          \* clients_.size() >= 50 is rejected
    MaxBroadcasts   \* bound: broadcasts a thread starts

ASSUME ServerAssumption ==
    /\ Talker \subseteq Client /\ Lazy \subseteq Client
    /\ Radio \notin Client /\ None \notin Client \cup {Radio, "accept"}
    /\ Limit \in Nat \ {0}
    /\ MaxBroadcasts \in Nat

VARIABLES
    running,    \* running_
    mu,         \* who holds clients_mu_ across a wait: None or "accept"
    clients,    \* clients_
    acc,        \* the accepting thread: where it is, its connection, and the
                \* position in clients_ its cleanup has come to
    thread,     \* thread[c]: what the thread of c is doing
    active,     \* c->active
    ssl,        \* c->ssl: "none", "live", "freed"
    gone,       \* the connections the client has left
    shut,       \* the connections stop() has shut down
    stalled,    \* the connections whose client has stopped reading
    work,       \* work[t]: the broadcast thread t is in
    started,    \* started[t]: broadcasts thread t has begun
    stopping    \* how far stop() has come

vars == <<running, mu, clients, acc, thread, active, ssl, gone, shut, stalled,
          work, started, stopping>>

Caller == Talker \cup {Radio}
NoWork == [pc |-> "none", todo |-> <<>>, at |-> None]
Accepting == [pc |-> "accept", conn |-> None, it |-> 1]

Init ==
    /\ running = TRUE
    /\ mu = None
    /\ clients = <<>>
    /\ acc = Accepting
    /\ thread = [c \in Client |-> "new"]
    /\ active = [c \in Client |-> TRUE]
    /\ ssl = [c \in Client |-> "none"]
    /\ gone = {}
    /\ shut = {}
    /\ stalled = {}
    /\ work = [t \in Caller |-> NoWork]
    /\ started = [t \in Caller |-> 0]
    /\ stopping = "no"

Listed(c) == \E i \in DOMAIN clients : clients[i] = c
At(c, where) == thread' = [thread EXCEPT ![c] = where]
Idle(t) == work[t].pc = "none"

\* A write to c would wait until c reads, leaves, or is shut down: the send
\* timeout ends with the authentication.
Stuck(c) == c \in stalled \ (gone \cup shut) /\ thread[c] \in {"reading", "handling", "closing"}

-----------------------------------------------------------------------------
(* accept_loop *)

\* A client has come.  The cleanup of dead clients begins: clients_mu_ is held
\* from here on.
Accept(c) ==
    /\ acc.pc = "accept" /\ running /\ mu = None
    /\ thread[c] = "new"
    /\ At(c, "accepted")
    /\ mu' = "accept"
    /\ acc' = [pc |-> "cleanup", conn |-> c, it |-> 1]
    /\ UNCHANGED <<running, clients, active, ssl, gone, shut, stalled, work, started,
                   stopping>>

\* The next client of the list: an inactive one is joined, with the lock held,
\* and erased.
Reap ==
    /\ acc.pc = "cleanup" /\ acc.it <= Len(clients)
    /\ LET c == clients[acc.it]
       IN  \/ active[c] /\ acc' = [acc EXCEPT !.it = @ + 1] /\ UNCHANGED clients
           \/ /\ ~ active[c] /\ thread[c] = "ended"
              /\ clients' = RemoveAt(clients, acc.it) /\ UNCHANGED acc
    /\ UNCHANGED <<running, mu, thread, active, ssl, gone, shut, stalled, work,
                   started, stopping>>

\* Mutant: one client too many.
FullLate == Len(clients) > Limit

Full == Len(clients) >= Limit

\* Room for one more, or not.
Decide ==
    /\ acc.pc = "cleanup" /\ acc.it > Len(clients)
    /\ mu' = None
    /\ IF Full
       THEN At(acc.conn, "rejected") /\ acc' = Accepting
       ELSE acc' = [acc EXCEPT !.pc = "add", !.it = 1] /\ UNCHANGED thread
    /\ UNCHANGED <<running, clients, active, ssl, gone, shut, stalled, work,
                   started, stopping>>

\* The new client enters the list with a fresh session, and its thread starts.
AddClient ==
    /\ acc.pc = "add" /\ mu = None
    /\ clients' = Append(clients, acc.conn)
    /\ ssl' = [ssl EXCEPT ![acc.conn] = "live"]
    /\ At(acc.conn, "handshake")
    /\ acc' = Accepting
    /\ UNCHANGED <<running, mu, active, gone, shut, stalled, work, started,
                   stopping>>

LeaveAcceptLoop ==
    /\ acc.pc = "accept" /\ ~ running
    /\ acc' = [acc EXCEPT !.pc = "ended"]
    /\ UNCHANGED <<running, mu, clients, thread, active, ssl, gone, shut, stalled,
                   work, started, stopping>>

AcceptThread == Reap \/ Decide \/ AddClient \/ LeaveAcceptLoop

-----------------------------------------------------------------------------
(* The thread of client c *)

\* SSL_accept and the authentication, which may fail in several ways.
Handshake(c) ==
    /\ thread[c] = "handshake"
    /\ \/ /\ c \notin gone \cup shut
          /\ At(c, IF active[c] /\ running THEN "reading" ELSE "leaving")
          /\ UNCHANGED active
       \/ /\ active' = [active EXCEPT ![c] = FALSE]
          /\ At(c, "leaving")
    /\ UNCHANGED <<running, mu, clients, acc, ssl, gone, shut, stalled, work, started, stopping>>

\* A sync payload arrives; its handler runs in this thread.
ReadPayload(c) ==
    /\ thread[c] = "reading" /\ c \in Talker \ shut
    /\ At(c, "handling")
    /\ UNCHANGED <<running, mu, clients, acc, active, ssl, gone, shut, stalled, work,
                   started, stopping>>

\* The handler returns.
HandlerDone(c) ==
    /\ thread[c] = "handling" /\ Idle(c)
    /\ At(c, IF active[c] /\ running THEN "reading" ELSE "leaving")
    /\ UNCHANGED <<running, mu, clients, acc, active, ssl, gone, shut, stalled, work,
                   started, stopping>>

\* The read fails.
ReadFails(c) ==
    /\ thread[c] = "reading" /\ c \in gone \cup shut
    /\ active' = [active EXCEPT ![c] = FALSE]
    /\ At(c, "leaving")
    /\ UNCHANGED <<running, mu, clients, acc, ssl, gone, shut, stalled, work,
                   started, stopping>>

\* Cleanup: SSL_shutdown writes to the client ...
Close(c) ==
    /\ thread[c] = "leaving"
    /\ active' = [active EXCEPT ![c] = FALSE]
    /\ At(c, "closing")
    /\ UNCHANGED <<running, mu, clients, acc, ssl, gone, shut, stalled, work,
                   started, stopping>>

\* ... the session is freed and the thread ends.
FreeSession(c) ==
    /\ thread[c] = "closing" /\ ~ Stuck(c)
    /\ ssl' = [ssl EXCEPT ![c] = "freed"]
    /\ At(c, "ended")
    /\ gone' = gone \ {c} /\ stalled' = stalled \ {c}
    /\ UNCHANGED <<running, mu, clients, acc, active, shut, work, started, stopping>>

ClientThread(c) ==
    Handshake(c) \/ HandlerDone(c) \/ ReadFails(c) \/ Close(c) \/ FreeSession(c)

-----------------------------------------------------------------------------
(* broadcast, called by thread t *)

CallBroadcast(t) ==
    /\ Idle(t)
    /\ t \in Client => thread[t] = "handling"
    /\ started[t] < MaxBroadcasts
    /\ started' = [started EXCEPT ![t] = @ + 1]
    /\ work' = IF running THEN [work EXCEPT ![t].pc = "lock"] ELSE work
    /\ UNCHANGED <<running, mu, clients, acc, thread, active, ssl, gone,
                   shut, stalled, stopping>>

CopyClients(t) ==
    /\ work[t].pc = "lock" /\ mu = None
    /\ work' = [work EXCEPT ![t].pc = "each", ![t].todo = clients]
    /\ UNCHANGED <<running, mu, clients, acc, thread, active, ssl, gone,
                   shut, stalled, started, stopping>>

\* The next client of the copy: active, and with a session?
Consider(t) ==
    /\ work[t].pc = "each"
    /\ IF work[t].todo = <<>>
       THEN work' = [work EXCEPT ![t] = NoWork]
       ELSE LET c == Head(work[t].todo)
                rest == Tail(work[t].todo)
            IN  work' = [work EXCEPT ![t] =
                    IF active[c] /\ ssl[c] = "live"
                    THEN [pc |-> "write", todo |-> rest, at |-> c]
                    ELSE [@ EXCEPT !.todo = rest]]
    /\ UNCHANGED <<running, mu, clients, acc, thread, active, ssl, gone,
                   shut, stalled, started, stopping>>

\* SSL_write under write_mu, which other broadcasts to c wait for.  It fails
\* once the other end is gone, though not necessarily at once, or when a client
\* being authenticated does not read for five seconds.
WriteTo(t) ==
    /\ work[t].pc = "write"
    /\ LET c == work[t].at
       IN  /\ ~ Stuck(c)
           /\ \/ UNCHANGED active
              \/ /\ c \in gone \cup shut \/ thread[c] = "handshake"
                 /\ active' = [active EXCEPT ![c] = FALSE]
    /\ work' = [work EXCEPT ![t].pc = "each", ![t].at = None]
    /\ UNCHANGED <<running, mu, clients, acc, thread, ssl, gone, shut, stalled,
                   started, stopping>>

Broadcasting(t) == CopyClients(t) \/ Consider(t) \/ WriteTo(t)

-----------------------------------------------------------------------------
(* stop *)

AskStop ==
    /\ stopping = "no"
    /\ running' = FALSE
    /\ stopping' = "join accept"
    /\ UNCHANGED <<mu, clients, acc, thread, active, ssl, gone, shut, stalled, work, started>>

\* Mutant: the connections are not shut down.
CloseClientsQuietly ==
    /\ stopping = "join accept"
    /\ acc.pc = "ended" /\ mu = None
    /\ active' = [c \in Client |-> active[c] /\ ~ Listed(c)]
    /\ stopping' = "join clients"
    /\ UNCHANGED <<running, mu, clients, acc, thread, ssl, gone, shut, stalled, work, started>>

\* The accepting thread has been joined: close the clients of the list.
CloseClients ==
    /\ stopping = "join accept"
    /\ acc.pc = "ended" /\ mu = None
    /\ active' = [c \in Client |-> active[c] /\ ~ Listed(c)]
    /\ shut' = {c \in Client : Listed(c)}
    /\ stopping' = "join clients"
    /\ UNCHANGED <<running, mu, clients, acc, thread, ssl, gone, stalled, work, started>>

\* Mutant: the threads are detached, not joined.
ClearClientsDetached ==
    /\ stopping = "join clients"
    /\ mu = None
    /\ clients' = <<>>
    /\ stopping' = "done"
    /\ UNCHANGED <<running, mu, acc, thread, active, ssl, gone, shut, stalled, work, started>>

ClearClients ==
    /\ stopping = "join clients"
    /\ mu = None
    /\ \A c \in Client : Listed(c) => thread[c] = "ended"
    /\ clients' = <<>>
    /\ stopping' = "done"
    /\ UNCHANGED <<running, mu, acc, thread, active, ssl, gone, shut, stalled, work, started>>

Stop == CloseClients \/ ClearClients

-----------------------------------------------------------------------------
(* The clients' side *)

\* A client goes: the handshake may fail anyway, and after the last read only
\* who waits for it sees it go.
Leave(c) ==
    /\ c \notin gone \cup shut
    /\ thread[c] \in {"reading", "handling"} \/ Stuck(c)
    /\ gone' = gone \cup {c}
    /\ UNCHANGED <<running, mu, clients, acc, thread, active, ssl, shut,
                   stalled, work, started, stopping>>

\* A client stays connected and reads no more: its buffers fill up.
Stall(c) ==
    /\ c \in Lazy \ (gone \cup stalled) /\ thread[c] \in {"reading", "handling"}
    /\ stalled' = stalled \cup {c}
    /\ UNCHANGED <<running, mu, clients, acc, thread, active, ssl, gone, shut,
                   work, started, stopping>>

Next ==
    \/ AcceptThread
    \/ \E c \in Client : Accept(c) \/ ClientThread(c) \/ ReadPayload(c) \/ Leave(c) \/ Stall(c)
    \/ \E t \in Caller : CallBroadcast(t) \/ Broadcasting(t)
    \/ AskStop \/ Stop

Spec == Init /\ [][Next]_vars

\* Every thread keeps running.  Clients owe nothing, and a handler need not
\* broadcast.
Fairness ==
    /\ WF_vars(AcceptThread)
    /\ \A c \in Client : WF_vars(ClientThread(c))
    /\ \A t \in Caller : WF_vars(Broadcasting(t))
    /\ WF_vars(Stop)

FairSpec == Spec /\ Fairness

-----------------------------------------------------------------------------
(* Properties *)

ThreadStates == {"new", "accepted", "rejected", "handshake", "reading", "handling",
                 "leaving", "closing", "ended"}

TypeOK ==
    /\ running \in BOOLEAN
    /\ mu \in {None, "accept"}
    /\ clients \in Seq(Client)
    /\ acc \in [pc : {"accept", "cleanup", "add", "ended"},
                conn : Client \cup {None}, it : Nat \ {0}]
    /\ acc.pc \in {"cleanup", "add"} => acc.conn # None
    /\ thread \in [Client -> ThreadStates]
    /\ active \in [Client -> BOOLEAN]
    /\ ssl \in [Client -> {"none", "live", "freed"}]
    /\ {gone, shut, stalled} \subseteq SUBSET Client
    /\ work \in [Caller -> [pc : {"none", "lock", "each", "write"},
                            todo : Seq(Client), at : Client \cup {None}]]
    /\ \A t \in Caller : work[t].pc = "write" => work[t].at # None
    /\ started \in [Caller -> 0 .. MaxBroadcasts]
    /\ stopping \in {"no", "join accept", "join clients", "done"}

Runs(c) == thread[c] \in {"handshake", "reading", "handling", "leaving", "closing"}

\* clients_ holds every client whose thread runs, each once, and never more
\* than the limit, although the limit is tested in one critical section and
\* the client added in another.
ListIsRight ==
    /\ TypeOK
    /\ Len(clients) <= Limit
    /\ \A i, j \in DOMAIN clients : clients[i] = clients[j] => i = j
    /\ stopping # "done" => \A c \in Client : Runs(c) => Listed(c)

\* When stop() returns no thread of the server is left, not even that of a
\* client that was being accepted meanwhile.
StopLeavesNothing ==
    stopping = "done" => /\ acc.pc = "ended"
                         /\ \A c \in Client : ~ Runs(c)

\* Thread t writes to a client that reads no more.
WaitsToWrite(t) == work[t].pc = "write" /\ Stuck(work[t].at)

\* The accepting thread, clients_mu_ in hand, joins the thread of a client that
\* has left, and whose handler is about to broadcast or which waits to write.
JoinsABlocked ==
    /\ acc.pc = "cleanup" /\ acc.it <= Len(clients)
    /\ LET c == clients[acc.it]
       IN  /\ ~ active[c]
           /\ \/ c \in Talker /\ (work[c].pc = "lock" \/ WaitsToWrite(c))
              \/ thread[c] = "closing" /\ Stuck(c)

\* Nothing holds a broadcast up but a client that reads no more, and nothing
\* holds stop() up, which shuts that client's connection down - unless the
\* accepting thread joins a thread that is blocked: stop() joins that one first.
CallsReturnOrJoin ==
    /\ \A t \in Caller : ~ Idle(t) ~> (Idle(t) \/ WaitsToWrite(t) \/ JoinsABlocked)
    /\ stopping = "join accept" ~> (stopping = "done" \/ JoinsABlocked)
=============================================================================
