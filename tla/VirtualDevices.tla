--------------------------- MODULE VirtualDevices ---------------------------
(***************************************************************************)
(* Virtual devices: the radios of linked instances, offered and used as if *)
(* they were local (src/src/mesh/db_sync.cpp: initiate_sync, push_devices, *)
(* handle_devices, handle_send_raw; src/src/mesh/mesh_service.cpp:         *)
(* update_virtual_devices, send_raw_to_physical, and send_text and         *)
(* send_traceroute as far as they choose where a packet goes).             *)
(*                                                                         *)
(* A session joins a client and a server.  The client has the server as a  *)
(* stream device in devices_ (mesh:<host>); a server knows a client only   *)
(* by the label meshserver:<address> its payloads bear, which clients at   *)
(* one address share and which is no device.  Sync payloads go to all      *)
(* sessions, whatever their target.                                        *)
(*                                                                         *)
(* initiate_sync takes the list of devices in one critical section and     *)
(* looks at each of them in another; several reading threads may be at it  *)
(* at once.  The inventory it sends first is in DbSync.                    *)
(***************************************************************************)
EXTENDS Integers, Sequences, FiniteSets

CONSTANTS
    Peer,        \* the running instances
    Session,     \* <<client, server>>
    Address,     \* Address[p]: the address p connects from
    Radio,       \* names of radios, such as serial:/dev/ttyUSB0
    Owns,        \* Owns[p]: the radios that may be attached to p
    Number,      \* Number[p][d]: the node number of radio d of p
    Msg,         \* the packets to be sent
    Syncer,      \* threads that run initiate_sync
    Nothing,     \* no device, no call
    MaxSyncs,    \* bound: syncs, in all
    MaxChanges   \* bound: changes after which nothing more is lost, detached or renumbered

\* The ids of devices_: those of radios, and mesh:<host> of a stream to server q.
Stream(q) == <<"mesh", q>>
Local(d) == <<"radio", d>>
Device == {Local(d) : d \in Radio} \cup {Stream(q) : q \in Peer}

ASSUME VirtualAssumption ==
    /\ IsFiniteSet(Peer) /\ IsFiniteSet(Radio)
    /\ Session \subseteq Peer \X Peer
    /\ \A s \in Session : s[1] # s[2] /\ <<s[2], s[1]>> \notin Session
    /\ DOMAIN Address = Peer
    /\ Owns \in [Peer -> SUBSET Radio]
    /\ Number \in [Peer -> [Radio -> Nat \ {0}]]
    /\ Nothing \notin Peer \cup Device
    /\ MaxSyncs \in Nat /\ MaxChanges \in Nat

Place == Peer \X Radio
Channel == Session \cup {<<s[2], s[1]>> : s \in Session}
Neighbours(p) == {q \in Peer : <<p, q>> \in Channel}

\* The label that payloads over c bear at the end where they are read.
Label(c) == IF <<c[2], c[1]>> \in Session THEN Stream(c[1])
            ELSE <<"meshserver", Address[c[1]]>>

VARIABLES
    up,        \* the sessions that are established
    listed,    \* listed[p]: the keys of devices_
    working,   \* working[p]: the radios that are connected
    number,    \* number[p][d]: my_node_num of the runtime of d, 0 when unknown
    table,     \* virtual_devices_: [source, original, node]
    net,       \* net[c]: payloads sent over c and not yet read
    task,      \* task[t]: the initiate_sync thread t is in
    call,      \* call[m]: how far the call that sends m has come
    aired,     \* aired[m][<<p, d>>]: how often radio d of p has transmitted m
    syncs, changes

vars == <<up, listed, working, number, table, net, task, call, aired, syncs, changes>>

NoTask == [by |-> Nothing, todo |-> {}, list |-> {}]
NoCall == [pc |-> "idle", traced |-> FALSE, by |-> Nothing, device |-> Nothing,
           source |-> Nothing, target |-> Nothing]

\* The servers whose radios a stream to q may speak for: q and those above it.
Above(q) ==
    {s \in Peer : \A S \in SUBSET Peer :
        (q \in S /\ \A x \in Session : x[1] \in S => x[2] \in S) => s \in S}

\* The node numbers that device d of p may report: its own, or for a stream
\* that of any radio behind it.
Numbers(p, d) ==
    {Number[p][r] : r \in {x \in working[p] : d = Local(x)}}
    \cup UNION {{Number[q][r] : r \in working[q]} :
                q \in {x \in Peer : \E s \in up : s[1] = p /\ d = Stream(s[2]) /\ x \in Above(s[2])}}

Init ==
    /\ up = Session
    /\ listed = [p \in Peer |-> {Local(d) : d \in Owns[p]}
                                  \cup {Stream(s[2]) : s \in {s \in Session : s[1] = p}}]
    /\ working = Owns
    /\ number = [p \in Peer |-> [d \in Device |->
                   IF d \in listed[p] /\ Numbers(p, d) # {}
                   THEN CHOOSE n \in Numbers(p, d) : TRUE ELSE 0]]
    /\ table = [p \in Peer |-> {}]
    /\ net = [c \in Channel |-> <<>>]
    /\ task = [t \in Syncer |-> NoTask]
    /\ call = [m \in Msg |-> NoCall]
    /\ aired = [m \in Msg |-> [x \in Place |-> 0]]
    /\ syncs = 0 /\ changes = 0

Alive(c) == c \in up \/ <<c[2], c[1]>> \in up

\* The link of device d of p works.  is_connected says so even when it does not:
\* nothing but stop clears connected_, and until reconnect_device calls it a
\* write to a lost link may fail or not.
Works(p, d) ==
    \/ \E r \in working[p] : d = Local(r)
    \/ \E s \in up : s[1] = p /\ d = Stream(s[2])

\* send_db_sync by p, over the queues n.
Broadcast(n, p, payload) ==
    [c \in Channel |-> IF c[1] = p /\ Alive(c) THEN Append(n[c], payload) ELSE n[c]]

Read(c) == [net EXCEPT ![c] = Tail(@)]
Arrived(c, type) == net[c] # <<>> /\ Head(net[c]).type = type

-----------------------------------------------------------------------------
(* Advertising: initiate_sync at p, by thread t *)

Snapshot(p, t) ==
    /\ task[t] = NoTask
    /\ syncs < MaxSyncs
    /\ syncs' = syncs + 1
    /\ task' = [task EXCEPT ![t] = [by |-> p, todo |-> listed[p], list |-> {}]]
    /\ UNCHANGED <<up, listed, working, number, table, net, call, aired, changes>>

\* db_for(d): a device no longer listed stands for the only one that is.
NumberFor(p, d) ==
    IF d \in listed[p] THEN number[p][d]
    ELSE IF Cardinality(listed[p]) = 1
         THEN number[p][CHOOSE e \in listed[p] : TRUE]
         ELSE 0

LookUp(t, d) ==
    LET p == task[t].by
        n == NumberFor(p, d)
    IN  /\ d \in task[t].todo
        /\ task' = [task EXCEPT ![t].todo = @ \ {d},
                                ![t].list = IF n = 0 THEN @ ELSE @ \cup {<<d, n>>}]
        /\ UNCHANGED <<up, listed, working, number, table, net, call, aired, syncs, changes>>

\* push_devices, which sends no empty list.
Publish(t) ==
    LET done == task[t]
    IN  /\ done # NoTask /\ done.todo = {}
        /\ net' = IF done.list = {} THEN net
                  ELSE Broadcast(net, done.by, [type |-> "devices", list |-> done.list])
        /\ task' = [task EXCEPT ![t] = NoTask]
        /\ UNCHANGED <<up, listed, working, number, table, call, aired, syncs, changes>>

Sync(t) == (\E d \in Device : LookUp(t, d)) \/ Publish(t)

EntriesOf(source, list) ==
    {[source |-> source, original |-> e[1], node |-> e[2]] : e \in list}

\* Mutant: what the stream offered before stays.
UpdatedKeeping(entries, source, list) == entries \cup EntriesOf(source, list)

\* update_virtual_devices: the list takes the place of all entries of its source.
Updated(entries, source, list) ==
    {e \in entries : e.source # source} \cup EntriesOf(source, list)

HandleDevices(c) ==
    /\ Arrived(c, "devices")
    /\ table' = [table EXCEPT ![c[2]] = Updated(@, Label(c), Head(net[c]).list)]
    /\ net' = Read(c)
    /\ UNCHANGED <<up, listed, working, number, task, call, aired, syncs, changes>>

-----------------------------------------------------------------------------
(* Transmitting *)

\* Packet m is written to the devices D of p: a radio transmits it, a stream
\* takes it to its server.  n: the queues.
Write(n, p, D, m) ==
    /\ aired' = [aired EXCEPT ![m] =
                   [x \in Place |-> IF /\ x[1] = p /\ x[2] \in working[p]
                                       /\ Local(x[2]) \in D
                                    THEN @[x] + 1 ELSE @[x]]]
    /\ net' = [c \in Channel |-> IF c[1] = p /\ c \in up /\ Stream(c[2]) \in D
                                 THEN Append(n[c], [type |-> "frame", msg |-> m])
                                 ELSE n[c]]

\* Mutant: the packet goes to every device.
HandleRawForAll(c) ==
    /\ Arrived(c, "raw")
    /\ Write(Read(c), c[2], Device, Head(net[c]).msg)
    /\ UNCHANGED <<up, listed, working, number, table, task, call, syncs, changes>>

\* handle_send_raw and send_raw_to_physical: the device of that id, if there is
\* one and it is connected.
HandleRaw(c) ==
    /\ Arrived(c, "raw")
    /\ Write(Read(c), c[2], {Head(net[c]).target} \cap listed[c[2]], Head(net[c]).msg)
    /\ UNCHANGED <<up, listed, working, number, table, task, call, syncs, changes>>

\* A frame that a client has written to its stream device goes to all devices
\* of the server (start_stream_server).
HandleFrame(c) ==
    /\ Arrived(c, "frame")
    /\ Write(Read(c), c[2], listed[c[2]], Head(net[c]).msg)
    /\ UNCHANGED <<up, listed, working, number, table, task, call, syncs, changes>>

Handle(c) == HandleDevices(c) \/ HandleRaw(c) \/ HandleFrame(c)

-----------------------------------------------------------------------------
(* send_text and send_traceroute *)

Goes(m, new) == call' = [call EXCEPT ![m] = new]

\* Through a device of p itself.
SendLocally(p, m, d) ==
    /\ call[m].pc = "idle"
    /\ d \in listed[p]
    /\ \/ /\ Write(net, p, {d}, m)
          /\ Goes(m, [NoCall EXCEPT !.pc = "sent", !.by = p, !.device = d])
       \/ /\ ~ Works(p, d)
          /\ Goes(m, [NoCall EXCEPT !.pc = "refused", !.by = p, !.device = d])
          /\ UNCHANGED <<net, aired>>
    /\ UNCHANGED <<up, listed, working, number, table, task, syncs, changes>>

\* virtual:<stream>:<radio>
Id(e) == <<"virtual", e.source, e.original>>

\* Through a virtual device: virtual_stream_for.
AskStream(p, m, e) ==
    /\ call[m].pc = "idle"
    /\ e \in table[p]
    /\ Goes(m, [pc |-> "asked", traced |-> FALSE, by |-> p, device |-> Id(e),
                source |-> e.source, target |-> Nothing])
    /\ UNCHANGED <<up, listed, working, number, table, net, task, aired, syncs, changes>>

\* virtual_original_for, in a critical section of its own: the device may be
\* gone by now.
AskOriginal(m) ==
    LET id == call[m].device
        there == \E e \in table[call[m].by] : Id(e) = id
    IN  /\ call[m].pc = "asked"
        /\ Goes(m, [call[m] EXCEPT !.pc = "ready",
                      !.target = IF there THEN id[3] ELSE Nothing])
        /\ UNCHANGED <<up, listed, working, number, table, net, task, aired, syncs, changes>>

\* The packet goes to all sessions, if the stream it is meant for is a device;
\* it may be refused if that does not work.  No radio of p has a part in it.
Route(p, m, c) ==
    \/ /\ c.source \in listed[p]
       /\ net' = Broadcast(net, p, [type |-> "raw", target |-> c.target, msg |-> m])
       /\ Goes(m, [c EXCEPT !.pc = "sent"])
    \/ /\ c.source \notin listed[p] \/ ~ Works(p, c.source)
       /\ Goes(m, [c EXCEPT !.pc = "refused"])
       /\ UNCHANGED net

\* Mutant: the id of the virtual device is sent.
SendTextAsVirtual(m) ==
    /\ call[m].pc = "ready"
    /\ Route(call[m].by, m, [call[m] EXCEPT !.target = call[m].device])
    /\ UNCHANGED <<up, listed, working, number, table, task, aired, syncs, changes>>

SendText(m) ==
    /\ call[m].pc = "ready"
    /\ Route(call[m].by, m, call[m])
    /\ UNCHANGED <<up, listed, working, number, table, task, aired, syncs, changes>>

\* send_traceroute looks once, and names the virtual device itself.
SendTraceroute(p, m, e) ==
    /\ call[m].pc = "idle"
    /\ e \in table[p]
    /\ Route(p, m, [pc |-> "ready", traced |-> TRUE, by |-> p, device |-> Id(e),
                    source |-> e.source, target |-> Id(e)])
    /\ UNCHANGED <<up, listed, working, number, table, task, aired, syncs, changes>>

Sending(m) == AskOriginal(m) \/ SendText(m)

-----------------------------------------------------------------------------
(* What changes at an instance *)

Change == changes' = changes + 1
Fault == changes < MaxChanges /\ Change

\* EvMyInfo.  The answer of a server's radio is relayed to all its clients.
LearnNumber(p, d) ==
    /\ Change
    /\ number[p][d] = 0 \/ changes < MaxChanges
    /\ d \in listed[p]
    /\ \E n \in Numbers(p, d) \ {number[p][d]} : number' = [number EXCEPT ![p][d] = n]
    /\ UNCHANGED <<up, listed, working, table, net, task, call, aired, syncs>>

SessionsOf(p, d) == {s \in Session : s[1] = p /\ d = Stream(s[2])}

\* What was on its way over the sessions S is lost.
Without(S) == [c \in Channel |-> IF c \in S \/ <<c[2], c[1]>> \in S THEN <<>> ELSE net[c]]

\* A device loses its connection: it stays in devices_.
Lose(p, d) ==
    /\ Fault
    /\ d \in listed[p] /\ Works(p, d)
    /\ working' = [working EXCEPT ![p] = {r \in @ : Local(r) # d}]
    /\ up' = up \ SessionsOf(p, d)
    /\ net' = Without(SessionsOf(p, d))
    /\ UNCHANGED <<listed, number, table, task, call, aired, syncs>>

\* reconnect_device: the runtime is kept.
Reconnect(p, d) ==
    /\ Change
    /\ d \in listed[p] /\ ~ Works(p, d)
    /\ working' = [working EXCEPT ![p] = @ \cup {r \in Owns[p] : Local(r) = d}]
    /\ up' = up \cup SessionsOf(p, d)
    /\ UNCHANGED <<listed, number, table, net, task, call, aired, syncs>>

\* disconnect_device.
Detach(p, d) ==
    /\ Fault
    /\ d \in listed[p]
    /\ listed' = [listed EXCEPT ![p] = @ \ {d}]
    /\ working' = [working EXCEPT ![p] = {r \in @ : Local(r) # d}]
    /\ up' = up \ SessionsOf(p, d)
    /\ net' = Without(SessionsOf(p, d))
    /\ UNCHANGED <<number, table, task, call, aired, syncs>>

\* connect_device: a new runtime.
Attach(p, d) ==
    /\ Change
    /\ d \notin listed[p]
    /\ SessionsOf(p, d) # {} \/ \E r \in Owns[p] : Local(r) = d
    /\ listed' = [listed EXCEPT ![p] = @ \cup {d}]
    /\ working' = [working EXCEPT ![p] = @ \cup {r \in Owns[p] : Local(r) = d}]
    /\ up' = up \cup SessionsOf(p, d)
    /\ number' = [number EXCEPT ![p][d] = 0]
    /\ UNCHANGED <<table, net, task, call, aired, syncs>>

Next ==
    \/ \E p \in Peer, t \in Syncer : Snapshot(p, t)
    \/ \E t \in Syncer : Sync(t)
    \/ \E c \in Channel : Handle(c)
    \/ \E p \in Peer, m \in Msg, d \in Device : SendLocally(p, m, d)
    \/ \E p \in Peer, m \in Msg : \E e \in table[p] : AskStream(p, m, e) \/ SendTraceroute(p, m, e)
    \/ \E m \in Msg : Sending(m)
    \/ \E p \in Peer, d \in Device :
          LearnNumber(p, d) \/ Lose(p, d) \/ Reconnect(p, d) \/ Detach(p, d) \/ Attach(p, d)

Spec == Init /\ [][Next]_vars

\* Reading threads, syncs and calls keep running; users and faults owe nothing.
Fairness ==
    /\ \A c \in Channel : WF_vars(Handle(c))
    /\ \A t \in Syncer : WF_vars(Sync(t))
    /\ \A m \in Msg : WF_vars(Sending(m))

FairSpec == Spec /\ Fairness

\* No server is reached over two streams of one instance, and none over its own:
\* true of the stars and daisy chains the README names.  Nothing in the code sees
\* to it: where it fails, a frame comes to a server twice.
OneWay ==
    /\ \A s \in Session : s[1] \notin Above(s[2])
    /\ \A s, t \in Session :
          s[1] = t[1] /\ s # t => Above(s[2]) \cap Above(t[2]) = {}

-----------------------------------------------------------------------------
(* Properties *)

TypeOK ==
    /\ up \subseteq Session
    /\ listed \in [Peer -> SUBSET Device]
    /\ \A p \in Peer : working[p] \subseteq {r \in Owns[p] : Local(r) \in listed[p]}
    /\ \A s \in up : Stream(s[2]) \in listed[s[1]]
    /\ number \in [Peer -> [Device -> Nat]]
    /\ \A p \in Peer : \A e \in table[p] : \E c \in Channel : c[2] = p /\ e.source = Label(c)
    /\ \A c \in Channel : \A i \in DOMAIN net[c] : net[c][i].type \in {"devices", "raw", "frame"}
    /\ \A t \in Syncer : task[t] = NoTask \/ task[t].by \in Peer
    /\ \A m \in Msg : call[m].pc \in {"idle", "asked", "ready", "sent", "refused"}
    /\ aired \in [Msg -> [Place -> Nat]]
    /\ syncs \in 0 .. MaxSyncs /\ changes \in 0 .. 3 * MaxChanges

Listing(p) == {<<d, number[p][d]>> : d \in {e \in listed[p] : number[p][e] # 0}}
Offers(p, source) ==
    {<<e.original, e.node>> : e \in {x \in table[p] : x.source = source}}

\* Where a packet written to device d of p may come out.
Outlets(p, d) ==
    {x \in Place : \/ d = Local(x[2]) /\ x[1] = p
                   \/ \E q \in Peer : d = Stream(q) /\ x[1] \in Above(q)}

IsVirtual(m) == call[m].pc # "idle" /\ call[m].device[1] = "virtual"

\* Where m may come out: at its own instance, or at a neighbour through a virtual
\* device of its name (whatever the stream), or through a stream that leads there;
\* nowhere, if send_traceroute sent it to a virtual device.
Addressed(m) ==
    IF IsVirtual(m)
    THEN {x \in Place : /\ ~ call[m].traced
                        /\ \E q \in Neighbours(call[m].by) : x \in Outlets(q, call[m].device[3])}
    ELSE Outlets(call[m].by, call[m].device)

AirsInPlace == \A m \in Msg : \A x \in Place : aired[m][x] > 0 => x \in Addressed(m)
AirsOnce == \A m \in Msg : \A x \in Place : aired[m][x] <= 1

\* A radio transmits only what was sent through it, and no packet twice: a raw
\* payload, which goes to all sessions, is for the one device it names, and a
\* frame, which goes to all devices of each server it comes to, never meets
\* itself again where there is OneWay.
AirsWhereAddressed == TypeOK /\ AirsInPlace /\ AirsOnce

\* The list of p's devices, as they are, is about to be sent, and no other
\* initiate_sync is under way whose list may be older and come later.
Current(p) ==
    \E t \in Syncer : /\ task[t] = [by |-> p, todo |-> {}, list |-> Listing(p)]
                     /\ \A u \in Syncer \ {t} : task[u] = NoTask

\* What a neighbour offers in the end is the last list published, with nothing
\* left of earlier ones, if no other initiate_sync was under way meanwhile,
\* unless a device or a session changes.  An empty list is never published.
OffersFollow ==
    \A c \in Channel, n \in 0 .. 3 * MaxChanges :
        [](Current(c[1]) /\ Listing(c[1]) # {} /\ Alive(c) /\ changes = n
             => <>[](changes > n \/ Offers(c[2], Label(c)) = Listing(c[1])))

\* The radios a packet for device d of q is meant for.
Meant(q, d) ==
    {x \in Place : /\ x[2] \in working[x[1]]
                   /\ \/ x[1] = q /\ d = Local(x[2])
                      \/ <<q, x[1]>> \in up /\ d = Stream(x[1])}

\* m is about to be sent through a virtual device that stands for radio x.
Due(m, x) ==
    /\ call[m].pc = "ready"
    /\ \E q \in Peer : /\ <<call[m].by, q>> \in up /\ call[m].source = Stream(q)
                       /\ x \in Meant(q, call[m].target)

\* A text for a virtual device, once both have been looked up, is transmitted by
\* the radio it stands for, unless a device or a session changes.
SentIsAired ==
    \A m \in Msg, x \in {y \in Place : y[2] \in Owns[y[1]]}, n \in 0 .. 3 * MaxChanges :
        (Due(m, x) /\ changes = n) ~> (changes > n \/ aired[m][x] > 0)
=============================================================================
