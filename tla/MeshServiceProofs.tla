-------------------------- MODULE MeshServiceProofs --------------------------
(***************************************************************************)
(* Theorems of three models of MeshService, for all values of their        *)
(* constants: VirtualDevices, where a packet may come out; Outbox, what    *)
(* the acknowledgements of sent messages show; and Reconnect, whether a    *)
(* device is connected.                                                    *)
(***************************************************************************)
EXTENDS VirtualDevices, Acknowledgements, Connections, SequenceTheorems, FiniteSetTheorems, TLAPS

Servers(p) == {q \in Peer : <<p, q>> \in Session}

\* What devices_ of p may ever have.
MayList(p) == {Local(d) : d \in Owns[p]} \cup {Stream(q) : q \in Servers(p)}

Sources == {Label(c) : c \in Channel}
VirtualIds == {<<"virtual", s, d>> : s \in Sources, d \in Device}
Ids == Device \cup VirtualIds \cup {Nothing}
Lists == SUBSET (Device \X Nat)
Entries == [source : Sources, original : Device, node : Nat]

Payloads == [type : {"devices"}, list : Lists]
            \cup [type : {"raw"}, target : Ids, msg : Msg]
            \cup [type : {"frame"}, msg : Msg]
Syncs == [by : Peer, todo : SUBSET Device, list : Lists]
Begun == [pc : {"asked", "ready", "sent", "refused"}, traced : BOOLEAN, by : Peer,
          device : Device \cup VirtualIds, source : Sources \cup {Nothing}, target : Ids]

Typed ==
    /\ up \subseteq Session
    /\ listed \in [Peer -> SUBSET Device]
    /\ working \in [Peer -> SUBSET Radio]
    /\ number \in [Peer -> [Device -> Nat]]
    /\ table \in [Peer -> SUBSET Entries]
    /\ net \in [Channel -> Seq(Payloads)]
    /\ task \in [Syncer -> Syncs \cup {NoTask}]
    /\ call \in [Msg -> Begun \cup {NoCall}]
    /\ aired \in [Msg -> [Place -> Nat]]
    /\ syncs \in 0 .. MaxSyncs /\ changes \in Nat

\* Attached devices are some there may be; what works is attached.
Attached ==
    /\ \A p \in Peer : listed[p] \subseteq MayList(p)
    /\ \A p \in Peer : working[p] \subseteq {r \in Owns[p] : Local(r) \in listed[p]}
    /\ \A s \in up : Stream(s[2]) \in listed[s[1]]

-----------------------------------------------------------------------------
(* Devices and sessions *)

LEMMA DeviceIds ==
    /\ \A d \in Radio : Local(d) \in Device
    /\ \A q \in Peer : Stream(q) \in Device
    /\ \A c, d : Local(c) = Local(d) => c = d
    /\ \A p, q : Stream(p) = Stream(q) => p = q
    /\ \A d, q : Local(d) # Stream(q)
  BY DEF Local, Stream, Device

LEMMA Ways ==
    /\ \A s \in Session : /\ s \in Channel /\ s[1] \in Peer /\ s[2] \in Peer /\ s = <<s[1], s[2]>>
                          /\ s[2] \in Servers(s[1])
    /\ \A p \in Peer : \A q \in Servers(p) : q \in Peer /\ <<p, q>> \in Session
    /\ \A c \in Channel : c[1] \in Peer /\ c[2] \in Peer /\ c = <<c[1], c[2]>> /\ c[2] \in Neighbours(c[1])
                          /\ c[1] \in Neighbours(c[2])
  BY VirtualAssumption DEF VirtualAssumption, Channel, Servers, Neighbours

LEMMA MayListIsDevices == \A p \in Peer : MayList(p) \subseteq Device
  BY VirtualAssumption DEF VirtualAssumption, MayList, Device, Servers

LEMMA AboveSelf == ASSUME NEW q \in Peer PROVE q \in Above(q)
  BY DEF Above

LEMMA AboveServer ==
    ASSUME NEW p \in Peer, NEW q \in Servers(p) PROVE Above(q) \subseteq Above(p)
<1> SUFFICES ASSUME NEW s \in Above(q), NEW S \in SUBSET Peer,
                    p \in S, \A x \in Session : x[1] \in S => x[2] \in S
             PROVE  s \in Peer /\ s \in S
  BY DEF Above
<1>1. <<p, q>> \in Session
  BY DEF Servers
<1>2. q \in S
  BY <1>1
<1> QED
  BY <1>2 DEF Above

\* The labels of two ways to read from are the same only if their clients
\* share an address; a stream's is its own.
LEMMA StreamLabels ==
    ASSUME NEW c \in Channel, NEW q, Label(c) = Stream(q)
    PROVE  c[1] = q /\ q \in Servers(c[2])
<1>1. <<c[2], c[1]>> \in Session /\ c[1] = q
  BY DEF Label, Stream
<1> QED
  BY <1>1, Ways

LEMMA NumbersAreNumbers ==
    ASSUME NEW p \in Peer, NEW d, Typed PROVE Numbers(p, d) \subseteq Nat
  BY VirtualAssumption DEF VirtualAssumption, Typed, Numbers

LEMMA NumberForIsNumber ==
    ASSUME NEW p \in Peer, NEW d \in Device, Typed PROVE NumberFor(p, d) \in Nat
<1>1. CASE d \in listed[p] \/ Cardinality(listed[p]) # 1
  BY <1>1 DEF NumberFor, Typed
<1>2. CASE d \notin listed[p] /\ Cardinality(listed[p]) = 1
  <2>1. listed[p] # {}
    BY <1>2, FS_EmptySet
  <2>2. (CHOOSE e \in listed[p] : TRUE) \in Device
    BY <2>1 DEF Typed
  <2> QED
    BY <1>2, <2>2 DEF NumberFor, Typed
<1> QED
  BY <1>1, <1>2

-----------------------------------------------------------------------------
(* Types *)

LEMMA PayloadRecords ==
    /\ \A l \in Lists : [type |-> "devices", list |-> l] \in Payloads
    /\ \A t \in Ids, m \in Msg : [type |-> "raw", target |-> t, msg |-> m] \in Payloads
    /\ \A m \in Msg : [type |-> "frame", msg |-> m] \in Payloads
  BY DEF Payloads

\* What is read was sent.
LEMMA ReadPayload ==
    ASSUME Typed, NEW c \in Channel, net[c] # <<>>
    PROVE  /\ Head(net[c]) \in Payloads
           /\ Head(net[c]) = net[c][1] /\ 1 \in DOMAIN net[c]
           /\ Head(net[c]).type \in {"devices", "raw", "frame"}
           /\ Head(net[c]).type = "devices" => Head(net[c]).list \in Lists
           /\ Head(net[c]).type # "devices" => Head(net[c]).msg \in Msg
           /\ Head(net[c]).type = "raw" => Head(net[c]).target \in Ids
<1>1. net[c] \in Seq(Payloads)
  BY DEF Typed
<1>2. Len(net[c]) \in Nat \ {0}
  BY <1>1
<1>3. Head(net[c]) = net[c][1] /\ 1 \in DOMAIN net[c] /\ net[c][1] \in Payloads
  BY <1>1, <1>2
<1>4. net[c][1].type = "devices" => net[c][1].list \in Lists
  BY <1>3 DEF Payloads
<1>5. net[c][1].type # "devices" => net[c][1].msg \in Msg
  BY <1>3 DEF Payloads
<1>6. net[c][1].type = "raw" => net[c][1].target \in Ids
  BY <1>3 DEF Payloads
<1>7. net[c][1].type \in {"devices", "raw", "frame"}
  BY <1>3 DEF Payloads
<1> QED
  BY <1>3, <1>4, <1>5, <1>6, <1>7

LEMMA ReadTypes ==
    ASSUME Typed, NEW c \in Channel, net[c] # <<>> PROVE Read(c) \in [Channel -> Seq(Payloads)]
<1>1. net[c] \in Seq(Payloads) /\ net \in [Channel -> Seq(Payloads)]
  BY DEF Typed
<1>2. Tail(net[c]) \in Seq(Payloads)
  BY <1>1, HeadTailProperties
<1> QED
  BY <1>1, <1>2 DEF Read

LEMMA BroadcastTypes ==
    ASSUME NEW n \in [Channel -> Seq(Payloads)], NEW p, NEW pl \in Payloads
    PROVE  Broadcast(n, p, pl) \in [Channel -> Seq(Payloads)]
<1>1. ASSUME NEW c \in Channel PROVE Append(n[c], pl) \in Seq(Payloads) /\ n[c] \in Seq(Payloads)
  BY AppendProperties
<1> QED
  BY <1>1 DEF Broadcast

LEMMA WriteTypes ==
    ASSUME Typed, NEW n \in [Channel -> Seq(Payloads)], NEW p, NEW S, NEW m \in Msg, Write(n, p, S, m)
    PROVE  net' \in [Channel -> Seq(Payloads)] /\ aired' \in [Msg -> [Place -> Nat]]
<1> DEFINE pl == [type |-> "frame", msg |-> m]
<1>1. pl \in Payloads
  BY PayloadRecords
<1> HIDE DEF pl
<1>2. ASSUME NEW c \in Channel PROVE Append(n[c], pl) \in Seq(Payloads) /\ n[c] \in Seq(Payloads)
  BY <1>1, AppendProperties
<1>3. net' = [c \in Channel |-> IF c[1] = p /\ c \in up /\ Stream(c[2]) \in S
                                 THEN Append(n[c], pl) ELSE n[c]]
  BY DEF Write, pl
<1>4. net' \in [Channel -> Seq(Payloads)]
  BY <1>2, <1>3
<1>5. aired \in [Msg -> [Place -> Nat]]
  BY DEF Typed
<1>6. aired' \in [Msg -> [Place -> Nat]]
  BY <1>5 DEF Write
<1> QED
  BY <1>4, <1>6

LEMMA WithoutTypes ==
    ASSUME Typed, NEW S PROVE Without(S) \in [Channel -> Seq(Payloads)]
<1>1. <<>> \in Seq(Payloads)
  BY EmptySeq
<1> QED
  BY <1>1 DEF Typed, Without

LEMMA CallTypes ==
    ASSUME Typed, NEW m \in Msg, NEW c \in Begun, Goes(m, c) PROVE call' \in [Msg -> Begun \cup {NoCall}]
  BY DEF Typed, Goes

LEMMA BegunRecords ==
    ASSUME NEW c \in Begun
    PROVE  /\ \A pc \in {"asked", "ready", "sent", "refused"}, t \in Ids :
                 [c EXCEPT !.pc = pc, !.target = t] \in Begun
           /\ \A pc \in {"asked", "ready", "sent", "refused"} : [c EXCEPT !.pc = pc] \in Begun
  BY DEF Begun

LEMMA CallsBegun ==
    ASSUME Typed, NEW m \in Msg, call[m].pc # "idle" PROVE call[m] \in Begun /\ call[m].by \in Peer
<1>1. call[m] \in Begun \cup {NoCall}
  BY DEF Typed
<1>2. call[m] \in Begun
  BY <1>1 DEF NoCall
<1> QED
  BY <1>2 DEF Begun

LEMMA SyncsBegun ==
    ASSUME Typed, NEW t \in Syncer, task[t] # NoTask PROVE task[t] \in Syncs /\ task[t].by \in Peer
  BY DEF Typed, Syncs

LEMMA EntryTypes ==
    ASSUME NEW c \in Channel, NEW l \in Lists
    PROVE  EntriesOf(Label(c), l) \subseteq Entries
<1>1. ASSUME NEW e \in l PROVE e[1] \in Device /\ e[2] \in Nat
  BY DEF Lists
<1> QED
  BY <1>1 DEF EntriesOf, Entries, Sources

LEMMA IdTypes ==
    ASSUME Typed, NEW p \in Peer, NEW e \in table[p]
    PROVE  Id(e) \in Ids /\ Id(e) \in VirtualIds /\ e.source \in Sources /\ e.original \in Device
           /\ Id(e) = <<"virtual", e.source, e.original>>
<1>1. e \in Entries
  BY DEF Typed
<1>2. e.source \in Sources /\ e.original \in Device
  BY <1>1 DEF Entries
<1> QED
  BY <1>2 DEF Id, Ids, VirtualIds

LEMMA InitTyped == Init => Typed
<1> SUFFICES ASSUME Init PROVE Typed
  OBVIOUS
<1> USE VirtualAssumption DEF VirtualAssumption
<1>1. listed \in [Peer -> SUBSET Device]
  BY DEF Init, Device
<1>2. up \subseteq Session /\ working \in [Peer -> SUBSET Radio]
  BY DEF Init
<1>3. \A p \in Peer, d \in Device : Numbers(p, d) \subseteq Nat
  BY <1>2 DEF Numbers
<1>4. number \in [Peer -> [Device -> Nat]]
  <2>1. ASSUME NEW p \in Peer, NEW d \in Device
        PROVE  (IF d \in listed[p] /\ Numbers(p, d) # {}
                THEN CHOOSE n \in Numbers(p, d) : TRUE ELSE 0) \in Nat
    BY <1>3
  <2> QED
    BY <2>1 DEF Init
<1>5. table \in [Peer -> SUBSET Entries] /\ aired \in [Msg -> [Place -> Nat]]
  BY DEF Init
<1>6. net \in [Channel -> Seq(Payloads)]
  BY EmptySeq DEF Init
<1>7. task \in [Syncer -> Syncs \cup {NoTask}] /\ call \in [Msg -> Begun \cup {NoCall}]
  BY DEF Init
<1>8. syncs \in 0 .. MaxSyncs /\ changes \in Nat
  BY DEF Init
<1> QED
  BY <1>1, <1>2, <1>4, <1>5, <1>6, <1>7, <1>8 DEF Typed

\* Every step keeps the types: one step of the proof per action.
LEMMA StepTyped == Typed /\ [Next]_vars => Typed'
<1> SUFFICES ASSUME Typed, [Next]_vars PROVE Typed'
  OBVIOUS
<1> USE VirtualAssumption DEF VirtualAssumption
<1>0. \A c \in Channel : c[1] \in Peer /\ c[2] \in Peer
  BY Ways
<1>1. ASSUME NEW p \in Peer, NEW t \in Syncer, Snapshot(p, t) PROVE Typed'
  <2>1. [by |-> p, todo |-> listed[p], list |-> {}] \in Syncs
    BY DEF Typed, Syncs, Lists
  <2>2. task' \in [Syncer -> Syncs \cup {NoTask}]
    BY <1>1, <2>1 DEF Typed, Snapshot
  <2>3. syncs' \in 0 .. MaxSyncs
    BY <1>1 DEF Typed, Snapshot
  <2> QED
    BY <1>1, <2>2, <2>3 DEF Typed, Snapshot
<1>2. ASSUME NEW t \in Syncer, NEW d \in Device, LookUp(t, d) PROVE Typed'
  <2>1. task[t] # NoTask /\ d \in task[t].todo
    BY <1>2 DEF NoTask, LookUp
  <2>2. task[t] \in Syncs /\ task[t].by \in Peer
    BY <2>1, SyncsBegun
  <2>3. NumberFor(task[t].by, d) \in Nat
    BY <2>2, NumberForIsNumber
  <2> DEFINE n == NumberFor(task[t].by, d)
             new == [task[t] EXCEPT !.todo = @ \ {d},
                                    !.list = IF n = 0 THEN @ ELSE @ \cup {<<d, n>>}]
  <2>4. new \in Syncs
    <3> HIDE DEF n
    <3>1. (IF n = 0 THEN task[t].list ELSE task[t].list \cup {<<d, n>>}) \in Lists
      BY <2>2, <2>3 DEF Syncs, Lists, n
    <3>2. task[t].todo \ {d} \in SUBSET Device
      BY <2>2 DEF Syncs
    <3> QED
      BY <2>2, <3>1, <3>2 DEF Syncs
  <2>5. task' = [task EXCEPT ![t] = new]
    BY <1>2 DEF LookUp
  <2>6. task' \in [Syncer -> Syncs \cup {NoTask}]
    <3> HIDE DEF new
    <3> QED
      BY <2>4, <2>5 DEF Typed
  <2> QED
    BY <1>2, <2>6 DEF Typed, LookUp
<1>3. ASSUME NEW t \in Syncer, Publish(t) PROVE Typed'
  <2>1. task[t].list \in Lists
    BY <1>3, SyncsBegun DEF Publish, Syncs
  <2>2. net' \in [Channel -> Seq(Payloads)]
    BY <1>3, <2>1, PayloadRecords, BroadcastTypes DEF Typed, Publish
  <2>3. task' \in [Syncer -> Syncs \cup {NoTask}]
    BY <1>3 DEF Typed, Publish
  <2> QED
    BY <1>3, <2>2, <2>3 DEF Typed, Publish
<1>4. ASSUME NEW c \in Channel, HandleDevices(c) PROVE Typed'
  <2>1. net[c] # <<>> /\ Head(net[c]).list \in Lists
    BY <1>4, ReadPayload DEF HandleDevices, Arrived
  <2>2. net' \in [Channel -> Seq(Payloads)]
    BY <1>4, <2>1, ReadTypes DEF HandleDevices
  <2>3. EntriesOf(Label(c), Head(net[c]).list) \subseteq Entries
    BY <2>1, EntryTypes
  <2>4. table' \in [Peer -> SUBSET Entries]
    BY <1>4, <2>3 DEF HandleDevices, Typed, Updated
  <2> QED
    BY <1>4, <2>2, <2>4 DEF Typed, HandleDevices
<1>5. ASSUME NEW c \in Channel, HandleRaw(c) PROVE Typed'
  <2>1. net[c] # <<>> /\ Head(net[c]).msg \in Msg
    BY <1>5, ReadPayload DEF HandleRaw, Arrived
  <2>2. net' \in [Channel -> Seq(Payloads)] /\ aired' \in [Msg -> [Place -> Nat]]
    BY <1>5, <2>1, ReadTypes, WriteTypes DEF HandleRaw
  <2> QED
    BY <1>5, <2>2 DEF Typed, HandleRaw
<1>6. ASSUME NEW c \in Channel, HandleFrame(c) PROVE Typed'
  <2>1. net[c] # <<>> /\ Head(net[c]).msg \in Msg
    BY <1>6, ReadPayload DEF HandleFrame, Arrived
  <2>2. net' \in [Channel -> Seq(Payloads)] /\ aired' \in [Msg -> [Place -> Nat]]
    BY <1>6, <2>1, ReadTypes, WriteTypes DEF HandleFrame
  <2> QED
    BY <1>6, <2>2 DEF Typed, HandleFrame
<1>7. ASSUME NEW p \in Peer, NEW m \in Msg, NEW d \in Device, SendLocally(p, m, d) PROVE Typed'
  <2>1. net' \in [Channel -> Seq(Payloads)] /\ aired' \in [Msg -> [Place -> Nat]]
    BY <1>7, WriteTypes DEF SendLocally, Typed
  <2>2. /\ [NoCall EXCEPT !.pc = "sent", !.by = p, !.device = d] \in Begun
        /\ [NoCall EXCEPT !.pc = "refused", !.by = p, !.device = d] \in Begun
    BY DEF NoCall, Begun, Ids
  <2>3. call' \in [Msg -> Begun \cup {NoCall}]
    BY <1>7, <2>2, CallTypes DEF SendLocally
  <2> QED
    BY <1>7, <2>1, <2>3 DEF Typed, SendLocally
<1>8. ASSUME NEW p \in Peer, NEW m \in Msg, NEW e \in table[p], AskStream(p, m, e) PROVE Typed'
  <2>1. [pc |-> "asked", traced |-> FALSE, by |-> p, device |-> Id(e),
         source |-> e.source, target |-> Nothing] \in Begun
    BY IdTypes DEF Begun, Ids
  <2>2. call' \in [Msg -> Begun \cup {NoCall}]
    BY <1>8, <2>1, CallTypes DEF AskStream
  <2> QED
    BY <1>8, <2>2 DEF Typed, AskStream
<1>9. ASSUME NEW m \in Msg, AskOriginal(m) PROVE Typed'
  <2>1. PICK t : t \in Ids /\ Goes(m, [call[m] EXCEPT !.pc = "ready", !.target = t])
    <3>1. CASE \E e \in table[call[m].by] : Id(e) = call[m].device
      <4>1. PICK e \in table[call[m].by] : Id(e) = call[m].device
        BY <3>1
      <4>2. call[m].by \in Peer
        BY <1>9, CallsBegun DEF AskOriginal
      <4>3. call[m].device[3] \in Ids
        BY <4>1, <4>2, IdTypes DEF Ids
      <4> QED
        BY <1>9, <3>1, <4>3 DEF AskOriginal
    <3>2. CASE ~ \E e \in table[call[m].by] : Id(e) = call[m].device
      BY <1>9, <3>2 DEF AskOriginal, Ids
    <3> QED
      BY <3>1, <3>2
  <2>2. [call[m] EXCEPT !.pc = "ready", !.target = t] \in Begun
    BY <1>9, <2>1, CallsBegun, BegunRecords DEF AskOriginal
  <2>3. call' \in [Msg -> Begun \cup {NoCall}]
    BY <2>1, <2>2, CallTypes
  <2> QED
    BY <1>9, <2>3 DEF Typed, AskOriginal
<1>10. ASSUME NEW p, NEW m \in Msg, NEW c \in Begun, Route(p, m, c)
       PROVE  net' \in [Channel -> Seq(Payloads)] /\ call' \in [Msg -> Begun \cup {NoCall}]
  <2>1. c.target \in Ids /\ [c EXCEPT !.pc = "sent"] \in Begun /\ [c EXCEPT !.pc = "refused"] \in Begun
    BY DEF Begun
  <2>2. [type |-> "raw", target |-> c.target, msg |-> m] \in Payloads
    BY <2>1, PayloadRecords
  <2> DEFINE pl == [type |-> "raw", target |-> c.target, msg |-> m]
  <2>4. net' \in {Broadcast(net, p, pl), net}
    BY <1>10 DEF Route
  <2>5. net' \in [Channel -> Seq(Payloads)]
    <3>1. pl \in Payloads /\ net \in [Channel -> Seq(Payloads)]
      BY <2>2 DEF Typed
    <3> HIDE DEF pl
    <3>2. Broadcast(net, p, pl) \in [Channel -> Seq(Payloads)]
      BY <3>1, BroadcastTypes
    <3> QED
      BY <2>4, <3>1, <3>2
  <2>3. call' \in [Msg -> Begun \cup {NoCall}]
    BY <1>10, <2>1, CallTypes DEF Route
  <2> QED
    BY <2>3, <2>5
<1>11. ASSUME NEW m \in Msg, SendText(m) PROVE Typed'
  BY <1>10, <1>11, CallsBegun DEF Typed, SendText
<1>12. ASSUME NEW p \in Peer, NEW m \in Msg, NEW e \in table[p], SendTraceroute(p, m, e) PROVE Typed'
  <2>1. [pc |-> "ready", traced |-> TRUE, by |-> p, device |-> Id(e),
         source |-> e.source, target |-> Id(e)] \in Begun
    BY IdTypes DEF Begun
  <2>2. net' \in [Channel -> Seq(Payloads)] /\ call' \in [Msg -> Begun \cup {NoCall}]
    BY <1>10, <1>12, <2>1 DEF SendTraceroute
  <2> QED
    BY <1>12, <2>2 DEF Typed, SendTraceroute
<1>13. ASSUME NEW p \in Peer, NEW d \in Device, LearnNumber(p, d) PROVE Typed'
  <2>1. PICK n \in Numbers(p, d) : number' = [number EXCEPT ![p][d] = n]
    BY <1>13 DEF LearnNumber
  <2>2. n \in Nat
    BY NumbersAreNumbers
  <2>3. number' \in [Peer -> [Device -> Nat]]
    BY <2>1, <2>2 DEF Typed
  <2> QED
    BY <1>13, <2>3 DEF Typed, LearnNumber, Change
<1>14. ASSUME NEW p \in Peer, NEW d \in Device, Lose(p, d) PROVE Typed'
  BY <1>14, WithoutTypes DEF Typed, Lose, Fault, Change
<1>15. ASSUME NEW p \in Peer, NEW d \in Device, Reconnect(p, d) PROVE Typed'
  BY <1>15 DEF Typed, Reconnect, Change, SessionsOf
<1>16. ASSUME NEW p \in Peer, NEW d \in Device, Detach(p, d) PROVE Typed'
  BY <1>16, WithoutTypes DEF Typed, Detach, Fault, Change
<1>17. ASSUME NEW p \in Peer, NEW d \in Device, Attach(p, d) PROVE Typed'
  BY <1>17 DEF Typed, Attach, Change, SessionsOf
<1>18. CASE UNCHANGED vars
  BY <1>18 DEF vars, Typed
<1> QED
  BY <1>1, <1>2, <1>3, <1>4, <1>5, <1>6, <1>7, <1>8, <1>9, <1>11, <1>12, <1>13, <1>14, <1>15,
     <1>16, <1>17, <1>18 DEF Next, Sync, Handle, Sending

-----------------------------------------------------------------------------
(* Attached devices *)

LEMMA InitAttached == Init => Attached
<1> SUFFICES ASSUME Init PROVE Attached
  OBVIOUS
<1>1. ASSUME NEW p \in Peer
      PROVE  listed[p] = {Local(d) : d \in Owns[p]} \cup {Stream(s[2]) : s \in {s \in Session : s[1] = p}}
  BY DEF Init
<1>2. \A p \in Peer : listed[p] \subseteq MayList(p)
  BY <1>1, Ways DEF MayList
<1>3. \A p \in Peer : working[p] \subseteq {r \in Owns[p] : Local(r) \in listed[p]}
  BY <1>1 DEF Init
<1>4. \A s \in up : Stream(s[2]) \in listed[s[1]]
  BY <1>1, Ways DEF Init
<1> QED
  BY <1>2, <1>3, <1>4 DEF Attached

\* Only these four actions attach or detach anything.
LEMMA Unattached ==
    ASSUME [Next]_vars,
           \A p \in Peer, d \in Device : ~ Lose(p, d) /\ ~ Reconnect(p, d) /\ ~ Detach(p, d) /\ ~ Attach(p, d)
    PROVE  UNCHANGED <<up, listed, working>>
<1>1. ASSUME NEW t \in Syncer, Sync(t) PROVE UNCHANGED <<up, listed, working>>
  BY <1>1 DEF Sync, LookUp, Publish
<1>2. ASSUME NEW c \in Channel, Handle(c) PROVE UNCHANGED <<up, listed, working>>
  BY <1>2 DEF Handle, HandleDevices, HandleRaw, HandleFrame
<1>3. ASSUME NEW m \in Msg, Sending(m) PROVE UNCHANGED <<up, listed, working>>
  BY <1>3 DEF Sending, AskOriginal, SendText
<1>4. ASSUME NEW p \in Peer, NEW m \in Msg, NEW e \in table[p],
             AskStream(p, m, e) \/ SendTraceroute(p, m, e)
      PROVE  UNCHANGED <<up, listed, working>>
  BY <1>4 DEF AskStream, SendTraceroute
<1>5. ASSUME NEW p \in Peer, NEW m \in Msg, NEW d \in Device, SendLocally(p, m, d)
      PROVE  UNCHANGED <<up, listed, working>>
  BY <1>5 DEF SendLocally
<1>6. ASSUME NEW p \in Peer, NEW t \in Syncer, Snapshot(p, t)
      PROVE  UNCHANGED <<up, listed, working>>
  BY <1>6 DEF Snapshot
<1>7. ASSUME NEW p \in Peer, NEW d \in Device, LearnNumber(p, d)
      PROVE  UNCHANGED <<up, listed, working>>
  BY <1>7 DEF LearnNumber
<1>8. CASE UNCHANGED vars
  BY <1>8 DEF vars
<1> QED
  BY <1>1, <1>2, <1>3, <1>4, <1>5, <1>6, <1>7, <1>8 DEF Next

LEMMA SessionsOfStream ==
    ASSUME NEW p \in Peer, NEW s \in Session
    PROVE  s \in SessionsOf(p, Stream(s[2])) <=> s[1] = p
  BY DEF SessionsOf

LEMMA StepAttached == Typed /\ Attached /\ [Next]_vars => Attached'
<1> SUFFICES ASSUME Typed, Attached, [Next]_vars PROVE Attached'
  OBVIOUS
<1>1. ASSUME NEW p \in Peer, NEW d \in Device, Lose(p, d) PROVE Attached'
  <2>1. listed' = listed /\ up' \subseteq up /\ \A q \in Peer : working'[q] \subseteq working[q]
    BY <1>1 DEF Lose, Typed
  <2>2. \A s \in up' : Stream(s[2]) \in listed[s[1]]
    BY <2>1 DEF Attached
  <2> QED
    BY <2>1, <2>2 DEF Attached
<1>2. ASSUME NEW p \in Peer, NEW d \in Device, Reconnect(p, d) PROVE Attached'
  <2>1. listed' = listed /\ d \in listed[p]
    BY <1>2 DEF Reconnect
  <2>2. ASSUME NEW q \in Peer PROVE working'[q] \subseteq {r \in Owns[q] : Local(r) \in listed[q]}
    <3>1. working'[q] \subseteq working[q] \cup {r \in Owns[p] : q = p /\ Local(r) = d}
      BY <1>2 DEF Reconnect, Typed
    <3> QED
      BY <2>1, <3>1 DEF Attached
  <2>3. ASSUME NEW s \in up' PROVE Stream(s[2]) \in listed[s[1]]
    <3>1. s \in up \/ (s[1] = p /\ d = Stream(s[2]))
      BY <1>2 DEF Reconnect, SessionsOf
    <3> QED
      BY <2>1, <3>1 DEF Attached
  <2> QED
    BY <2>1, <2>2, <2>3 DEF Attached
<1>3. ASSUME NEW p \in Peer, NEW d \in Device, Detach(p, d) PROVE Attached'
  <2>1. ASSUME NEW q \in Peer
        PROVE  listed'[q] = IF q = p THEN listed[p] \ {d} ELSE listed[q]
    BY <1>3 DEF Detach, Typed
  <2>2. ASSUME NEW q \in Peer
        PROVE  working'[q] = IF q = p THEN {r \in working[p] : Local(r) # d} ELSE working[q]
    BY <1>3 DEF Detach, Typed
  <2>3. ASSUME NEW s \in up' PROVE Stream(s[2]) \in listed'[s[1]]
    <3>1. s \in up /\ s \in Session /\ ~ (s[1] = p /\ d = Stream(s[2]))
      BY <1>3 DEF Detach, SessionsOf, Typed
    <3>2. s[1] \in Peer /\ Stream(s[2]) \in listed[s[1]]
      BY <3>1, Ways DEF Attached
    <3> QED
      BY <2>1, <3>1, <3>2
  <2>4. \A q \in Peer : listed'[q] \subseteq MayList(q)
    BY <2>1 DEF Attached
  <2>5. ASSUME NEW q \in Peer PROVE working'[q] \subseteq {r \in Owns[q] : Local(r) \in listed'[q]}
    BY <2>1, <2>2 DEF Attached
  <2> QED
    BY <2>3, <2>4, <2>5 DEF Attached
<1>4. ASSUME NEW p \in Peer, NEW d \in Device, Attach(p, d) PROVE Attached'
  <2>1. ASSUME NEW q \in Peer
        PROVE  listed'[q] = IF q = p THEN listed[p] \cup {d} ELSE listed[q]
    BY <1>4 DEF Attach, Typed
  <2>2. ASSUME NEW q \in Peer
        PROVE  working'[q] = IF q = p THEN working[p] \cup {r \in Owns[p] : Local(r) = d} ELSE working[q]
    BY <1>4 DEF Attach, Typed
  <2>3. d \in MayList(p)
    <3>1. CASE SessionsOf(p, d) # {}
      BY <3>1, Ways DEF SessionsOf, MayList
    <3>2. CASE \E r \in Owns[p] : Local(r) = d
      BY <3>2 DEF MayList
    <3> QED
      BY <1>4, <3>1, <3>2 DEF Attach
  <2>4. \A q \in Peer : listed'[q] \subseteq MayList(q)
    BY <2>1, <2>3 DEF Attached
  <2>5. ASSUME NEW q \in Peer PROVE working'[q] \subseteq {r \in Owns[q] : Local(r) \in listed'[q]}
    BY <2>1, <2>2 DEF Attached
  <2>6. ASSUME NEW s \in up' PROVE Stream(s[2]) \in listed'[s[1]]
    <3>1. s \in Session /\ (s \in up \/ (s[1] = p /\ d = Stream(s[2])))
      BY <1>4 DEF Attach, SessionsOf, Typed
    <3>2. s[1] \in Peer
      BY <3>1, Ways
    <3> QED
      BY <2>1, <3>1, <3>2 DEF Attached
  <2> QED
    BY <2>4, <2>5, <2>6 DEF Attached
<1>5. CASE UNCHANGED <<up, listed, working>>
  BY <1>5 DEF Attached
<1> QED
  BY <1>1, <1>2, <1>3, <1>4, <1>5, Unattached

-----------------------------------------------------------------------------
(* What is in the queues after a step *)

LEMMA ReadElements ==
    ASSUME Typed, NEW c \in Channel, net[c] # <<>>,
           NEW e \in Channel, NEW i \in DOMAIN Read(c)[e]
    PROVE  \/ e = c /\ i \in Nat \ {0} /\ i + 1 \in DOMAIN net[c] /\ Read(c)[e][i] = net[c][i + 1]
           \/ e # c /\ i \in DOMAIN net[e] /\ Read(c)[e][i] = net[e][i]
<1>1. net \in [Channel -> Seq(Payloads)] /\ net[c] \in Seq(Payloads)
  BY DEF Typed
<1>2. CASE e = c
  <2>1. Read(c)[e] = Tail(net[c])
    BY <1>1, <1>2 DEF Read
  <2>2. /\ Tail(net[c]) \in Seq(Payloads) /\ Len(Tail(net[c])) = Len(net[c]) - 1
        /\ Len(net[c]) \in Nat
        /\ \A j \in 1 .. Len(Tail(net[c])) : Tail(net[c])[j] = net[c][j + 1]
    BY <1>1, HeadTailProperties
  <2>3. i \in 1 .. Len(Tail(net[c]))
    BY <2>1, <2>2
  <2>4. i \in Nat \ {0} /\ i + 1 \in 1 .. Len(net[c])
    BY <2>2, <2>3
  <2> QED
    BY <1>1, <1>2, <2>1, <2>2, <2>3, <2>4
<1>3. CASE e # c
  BY <1>1, <1>3 DEF Read
<1> QED
  BY <1>2, <1>3

LEMMA AppendedElements ==
    ASSUME NEW s \in Seq(Payloads), NEW pl, NEW i \in DOMAIN Append(s, pl)
    PROVE  \/ i \in DOMAIN s /\ Append(s, pl)[i] = s[i]
           \/ i = Len(s) + 1 /\ i \notin DOMAIN s /\ Append(s, pl)[i] = pl
  OBVIOUS

LEMMA BroadcastElements ==
    ASSUME NEW n \in [Channel -> Seq(Payloads)], NEW p, NEW pl, NEW e \in Channel,
           NEW i \in DOMAIN Broadcast(n, p, pl)[e]
    PROVE  \/ i \in DOMAIN n[e] /\ Broadcast(n, p, pl)[e][i] = n[e][i]
           \/ /\ i = Len(n[e]) + 1 /\ i \notin DOMAIN n[e] /\ Broadcast(n, p, pl)[e][i] = pl
              /\ e[1] = p
<1>1. Broadcast(n, p, pl)[e] = IF e[1] = p /\ Alive(e) THEN Append(n[e], pl) ELSE n[e]
  BY DEF Broadcast
<1>2. CASE e[1] = p /\ Alive(e)
  BY <1>1, <1>2, AppendedElements
<1>3. CASE ~ (e[1] = p /\ Alive(e))
  BY <1>1, <1>3
<1> QED
  BY <1>2, <1>3

Frame(m) == [type |-> "frame", msg |-> m]

LEMMA WriteElements ==
    ASSUME NEW n \in [Channel -> Seq(Payloads)], NEW p, NEW S, NEW m, Write(n, p, S, m),
           NEW e \in Channel, NEW i \in DOMAIN net'[e]
    PROVE  \/ i \in DOMAIN n[e] /\ net'[e][i] = n[e][i]
           \/ /\ i = Len(n[e]) + 1 /\ i \notin DOMAIN n[e] /\ net'[e][i] = Frame(m)
              /\ e \in up /\ e[1] = p /\ Stream(e[2]) \in S
<1>1. net'[e] = IF e[1] = p /\ e \in up /\ Stream(e[2]) \in S THEN Append(n[e], Frame(m)) ELSE n[e]
  BY DEF Write, Frame
<1>2. CASE e[1] = p /\ e \in up /\ Stream(e[2]) \in S
  BY <1>1, <1>2, AppendedElements
<1>3. CASE ~ (e[1] = p /\ e \in up /\ Stream(e[2]) \in S)
  BY <1>1, <1>3
<1> QED
  BY <1>2, <1>3

LEMMA WithoutElements ==
    ASSUME NEW S, NEW e \in Channel, NEW i \in DOMAIN Without(S)[e]
    PROVE  i \in DOMAIN net[e] /\ Without(S)[e][i] = net[e][i]
  BY DEF Without

-----------------------------------------------------------------------------
(* Names of devices come from where the devices are *)

SyncKnows(s) == s.todo \subseteq MayList(s.by) /\ \A e \in s.list : e[1] \in MayList(s.by)
SyncsKnow == \A t \in Syncer : task[t] # NoTask => SyncKnows(task[t])

ListKnows(c, l) == \A e \in l : e[1] \in MayList(c[1])
ListsKnow ==
    \A c \in Channel : \A i \in DOMAIN net[c] :
        net[c][i].type = "devices" => ListKnows(c, net[c][i].list)

EntryKnows(p, e) ==
    \E c \in Channel : c[2] = p /\ e.source = Label(c) /\ e.original \in MayList(c[1])
EntriesKnow == \A p \in Peer : \A e \in table[p] : EntryKnows(p, e)

\* A call through a device of its own instance, and one through a virtual device.
LocalCall(c) == c.pc \in {"sent", "refused"} /\ c.device \in MayList(c.by) /\ ~ c.traced
VirtualCall(c) ==
    \E w \in Channel : \E d \in MayList(w[1]) :
        /\ w[2] = c.by /\ c.source = Label(w) /\ c.device = <<"virtual", c.source, d>>
        /\ c.traced => c.pc \in {"sent", "refused"} /\ c.target = c.device
        /\ ~ c.traced /\ c.pc # "asked" => c.target \in {d, Nothing}
CallsKnow == \A m \in Msg : call[m].pc # "idle" => LocalCall(call[m]) \/ VirtualCall(call[m])

Known == SyncsKnow /\ ListsKnow /\ EntriesKnow /\ CallsKnow

LEMMA InitKnown == Init => Known
  BY DEF Init, Known, SyncsKnow, ListsKnow, EntriesKnow, CallsKnow, NoCall

LEMMA StepSyncsKnow == Typed /\ Attached /\ SyncsKnow /\ [Next]_vars => SyncsKnow'
<1> SUFFICES ASSUME Typed, Attached, SyncsKnow, [Next]_vars PROVE SyncsKnow'
  OBVIOUS
<1>1. ASSUME NEW p \in Peer, NEW t \in Syncer, Snapshot(p, t) PROVE SyncsKnow'
  <2>1. SyncKnows([by |-> p, todo |-> listed[p], list |-> {}])
    BY DEF SyncKnows, Attached
  <2> QED
    BY <1>1, <2>1 DEF Snapshot, SyncsKnow, Typed, SyncKnows
<1>2. ASSUME NEW t \in Syncer, NEW d \in Device, LookUp(t, d) PROVE SyncsKnow'
  <2>1. task[t] # NoTask /\ d \in task[t].todo
    BY <1>2 DEF NoTask, LookUp
  <2>2. SyncKnows(task[t]) /\ task[t] \in Syncs
    BY <2>1, SyncsBegun DEF SyncsKnow
  <2> DEFINE n == NumberFor(task[t].by, d)
             new == [task[t] EXCEPT !.todo = @ \ {d},
                                    !.list = IF n = 0 THEN @ ELSE @ \cup {<<d, n>>}]
  <2>3. SyncKnows(new)
    <3> HIDE DEF n
    <3>1. d \in MayList(task[t].by)
      BY <2>1, <2>2 DEF SyncKnows
    <3>2. new.todo \subseteq task[t].todo /\ new.list \subseteq task[t].list \cup {<<d, n>>}
          /\ new.by = task[t].by
      BY <2>2 DEF Syncs
    <3> HIDE DEF new
    <3> QED
      BY <2>2, <3>1, <3>2 DEF SyncKnows
  <2>4. task' = [task EXCEPT ![t] = new]
    BY <1>2 DEF LookUp
  <2> HIDE DEF new
  <2> QED
    BY <2>3, <2>4 DEF SyncsKnow, Typed, SyncKnows
<1>3. ASSUME NEW t \in Syncer, Publish(t) PROVE SyncsKnow'
  <2>1. \A u \in Syncer : task'[u] = task[u] \/ task'[u] = NoTask
    BY <1>3 DEF Publish, Typed
  <2> QED
    BY <2>1 DEF SyncsKnow, SyncKnows
<1>4. CASE UNCHANGED task
  BY <1>4 DEF SyncsKnow, SyncKnows
<1>5. ASSUME NEW c \in Channel, Handle(c) PROVE UNCHANGED task
  BY <1>5 DEF Handle, HandleDevices, HandleRaw, HandleFrame
<1>6. ASSUME NEW m \in Msg, Sending(m) PROVE UNCHANGED task
  BY <1>6 DEF Sending, AskOriginal, SendText
<1>7. ASSUME NEW p \in Peer, NEW m \in Msg, NEW e \in table[p],
             AskStream(p, m, e) \/ SendTraceroute(p, m, e)
      PROVE  UNCHANGED task
  BY <1>7 DEF AskStream, SendTraceroute
<1>8. ASSUME NEW p \in Peer, NEW m \in Msg, NEW d \in Device, SendLocally(p, m, d)
      PROVE  UNCHANGED task
  BY <1>8 DEF SendLocally
<1>9. ASSUME NEW p \in Peer, NEW d \in Device,
             LearnNumber(p, d) \/ Lose(p, d) \/ Reconnect(p, d) \/ Detach(p, d) \/ Attach(p, d)
      PROVE  UNCHANGED task
  BY <1>9 DEF LearnNumber, Lose, Reconnect, Detach, Attach
<1>10. CASE UNCHANGED vars
  BY <1>4, <1>10 DEF vars
<1> QED
  BY <1>1, <1>2, <1>3, <1>4, <1>5, <1>6, <1>7, <1>8, <1>9, <1>10 DEF Next, Sync

LEMMA StepEntriesKnow == Typed /\ ListsKnow /\ EntriesKnow /\ [Next]_vars => EntriesKnow'
<1> SUFFICES ASSUME Typed, ListsKnow, EntriesKnow, [Next]_vars PROVE EntriesKnow'
  OBVIOUS
<1>1. ASSUME NEW c \in Channel, HandleDevices(c) PROVE EntriesKnow'
  <2>1. net[c] # <<>> /\ Head(net[c]).type = "devices"
    BY <1>1 DEF HandleDevices, Arrived
  <2>2. ListKnows(c, Head(net[c]).list)
    BY <2>1, ReadPayload DEF ListsKnow
  <2>3. ASSUME NEW e \in EntriesOf(Label(c), Head(net[c]).list) PROVE EntryKnows(c[2], e)
    BY <2>2 DEF EntriesOf, ListKnows, EntryKnows
  <2>4. ASSUME NEW p \in Peer, NEW e \in table'[p] PROVE EntryKnows(p, e)
    <3>1. e \in table[p] \/ (p = c[2] /\ e \in EntriesOf(Label(c), Head(net[c]).list))
      BY <1>1 DEF HandleDevices, Updated, Typed
    <3> QED
      BY <2>3, <3>1 DEF EntriesKnow
  <2> QED
    BY <2>4 DEF EntriesKnow, EntryKnows
<1>2. CASE UNCHANGED table
  BY <1>2 DEF EntriesKnow, EntryKnows
<1>3. ASSUME NEW t \in Syncer, Sync(t) PROVE UNCHANGED table
  BY <1>3 DEF Sync, LookUp, Publish
<1>4. ASSUME NEW c \in Channel, HandleRaw(c) \/ HandleFrame(c) PROVE UNCHANGED table
  BY <1>4 DEF HandleRaw, HandleFrame
<1>5. ASSUME NEW m \in Msg, Sending(m) PROVE UNCHANGED table
  BY <1>5 DEF Sending, AskOriginal, SendText
<1>6. ASSUME NEW p \in Peer, NEW m \in Msg, NEW e \in table[p],
             AskStream(p, m, e) \/ SendTraceroute(p, m, e)
      PROVE  UNCHANGED table
  BY <1>6 DEF AskStream, SendTraceroute
<1>7. ASSUME NEW p \in Peer, NEW m \in Msg, NEW d \in Device, SendLocally(p, m, d)
      PROVE  UNCHANGED table
  BY <1>7 DEF SendLocally
<1>8. ASSUME NEW p \in Peer, NEW t \in Syncer, Snapshot(p, t) PROVE UNCHANGED table
  BY <1>8 DEF Snapshot
<1>9. ASSUME NEW p \in Peer, NEW d \in Device,
             LearnNumber(p, d) \/ Lose(p, d) \/ Reconnect(p, d) \/ Detach(p, d) \/ Attach(p, d)
      PROVE  UNCHANGED table
  BY <1>9 DEF LearnNumber, Lose, Reconnect, Detach, Attach
<1>10. CASE UNCHANGED vars
  BY <1>2, <1>10 DEF vars
<1> QED
  BY <1>1, <1>2, <1>3, <1>4, <1>5, <1>6, <1>7, <1>8, <1>9, <1>10 DEF Next, Handle

\* What comes into the queues in a step.
LEMMA StepListsKnow == Typed /\ SyncsKnow /\ ListsKnow /\ [Next]_vars => ListsKnow'
<1> SUFFICES ASSUME Typed, SyncsKnow, ListsKnow, [Next]_vars PROVE ListsKnow'
  OBVIOUS
<1> DEFINE Old(e, x) == \E j \in DOMAIN net[e] : x = net[e][j]
           New(e, x) == x.type = "devices" => ListKnows(e, x.list)
<1>1. ASSUME \A e \in Channel : \A i \in DOMAIN net'[e] : Old(e, net'[e][i]) \/ New(e, net'[e][i])
      PROVE  ListsKnow'
  BY <1>1 DEF ListsKnow, ListKnows
<1>2. ASSUME NEW t \in Syncer, Publish(t) PROVE ListsKnow'
  <2> DEFINE pl == [type |-> "devices", list |-> task[t].list]
  <2>1. task[t] # NoTask
    BY <1>2 DEF Publish
  <2>2. \A e \in Channel : e[1] = task[t].by => New(e, pl)
    BY <2>1 DEF SyncsKnow, SyncKnows, ListKnows
  <2>3. net' \in {net, Broadcast(net, task[t].by, pl)}
    BY <1>2 DEF Publish
  <2> HIDE DEF pl, New
  <2>4. net \in [Channel -> Seq(Payloads)]
    BY DEF Typed
  <2>5. ASSUME NEW e \in Channel, NEW i \in DOMAIN net'[e]
        PROVE  Old(e, net'[e][i]) \/ New(e, net'[e][i])
    <3>1. CASE net' = net
      BY <3>1
    <3>2. CASE net' = Broadcast(net, task[t].by, pl)
      BY <2>2, <2>4, <3>2, BroadcastElements
    <3> QED
      BY <2>3, <3>1, <3>2
  <2> QED
    BY <1>1, <2>5
<1>3. ASSUME NEW c \in Channel, net[c] # <<>>
      PROVE  \A e \in Channel : \A i \in DOMAIN Read(c)[e] : Old(e, Read(c)[e][i])
  BY <1>3, ReadElements
<1>4. ASSUME NEW c \in Channel, HandleDevices(c) PROVE ListsKnow'
  <2>1. net[c] # <<>> /\ net' = Read(c)
    BY <1>4 DEF HandleDevices, Arrived
  <2> HIDE DEF Old, New
  <2> QED
    BY <1>1, <1>3, <2>1
<1>5. ASSUME NEW n \in [Channel -> Seq(Payloads)], NEW p, NEW S, NEW m, Write(n, p, S, m),
             \A e \in Channel : \A i \in DOMAIN n[e] : Old(e, n[e][i])
      PROVE  ListsKnow'
  <2>1. \A e : New(e, Frame(m))
    BY DEF Frame
  <2> HIDE DEF Old, New
  <2>2. ASSUME NEW e \in Channel, NEW i \in DOMAIN net'[e]
        PROVE  Old(e, net'[e][i]) \/ New(e, net'[e][i])
    <3>1. (i \in DOMAIN n[e] /\ net'[e][i] = n[e][i]) \/ net'[e][i] = Frame(m)
      BY <1>5, WriteElements
    <3> QED
      BY <1>5, <2>1, <3>1
  <2> QED
    BY <1>1, <2>2
<1>6. ASSUME NEW c \in Channel, HandleRaw(c) \/ HandleFrame(c) PROVE ListsKnow'
  <2>1. net[c] # <<>>
    BY <1>6 DEF HandleRaw, HandleFrame, Arrived
  <2>2. \E S : Write(Read(c), c[2], S, Head(net[c]).msg)
    BY <1>6, Zenon DEF HandleRaw, HandleFrame
  <2>3. Read(c) \in [Channel -> Seq(Payloads)]
    BY <2>1, ReadTypes
  <2> HIDE DEF Old, New
  <2> QED
    BY <1>3, <1>5, <2>1, <2>2, <2>3
<1>7. CASE UNCHANGED net
  BY <1>1, <1>7
<1>8. ASSUME NEW p \in Peer, NEW m \in Msg, NEW d \in Device, SendLocally(p, m, d) PROVE ListsKnow'
  <2>1. CASE Write(net, p, {d}, m)
    <3>1. net \in [Channel -> Seq(Payloads)]
      BY DEF Typed
    <3>2. \A e \in Channel : \A i \in DOMAIN net[e] : Old(e, net[e][i])
      OBVIOUS
    <3> HIDE DEF Old, New
    <3> QED
      BY <1>5, <2>1, <3>1, <3>2
  <2> QED
    BY <1>7, <1>8, <2>1 DEF SendLocally
<1>9. ASSUME NEW p, NEW m, NEW c, Route(p, m, c) PROVE ListsKnow'
  <2> DEFINE pl == [type |-> "raw", target |-> c.target, msg |-> m]
  <2>1. \A e \in Channel : New(e, pl)
    OBVIOUS
  <2>2. net' \in {net, Broadcast(net, p, pl)} /\ net \in [Channel -> Seq(Payloads)]
    BY <1>9 DEF Route, Typed
  <2> HIDE DEF pl, New
  <2>3. ASSUME NEW e \in Channel, NEW i \in DOMAIN net'[e]
        PROVE  Old(e, net'[e][i]) \/ New(e, net'[e][i])
    <3>1. CASE net' = net
      BY <3>1
    <3>2. CASE net' = Broadcast(net, p, pl)
      <4>1. i \in DOMAIN Broadcast(net, p, pl)[e] /\ net'[e][i] = Broadcast(net, p, pl)[e][i]
        BY <3>2
      <4>2. (i \in DOMAIN net[e] /\ net'[e][i] = net[e][i]) \/ net'[e][i] = pl
        BY <2>2, <4>1, BroadcastElements
      <4> QED
        BY <2>1, <4>2
    <3> QED
      BY <2>2, <3>1, <3>2
  <2> QED
    BY <1>1, <2>3
<1>10. ASSUME NEW m \in Msg, Sending(m) PROVE ListsKnow'
  BY <1>7, <1>9, <1>10 DEF Sending, AskOriginal, SendText
<1>11. ASSUME NEW p \in Peer, NEW m \in Msg, NEW e \in table[p],
              AskStream(p, m, e) \/ SendTraceroute(p, m, e)
       PROVE  ListsKnow'
  BY <1>7, <1>9, <1>11 DEF AskStream, SendTraceroute
<1>12. ASSUME NEW S, net' = Without(S) PROVE ListsKnow'
  BY <1>1, <1>12, WithoutElements
<1>13. ASSUME NEW p \in Peer, NEW d \in Device,
              LearnNumber(p, d) \/ Lose(p, d) \/ Reconnect(p, d) \/ Detach(p, d) \/ Attach(p, d)
       PROVE  ListsKnow'
  <2>1. UNCHANGED net \/ net' = Without(SessionsOf(p, d))
    BY <1>13 DEF LearnNumber, Lose, Reconnect, Detach, Attach
  <2> QED
    BY <1>7, <1>12, <2>1
<1>14. ASSUME NEW p \in Peer, NEW t \in Syncer, Snapshot(p, t) PROVE UNCHANGED net
  BY <1>14 DEF Snapshot
<1>15. ASSUME NEW t \in Syncer, NEW d \in Device, LookUp(t, d) PROVE UNCHANGED net
  BY <1>15 DEF LookUp
<1>16. CASE UNCHANGED vars
  BY <1>7, <1>16 DEF vars
<1> QED
  BY <1>2, <1>4, <1>6, <1>7, <1>8, <1>10, <1>11, <1>13, <1>14, <1>15, <1>16
  DEF Next, Handle, Sync

LEMMA CallsKnowAfter ==
    ASSUME Typed, CallsKnow, NEW m \in Msg, NEW c \in Begun, Goes(m, c), LocalCall(c) \/ VirtualCall(c)
    PROVE  CallsKnow'
<1>1. \A x \in Msg : call'[x] = IF x = m THEN c ELSE call[x]
  BY DEF Goes, Typed
<1> QED
  BY <1>1 DEF CallsKnow, LocalCall, VirtualCall

LEMMA StepCallsKnow == Typed /\ Attached /\ EntriesKnow /\ CallsKnow /\ [Next]_vars => CallsKnow'
<1> SUFFICES ASSUME Typed, Attached, EntriesKnow, CallsKnow, [Next]_vars PROVE CallsKnow'
  OBVIOUS
<1>1. ASSUME NEW p \in Peer, NEW m \in Msg, NEW d \in Device, SendLocally(p, m, d) PROVE CallsKnow'
  <2>1. PICK pc \in {"sent", "refused"} : Goes(m, [NoCall EXCEPT !.pc = pc, !.by = p, !.device = d])
    BY <1>1 DEF SendLocally
  <2>2. d \in MayList(p)
    BY <1>1 DEF SendLocally, Attached
  <2> DEFINE c == [NoCall EXCEPT !.pc = pc, !.by = p, !.device = d]
  <2>3. LocalCall(c) /\ c \in Begun
    BY <2>2 DEF LocalCall, NoCall, Begun, Ids
  <2> HIDE DEF c
  <2> QED
    BY <2>1, <2>3, CallsKnowAfter DEF c
<1>2. ASSUME NEW p \in Peer, NEW m \in Msg, NEW e \in table[p], AskStream(p, m, e) PROVE CallsKnow'
  <2> DEFINE c == [pc |-> "asked", traced |-> FALSE, by |-> p, device |-> Id(e),
                   source |-> e.source, target |-> Nothing]
  <2>1. c \in Begun
    BY IdTypes DEF Begun, Ids
  <2>2. VirtualCall(c)
    BY IdTypes DEF EntriesKnow, EntryKnows, VirtualCall
  <2>3. Goes(m, c)
    BY <1>2 DEF AskStream
  <2> HIDE DEF c
  <2> QED
    BY <2>1, <2>2, <2>3, CallsKnowAfter
<1>3. ASSUME NEW m \in Msg, AskOriginal(m) PROVE CallsKnow'
  <2>1. call[m] \in Begun /\ call[m].pc = "asked" /\ VirtualCall(call[m])
    BY <1>3, CallsBegun DEF AskOriginal, CallsKnow, LocalCall
  <2>2. PICK w \in Channel : \E d \in MayList(w[1]) :
           /\ w[2] = call[m].by /\ call[m].source = Label(w)
           /\ call[m].device = <<"virtual", call[m].source, d>>
    BY <2>1 DEF VirtualCall
  <2>20. PICK d \in MayList(w[1]) :
           /\ w[2] = call[m].by /\ call[m].source = Label(w)
           /\ call[m].device = <<"virtual", call[m].source, d>>
    BY <2>2
  <2>3. PICK t \in {d, Nothing} : Goes(m, [call[m] EXCEPT !.pc = "ready", !.target = t])
    <3>1. call[m].device[3] = d
      BY <2>20
    <3>2. CASE \E e \in table[call[m].by] : Id(e) = call[m].device
      BY <1>3, <3>1, <3>2 DEF AskOriginal
    <3>3. CASE ~ \E e \in table[call[m].by] : Id(e) = call[m].device
      BY <1>3, <3>3 DEF AskOriginal
    <3> QED
      BY <3>2, <3>3
  <2>4. d \in Device
    BY MayListIsDevices, Ways
  <2> DEFINE c == [call[m] EXCEPT !.pc = "ready", !.target = t]
  <2>5. c \in Begun
    BY <2>1, <2>4, BegunRecords DEF Ids
  <2>6. c.pc = "ready" /\ c.target = t /\ c.by = call[m].by /\ c.source = call[m].source
        /\ c.device = call[m].device /\ c.traced = call[m].traced
    BY <2>1 DEF Begun
  <2>7. ~ call[m].traced
    BY <2>1 DEF VirtualCall
  <2> HIDE DEF c
  <2>8. VirtualCall(c)
    BY <2>20, <2>3, <2>6, <2>7 DEF VirtualCall
  <2> QED
    BY <2>3, <2>5, <2>8, CallsKnowAfter DEF c
<1>4. ASSUME NEW p, NEW m \in Msg, NEW c \in Begun, Route(p, m, c), VirtualCall(c), c.pc = "ready"
      PROVE  CallsKnow'
  <2>1. PICK pc \in {"sent", "refused"} : Goes(m, [c EXCEPT !.pc = pc])
    BY <1>4 DEF Route
  <2> DEFINE n == [c EXCEPT !.pc = pc]
  <2>2. n \in Begun
    BY BegunRecords
  <2>3. n.pc = pc /\ n.target = c.target /\ n.by = c.by /\ n.source = c.source
        /\ n.device = c.device /\ n.traced = c.traced
    BY DEF Begun
  <2> HIDE DEF n
  <2>4. VirtualCall(n)
    BY <1>4, <2>1, <2>3 DEF VirtualCall
  <2> QED
    BY <2>1, <2>2, <2>4, CallsKnowAfter DEF n
<1>5. ASSUME NEW m \in Msg, SendText(m) PROVE CallsKnow'
  <2>1. call[m] \in Begun /\ call[m].pc = "ready" /\ VirtualCall(call[m])
    BY <1>5, CallsBegun DEF SendText, CallsKnow, LocalCall
  <2> QED
    BY <1>4, <1>5, <2>1 DEF SendText
<1>6. ASSUME NEW p \in Peer, NEW m \in Msg, NEW e \in table[p], SendTraceroute(p, m, e) PROVE CallsKnow'
  <2> DEFINE old == [pc |-> "ready", traced |-> TRUE, by |-> p, device |-> Id(e),
                     source |-> e.source, target |-> Id(e)]
  <2>1. PICK pc \in {"sent", "refused"} : Goes(m, [old EXCEPT !.pc = pc])
    BY <1>6 DEF SendTraceroute, Route
  <2> DEFINE n == [old EXCEPT !.pc = pc]
  <2>2. n \in Begun
    BY IdTypes DEF Begun
  <2>3. n.pc = pc /\ n.target = Id(e) /\ n.by = p /\ n.source = e.source /\ n.device = Id(e) /\ n.traced
    OBVIOUS
  <2> HIDE DEF n
  <2>4. VirtualCall(n)
    BY <2>1, <2>3, IdTypes DEF VirtualCall, EntriesKnow, EntryKnows
  <2> QED
    BY <2>1, <2>2, <2>4, CallsKnowAfter DEF n
<1>7. CASE UNCHANGED call
  BY <1>7 DEF CallsKnow, LocalCall, VirtualCall
<1>8. ASSUME NEW t \in Syncer, Sync(t) PROVE UNCHANGED call
  BY <1>8 DEF Sync, LookUp, Publish
<1>9. ASSUME NEW c \in Channel, Handle(c) PROVE UNCHANGED call
  BY <1>9 DEF Handle, HandleDevices, HandleRaw, HandleFrame
<1>10. ASSUME NEW p \in Peer, NEW t \in Syncer, Snapshot(p, t) PROVE UNCHANGED call
  BY <1>10 DEF Snapshot
<1>11. ASSUME NEW p \in Peer, NEW d \in Device,
             LearnNumber(p, d) \/ Lose(p, d) \/ Reconnect(p, d) \/ Detach(p, d) \/ Attach(p, d)
      PROVE  UNCHANGED call
  BY <1>11 DEF LearnNumber, Lose, Reconnect, Detach, Attach
<1>12. CASE UNCHANGED vars
  BY <1>7, <1>12 DEF vars
<1> QED
  BY <1>1, <1>2, <1>3, <1>5, <1>6, <1>7, <1>8, <1>9, <1>10, <1>11, <1>12 DEF Next, Sending

LEMMA StepKnown == Typed /\ Attached /\ Known /\ [Next]_vars => Known'
  BY StepSyncsKnow, StepListsKnow, StepEntriesKnow, StepCallsKnow DEF Known

-----------------------------------------------------------------------------
(* Where a payload on its way may still come out *)

\* What is written to the devices S of p.
Exits(p, S) ==
    {x \in Place : \/ x[1] = p /\ Local(x[2]) \in S
                   \/ \E q \in Servers(p) : Stream(q) \in S /\ x[1] \in Above(q)}

Reach(e, pl) ==
    CASE pl.type = "frame" -> {x \in Place : x[1] \in Above(e[2])}
      [] pl.type = "raw"   -> Exits(e[2], {pl.target})
      [] OTHER             -> {}

Hits(e, pl, m, x) == pl.type # "devices" /\ pl.msg = m /\ x \in Reach(e, pl)

LEMMA ReachOf ==
    ASSUME NEW e
    PROVE  /\ \A m : Reach(e, Frame(m)) = {x \in Place : x[1] \in Above(e[2])}
           /\ \A pl : pl.type = "raw" => Reach(e, pl) = Exits(e[2], {pl.target})
           /\ \A pl : pl.type = "frame" => Reach(e, pl) = {x \in Place : x[1] \in Above(e[2])}
           /\ \A pl : pl.type = "devices" => Reach(e, pl) = {}
  BY DEF Reach, Frame

LEMMA ExitsAreOutlets ==
    ASSUME NEW p \in Peer, NEW d PROVE Exits(p, {d}) \subseteq Outlets(p, d)
<1>1. ASSUME NEW q \in Servers(p) PROVE q \in Peer
  BY Ways
<1> QED
  BY <1>1 DEF Exits, Outlets

LEMMA ExitsOfSome ==
    ASSUME NEW p, NEW S, NEW T, S \subseteq T PROVE Exits(p, S) \subseteq Exits(p, T)
  BY DEF Exits

\* What a frame's handler writes goes no further than the frame could.
LEMMA ExitsAreAbove ==
    ASSUME NEW p \in Peer, NEW S PROVE Exits(p, S) \subseteq {x \in Place : x[1] \in Above(p)}
<1> SUFFICES ASSUME NEW x \in Exits(p, S) PROVE x \in Place /\ x[1] \in Above(p)
  OBVIOUS
<1>1. CASE x[1] = p
  BY <1>1, AboveSelf DEF Exits
<1>2. CASE \E q \in Servers(p) : x[1] \in Above(q)
  BY <1>2, AboveServer DEF Exits
<1> QED
  BY <1>1, <1>2 DEF Exits

\* No device has such a name.
LEMMA NoExits ==
    ASSUME NEW p
    PROVE  /\ Exits(p, {Nothing}) = {}
           /\ \A s, d : Exits(p, {<<"virtual", s, d>>}) = {}
<1>1. \A r \in Radio : Local(r) # Nothing
  BY DeviceIds, VirtualAssumption DEF VirtualAssumption
<1>2. \A q \in Servers(p) : Stream(q) # Nothing
  BY DeviceIds, VirtualAssumption DEF VirtualAssumption, Servers
<1>3. \A r, s, d : Local(r) # <<"virtual", s, d>> /\ Stream(r) # <<"virtual", s, d>>
  BY DEF Local, Stream
<1>4. \A x \in Place : x[2] \in Radio
  BY DEF Place
<1> QED
  BY <1>1, <1>2, <1>3, <1>4 DEF Exits

-----------------------------------------------------------------------------
(* Payloads and transmissions are where they should be *)

InPlace(n, m, places) ==
    \A e \in Channel : \A i \in DOMAIN n[e] : \A x : Hits(e, n[e][i], m, x) => x \in places
Places == \A m \in Msg : InPlace(net, m, Addressed(m))

\* Of a packet that was not sent there is no trace.
NoneOf(n, m) == \A e \in Channel : \A i \in DOMAIN n[e] : n[e][i].type # "devices" => n[e][i].msg # m
Unaired(m) == \A x \in Place : aired[m][x] = 0
UnsentQuiet == \A m \in Msg : call[m].pc # "sent" => NoneOf(net, m) /\ Unaired(m)

InPlaceInv == Places /\ AirsInPlace /\ UnsentQuiet

LEMMA InitInPlace == Init => InPlaceInv
<1> SUFFICES ASSUME Init PROVE InPlaceInv
  OBVIOUS
<1>1. \A e \in Channel : DOMAIN net[e] = {}
  BY DEF Init
<1>2. \A m \in Msg, x \in Place : aired[m][x] = 0
  BY DEF Init
<1> QED
  BY <1>1, <1>2 DEF InPlaceInv, Places, InPlace, AirsInPlace, UnsentQuiet, NoneOf, Unaired

\* Queues that hold nothing new keep what holds of all.
LEMMA NothingNewInPlace ==
    ASSUME NEW n, NEW k,
           \A e \in Channel : \A i \in DOMAIN k[e] :
               \/ k[e][i].type = "devices"
               \/ \E j \in DOMAIN n[e] : k[e][i] = n[e][j]
    PROVE  /\ \A m, S : InPlace(n, m, S) => InPlace(k, m, S)
           /\ \A m : NoneOf(n, m) => NoneOf(k, m)
  BY DEF InPlace, NoneOf, Hits

LEMMA WriteAirs ==
    ASSUME NEW n, NEW p, NEW S, NEW m \in Msg, Write(n, p, S, m), Typed
    PROVE  \A o \in Msg, x \in Place : aired'[o][x] =
               IF o = m /\ x[1] = p /\ x[2] \in working[p] /\ Local(x[2]) \in S
               THEN aired[o][x] + 1 ELSE aired[o][x]
<1>1. aired' = [aired EXCEPT ![m] =
                   [x \in Place |-> IF /\ x[1] = p /\ x[2] \in working[p]
                                       /\ Local(x[2]) \in S
                                    THEN @[x] + 1 ELSE @[x]]]
  BY DEF Write
<1> QED
  BY <1>1 DEF Typed

LEMMA WriteInPlace ==
    ASSUME NEW n \in [Channel -> Seq(Payloads)], NEW p \in Peer, NEW S, NEW m \in Msg, Write(n, p, S, m),
           Typed, NEW places
    PROVE  /\ InPlace(n, m, places) /\ Exits(p, S) \subseteq places => InPlace(net', m, places)
           /\ \A o \in Msg : \A q : o # m /\ InPlace(n, o, q) => InPlace(net', o, q)
           /\ \A o \in Msg : o # m /\ NoneOf(n, o) => NoneOf(net', o)
           /\ \A o \in Msg, x \in Place : aired'[o][x] =
                 IF o = m /\ x[1] = p /\ x[2] \in working[p] /\ Local(x[2]) \in S
                 THEN aired[o][x] + 1 ELSE aired[o][x]
<1>1. ASSUME NEW e \in Channel, NEW i \in DOMAIN net'[e]
      PROVE  \/ i \in DOMAIN n[e] /\ net'[e][i] = n[e][i]
             \/ net'[e][i] = Frame(m) /\ e[1] = p /\ e \in up /\ Stream(e[2]) \in S
  BY WriteElements
<1>2. Frame(m).msg = m /\ Frame(m).type = "frame"
  BY DEF Frame
<1>3. ASSUME NEW e \in Channel, e \in up, e[1] = p, Stream(e[2]) \in S
      PROVE  Reach(e, Frame(m)) \subseteq Exits(p, S)
  <2>1. e[2] \in Servers(p)
    BY <1>3, Ways DEF Typed
  <2> QED
    BY <1>3, <2>1, ReachOf DEF Exits
<1>4. ASSUME InPlace(n, m, places), Exits(p, S) \subseteq places PROVE InPlace(net', m, places)
  <2> SUFFICES ASSUME NEW e \in Channel, NEW i \in DOMAIN net'[e], NEW x, Hits(e, net'[e][i], m, x)
               PROVE  x \in places
    BY DEF InPlace
  <2>1. CASE i \in DOMAIN n[e] /\ net'[e][i] = n[e][i]
    BY <1>4, <2>1 DEF InPlace
  <2>2. CASE net'[e][i] = Frame(m) /\ e[1] = p /\ e \in up /\ Stream(e[2]) \in S
    BY <1>3, <1>4, <2>2 DEF Hits
  <2> QED
    BY <1>1, <2>1, <2>2
<1>5. ASSUME NEW o \in Msg, o # m, NEW q, InPlace(n, o, q) PROVE InPlace(net', o, q)
  <2> SUFFICES ASSUME NEW e \in Channel, NEW i \in DOMAIN net'[e], NEW x, Hits(e, net'[e][i], o, x)
               PROVE  x \in q
    BY DEF InPlace
  <2>1. net'[e][i] # Frame(m)
    BY <1>2, <1>5 DEF Hits
  <2> QED
    BY <1>1, <1>5, <2>1 DEF InPlace
<1>6. ASSUME NEW o \in Msg, o # m, NoneOf(n, o) PROVE NoneOf(net', o)
  BY <1>1, <1>2, <1>6 DEF NoneOf
<1>7. \A o \in Msg, x \in Place : aired'[o][x] =
          IF o = m /\ x[1] = p /\ x[2] \in working[p] /\ Local(x[2]) \in S
          THEN aired[o][x] + 1 ELSE aired[o][x]
  BY WriteAirs
<1> QED
  BY <1>4, <1>5, <1>6, <1>7

LEMMA SameCallSameAddress ==
    ASSUME NEW m \in Msg, call'[m] = call[m] PROVE Addressed(m)' = Addressed(m)
  BY DEF Addressed, IsVirtual

\* A step that concerns the packet m.
LEMMA InPlaceAfter ==
    ASSUME InPlaceInv, NEW m \in Msg,
           \A o \in Msg : o # m =>
               /\ call'[o] = call[o]
               /\ \A q : InPlace(net, o, q) => InPlace(net', o, q)
               /\ NoneOf(net, o) => NoneOf(net', o)
               /\ \A x \in Place : aired'[o][x] = aired[o][x],
           InPlace(net', m, Addressed(m)'),
           \A x \in Place : aired'[m][x] > 0 => x \in Addressed(m)',
           call'[m].pc # "sent" => NoneOf(net', m) /\ \A x \in Place : aired'[m][x] = 0
    PROVE  InPlaceInv'
<1>1. ASSUME NEW o \in Msg
      PROVE  /\ InPlace(net', o, Addressed(o)')
             /\ \A x \in Place : aired'[o][x] > 0 => x \in Addressed(o)'
             /\ call'[o].pc # "sent" => NoneOf(net', o) /\ \A x \in Place : aired'[o][x] = 0
  <2>1. CASE o = m
    BY <2>1
  <2>2. CASE o # m
    <3>1. Addressed(o)' = Addressed(o)
      BY <2>2, SameCallSameAddress
    <3> QED
      BY <2>2, <3>1 DEF InPlaceInv, Places, AirsInPlace, UnsentQuiet, Unaired
  <2> QED
    BY <2>1, <2>2
<1> QED
  BY <1>1 DEF InPlaceInv, Places, AirsInPlace, UnsentQuiet, Unaired, InPlace, NoneOf

\* A step that brings nothing new and sends nothing.
LEMMA InPlaceAfterLoss ==
    ASSUME InPlaceInv, UNCHANGED <<call, aired>>,
           \A e \in Channel : \A i \in DOMAIN net'[e] :
               net'[e][i].type = "devices" \/ \E j \in DOMAIN net[e] : net'[e][i] = net[e][j]
    PROVE  InPlaceInv'
<1>1. ASSUME NEW m \in Msg
      PROVE  InPlace(net', m, Addressed(m)) /\ (NoneOf(net, m) => NoneOf(net', m))
  BY NothingNewInPlace DEF InPlaceInv, Places
<1>2. \A m \in Msg : Addressed(m)' = Addressed(m)
  BY SameCallSameAddress
<1> QED
  BY <1>1, <1>2 DEF InPlaceInv, Places, AirsInPlace, UnsentQuiet, Unaired, InPlace, NoneOf

LEMMA AddressedVirtual ==
    ASSUME NEW m \in Msg, NEW c, call'[m] = c, c.pc # "idle", NEW w \in Channel, NEW d,
           w[2] = c.by, c.device = <<"virtual", c.source, d>>, ~ c.traced, NEW q \in Neighbours(c.by)
    PROVE  Outlets(q, d) \subseteq Addressed(m)'
<1>1. IsVirtual(m)'
  BY DEF IsVirtual
<1>2. call'[m].device[3] = d /\ call'[m].by = c.by /\ ~ call'[m].traced
  OBVIOUS
<1>3. Outlets(q, d) \subseteq Place
  BY DEF Outlets
<1> QED
  BY <1>1, <1>2, <1>3 DEF Addressed, Outlets, Neighbours

LEMMA AddressedLocal ==
    ASSUME NEW m \in Msg, NEW c, call'[m] = c, c.device \in Device
    PROVE  Addressed(m)' = Outlets(c.by, c.device)
<1>1. c.device[1] # "virtual"
  BY DEF Device, Local, Stream
<1>2. ~ IsVirtual(m)'
  BY <1>1 DEF IsVirtual
<1> QED
  BY <1>2 DEF Addressed, Outlets

LEMMA RouteInPlace ==
    ASSUME Typed, InPlaceInv, NEW m \in Msg, NEW c \in Begun, NEW w \in Channel, NEW d \in MayList(w[1]),
           w[2] = c.by, c.device = <<"virtual", c.source, d>>,
           c.traced => c.target = c.device,
           ~ c.traced => c.target \in {d, Nothing},
           call[m].pc # "sent", Route(c.by, m, c), UNCHANGED aired
    PROVE  InPlaceInv'
<1> DEFINE pl == [type |-> "raw", target |-> c.target, msg |-> m]
<1>1. NoneOf(net, m) /\ Unaired(m)
  BY DEF InPlaceInv, UnsentQuiet
<1>2. net \in [Channel -> Seq(Payloads)] /\ \A o \in Msg : o # m => call'[o] = call[o]
  BY DEF Typed, Route, Goes
<1>3. CASE net' = net /\ call'[m].pc = "refused"
  <2>1. InPlace(net', m, Addressed(m)') /\ \A x \in Place : aired'[m][x] = 0
    BY <1>1, <1>3 DEF InPlace, NoneOf, Hits, Unaired
  <2> QED
    BY <1>1, <1>2, <1>3, <2>1, InPlaceAfter
<1>4. CASE net' = Broadcast(net, c.by, pl) /\ call'[m] = [c EXCEPT !.pc = "sent"]
  <2>1. pl.type = "raw" /\ pl.msg = m /\ pl.target = c.target
    OBVIOUS
  <2>2. ASSUME NEW e \in Channel, e[1] = c.by, NEW x \in Reach(e, pl) PROVE x \in Addressed(m)'
    <3>1. x \in Exits(e[2], {c.target}) /\ e[2] \in Neighbours(c.by) /\ e[2] \in Peer
      BY <2>1, <2>2, ReachOf, Ways
    <3>2. ~ c.traced /\ c.target = d
      <4>1. c.target # Nothing
        BY <3>1, NoExits
      <4>2. ASSUME c.target = <<"virtual", c.source, d>> PROVE FALSE
        <5>1. Exits(e[2], {<<"virtual", c.source, d>>}) = {}
          BY NoExits
        <5> QED
          BY <3>1, <4>2, <5>1
      <4> QED
        BY <4>1, <4>2
    <3>3. x \in Outlets(e[2], d)
      BY <3>1, <3>2, ExitsAreOutlets
    <3> DEFINE n == [c EXCEPT !.pc = "sent"]
    <3>4. n.by = c.by /\ n.source = c.source /\ n.device = c.device /\ n.traced = c.traced /\ n.pc = "sent"
      BY DEF Begun
    <3>5. call'[m] = n
      BY <1>4
    <3> HIDE DEF n
    <3> QED
      BY <3>1, <3>2, <3>3, <3>4, <3>5, AddressedVirtual
  <2> HIDE DEF pl
  <2>3. ASSUME NEW e \in Channel, NEW i \in DOMAIN net'[e]
        PROVE  \/ i \in DOMAIN net[e] /\ net'[e][i] = net[e][i]
               \/ e[1] = c.by /\ net'[e][i] = pl
    BY <1>2, <1>4, BroadcastElements
  <2>4. ASSUME NEW e \in Channel, NEW i \in DOMAIN net'[e], NEW x, Hits(e, net'[e][i], m, x)
        PROVE  x \in Addressed(m)'
    BY <1>1, <2>2, <2>3, <2>4 DEF Hits, NoneOf
  <2>5. ASSUME NEW o \in Msg, o # m
        PROVE  /\ \A q : InPlace(net, o, q) => InPlace(net', o, q)
               /\ NoneOf(net, o) => NoneOf(net', o)
    BY <2>1, <2>3, <2>5 DEF InPlace, NoneOf, Hits
  <2>6. InPlace(net', m, Addressed(m)')
    BY <2>4 DEF InPlace
  <2>7. \A x \in Place : aired'[m][x] = 0
    BY <1>1 DEF Unaired
  <2>8. call'[m].pc = "sent"
    BY <1>4 DEF Begun
  <2> QED
    BY <1>2, <2>5, <2>6, <2>7, <2>8, InPlaceAfter
<1>5. ASSUME NEW n, Goes(m, n) PROVE call'[m] = n
  BY <1>5 DEF Goes, Typed
<1>6. CASE Goes(m, [c EXCEPT !.pc = "sent"]) /\ net' = Broadcast(net, c.by, pl)
  BY <1>4, <1>5, <1>6
<1>7. CASE Goes(m, [c EXCEPT !.pc = "refused"]) /\ net' = net
  <2>1. call'[m] = [c EXCEPT !.pc = "refused"]
    BY <1>5, <1>7
  <2>2. call'[m].pc = "refused"
    BY <2>1 DEF Begun
  <2> QED
    BY <1>3, <1>7, <2>2
<1> QED
  BY <1>6, <1>7 DEF Route

LEMMA StepInPlace == Typed /\ Attached /\ Known /\ InPlaceInv /\ [Next]_vars => InPlaceInv'
<1> SUFFICES ASSUME Typed, Attached, Known, InPlaceInv, [Next]_vars PROVE InPlaceInv'
  OBVIOUS
<1>0. net \in [Channel -> Seq(Payloads)]
  BY DEF Typed
<1>1. ASSUME NEW t \in Syncer, Publish(t) PROVE InPlaceInv'
  <2> DEFINE pl == [type |-> "devices", list |-> task[t].list]
  <2>1. net' \in {net, Broadcast(net, task[t].by, pl)} /\ pl.type = "devices"
    BY <1>1 DEF Publish
  <2> HIDE DEF pl
  <2>2. ASSUME NEW e \in Channel, NEW i \in DOMAIN net'[e]
        PROVE  net'[e][i].type = "devices" \/ \E j \in DOMAIN net[e] : net'[e][i] = net[e][j]
    <3>1. CASE net' = net
      BY <3>1
    <3>2. CASE net' = Broadcast(net, task[t].by, pl)
      BY <1>0, <2>1, <3>2, BroadcastElements
    <3> QED
      BY <2>1, <3>1, <3>2
  <2> QED
    BY <1>1, <2>2, InPlaceAfterLoss DEF Publish
<1>2. ASSUME NEW c \in Channel, net[c] # <<>>, NEW e \in Channel, NEW i \in DOMAIN Read(c)[e]
      PROVE  \E j \in DOMAIN net[e] : Read(c)[e][i] = net[e][j]
  BY <1>2, ReadElements
<1>3. ASSUME NEW c \in Channel, HandleDevices(c) PROVE InPlaceInv'
  BY <1>2, <1>3, InPlaceAfterLoss DEF HandleDevices, Arrived
<1>4. ASSUME NEW c \in Channel, net[c] # <<>>, Head(net[c]).type # "devices", NEW S,
             Write(Read(c), c[2], S, Head(net[c]).msg), UNCHANGED call,
             Exits(c[2], S) \subseteq Reach(c, Head(net[c]))
      PROVE  InPlaceInv'
  <2>0. PICK m \in Msg : Head(net[c]).msg = m
    BY <1>4, ReadPayload
  <2>1. Head(net[c]) = net[c][1] /\ 1 \in DOMAIN net[c] /\ c[2] \in Peer
    BY <1>4, ReadPayload, Ways
  <2>2. Exits(c[2], S) \subseteq Addressed(m)
    <3>1. \A x \in Exits(c[2], S) : Hits(c, net[c][1], m, x)
      BY <1>4, <2>0, <2>1 DEF Hits
    <3> QED
      BY <2>1, <3>1 DEF InPlaceInv, Places, InPlace
  <2>3. call[m].pc = "sent"
    BY <1>4, <2>0, <2>1 DEF InPlaceInv, UnsentQuiet, NoneOf
  <2>4. Read(c) \in [Channel -> Seq(Payloads)]
    BY <1>4, ReadTypes
  <2>5. /\ \A o, q : InPlace(net, o, q) => InPlace(Read(c), o, q)
        /\ \A o : NoneOf(net, o) => NoneOf(Read(c), o)
    <3>1. \A e \in Channel : \A i \in DOMAIN Read(c)[e] :
               \/ Read(c)[e][i].type = "devices"
               \/ \E j \in DOMAIN net[e] : Read(c)[e][i] = net[e][j]
      BY <1>2, <1>4
    <3> DEFINE k == Read(c)
    <3> HIDE DEF k
    <3>2. \A e \in Channel : \A i \in DOMAIN k[e] :
               k[e][i].type = "devices" \/ \E j \in DOMAIN net[e] : k[e][i] = net[e][j]
      BY <3>1 DEF k
    <3>3. /\ \A o, q : InPlace(net, o, q) => InPlace(k, o, q)
          /\ \A o : NoneOf(net, o) => NoneOf(k, o)
      BY <3>2, NothingNewInPlace
    <3> QED
      BY <3>3 DEF k
  <2>6. InPlace(Read(c), m, Addressed(m)) /\ Write(Read(c), c[2], S, m)
    BY <1>4, <2>0, <2>5 DEF InPlaceInv, Places
  <2>7. /\ InPlace(net', m, Addressed(m))
        /\ \A o \in Msg : \A q : o # m /\ InPlace(Read(c), o, q) => InPlace(net', o, q)
        /\ \A o \in Msg : o # m /\ NoneOf(Read(c), o) => NoneOf(net', o)
        /\ \A o \in Msg, x \in Place : aired'[o][x] =
              IF o = m /\ x[1] = c[2] /\ x[2] \in working[c[2]] /\ Local(x[2]) \in S
              THEN aired[o][x] + 1 ELSE aired[o][x]
    BY <2>1, <2>2, <2>4, <2>6, WriteInPlace
  <2>8. \A x \in Place : aired'[m][x] > 0 => x \in Addressed(m)
    BY <2>1, <2>2, <2>7 DEF InPlaceInv, AirsInPlace, Exits
  <2>9. Addressed(m)' = Addressed(m) /\ call'[m].pc = "sent"
    BY <1>4, <2>1, <2>3, SameCallSameAddress
  <2>10. \A o \in Msg : o # m =>
               /\ call'[o] = call[o]
               /\ \A q : InPlace(net, o, q) => InPlace(net', o, q)
               /\ NoneOf(net, o) => NoneOf(net', o)
               /\ \A x \in Place : aired'[o][x] = aired[o][x]
    BY <1>4, <2>5, <2>7
  <2> QED
    BY <2>1, <2>7, <2>8, <2>9, <2>10, InPlaceAfter
<1>5. ASSUME NEW c \in Channel, HandleRaw(c) PROVE InPlaceInv'
  <2>1. net[c] # <<>> /\ Head(net[c]).type = "raw"
    BY <1>5 DEF HandleRaw, Arrived
  <2>2. Exits(c[2], {Head(net[c]).target} \cap listed[c[2]]) \subseteq Reach(c, Head(net[c]))
    <3>1. Exits(c[2], {Head(net[c]).target} \cap listed[c[2]]) \subseteq Exits(c[2], {Head(net[c]).target})
      BY DEF Exits
    <3> QED
      BY <2>1, <3>1, ReachOf
  <2> QED
    BY <1>4, <1>5, <2>1, <2>2 DEF HandleRaw
<1>6. ASSUME NEW c \in Channel, HandleFrame(c) PROVE InPlaceInv'
  <2>1. net[c] # <<>> /\ Head(net[c]).type = "frame"
    BY <1>6 DEF HandleFrame, Arrived
  <2>2. Exits(c[2], listed[c[2]]) \subseteq Reach(c, Head(net[c]))
    BY <2>1, ReachOf, ExitsAreAbove, Ways
  <2> QED
    BY <1>4, <1>6, <2>1, <2>2 DEF HandleFrame
<1>7. ASSUME NEW p \in Peer, NEW m \in Msg, NEW d \in Device, SendLocally(p, m, d) PROVE InPlaceInv'
  <2>1. NoneOf(net, m) /\ Unaired(m) /\ \A o \in Msg : o # m => call'[o] = call[o]
    BY <1>7 DEF SendLocally, InPlaceInv, UnsentQuiet, Goes, Typed
  <2>2. \A q : InPlace(net, m, q)
    BY <2>1 DEF InPlace, NoneOf, Hits
  <2>3. CASE Write(net, p, {d}, m) /\ Goes(m, [NoCall EXCEPT !.pc = "sent", !.by = p, !.device = d])
    <3>1. Write(net, p, {d}, m) /\ call'[m] = [NoCall EXCEPT !.pc = "sent", !.by = p, !.device = d]
      BY <1>7, <2>3 DEF SendLocally, Goes, Typed
    <3>2. call'[m].pc = "sent" /\ call'[m].by = p /\ call'[m].device = d
      BY <3>1 DEF NoCall
    <3>3. Addressed(m)' = Outlets(p, d)
      BY <3>2, AddressedLocal
    <3>4. Exits(p, {d}) \subseteq Outlets(p, d)
      BY ExitsAreOutlets
    <3>5. /\ InPlace(net', m, Outlets(p, d))
          /\ \A o \in Msg : \A q : o # m /\ InPlace(net, o, q) => InPlace(net', o, q)
          /\ \A o \in Msg : o # m /\ NoneOf(net, o) => NoneOf(net', o)
          /\ \A o \in Msg, x \in Place : aired'[o][x] =
                IF o = m /\ x[1] = p /\ x[2] \in working[p] /\ Local(x[2]) \in {d}
                THEN aired[o][x] + 1 ELSE aired[o][x]
      <4> DEFINE S == {d}
      <4>1. Write(net, p, S, m) /\ Exits(p, S) \subseteq Outlets(p, d) /\ InPlace(net, m, Outlets(p, d))
        BY <2>2, <3>1, <3>4
      <4> HIDE DEF S
      <4>2. /\ InPlace(net', m, Outlets(p, d))
            /\ \A o \in Msg : \A q : o # m /\ InPlace(net, o, q) => InPlace(net', o, q)
            /\ \A o \in Msg : o # m /\ NoneOf(net, o) => NoneOf(net', o)
            /\ \A o \in Msg, x \in Place : aired'[o][x] =
                  IF o = m /\ x[1] = p /\ x[2] \in working[p] /\ Local(x[2]) \in S
                  THEN aired[o][x] + 1 ELSE aired[o][x]
        BY <1>0, <4>1, WriteInPlace
      <4> QED
        BY <4>2 DEF S
    <3>6. \A x \in Place : aired'[m][x] > 0 => x \in Outlets(p, d)
      BY <2>1, <3>5 DEF Unaired, Outlets
    <3> QED
      BY <2>1, <3>2, <3>3, <3>5, <3>6, InPlaceAfter
  <2>4. CASE UNCHANGED <<net, aired>> /\ Goes(m, [NoCall EXCEPT !.pc = "refused", !.by = p, !.device = d])
    <3>1. UNCHANGED <<net, aired>> /\ call'[m] = [NoCall EXCEPT !.pc = "refused", !.by = p, !.device = d]
      BY <1>7, <2>4 DEF SendLocally, Goes, Typed
    <3>2. call'[m].pc = "refused"
      BY <3>1 DEF NoCall
    <3> QED
      BY <2>1, <2>2, <3>1, <3>2, InPlaceAfter DEF Unaired
  <2> QED
    BY <1>7, <2>3, <2>4 DEF SendLocally
<1>8. ASSUME NEW m \in Msg, call[m].pc # "sent", NEW c, Goes(m, c), c.pc # "sent", UNCHANGED <<net, aired>>
      PROVE  InPlaceInv'
  <2>1. NoneOf(net, m) /\ Unaired(m) /\ call'[m] = c /\ \A o \in Msg : o # m => call'[o] = call[o]
    BY <1>8 DEF InPlaceInv, UnsentQuiet, Goes, Typed
  <2>2. \A q : InPlace(net', m, q)
    BY <1>8, <2>1 DEF InPlace, NoneOf, Hits
  <2> QED
    BY <1>8, <2>1, <2>2, InPlaceAfter DEF Unaired
<1>9. ASSUME NEW p \in Peer, NEW m \in Msg, NEW e \in table[p], AskStream(p, m, e) PROVE InPlaceInv'
  BY <1>8, <1>9 DEF AskStream
<1>10. ASSUME NEW m \in Msg, AskOriginal(m) PROVE InPlaceInv'
  <2>1. call[m] \in Begun /\ call[m].pc = "asked"
    BY <1>10, CallsBegun DEF AskOriginal
  <2>2. PICK t : Goes(m, [call[m] EXCEPT !.pc = "ready", !.target = t])
    BY <1>10 DEF AskOriginal
  <2>3. [call[m] EXCEPT !.pc = "ready", !.target = t].pc = "ready"
    BY <2>1 DEF Begun
  <2> QED
    BY <1>8, <1>10, <2>1, <2>2, <2>3 DEF AskOriginal
<1>11. ASSUME NEW m \in Msg, SendText(m) PROVE InPlaceInv'
  <2>1. call[m] \in Begun /\ call[m].pc = "ready" /\ VirtualCall(call[m])
    BY <1>11, CallsBegun DEF SendText, Known, CallsKnow, LocalCall
  <2>2. PICK w \in Channel : \E d \in MayList(w[1]) :
           /\ w[2] = call[m].by /\ call[m].source = Label(w)
           /\ call[m].device = <<"virtual", call[m].source, d>>
           /\ ~ call[m].traced /\ call[m].target \in {d, Nothing}
    BY <2>1 DEF VirtualCall
  <2>3. PICK d \in MayList(w[1]) :
           /\ w[2] = call[m].by /\ call[m].source = Label(w)
           /\ call[m].device = <<"virtual", call[m].source, d>>
           /\ ~ call[m].traced /\ call[m].target \in {d, Nothing}
    BY <2>2
  <2> QED
    BY <1>11, <2>1, <2>3, RouteInPlace DEF SendText
<1>12. ASSUME NEW p \in Peer, NEW m \in Msg, NEW e \in table[p], SendTraceroute(p, m, e) PROVE InPlaceInv'
  <2> DEFINE c == [pc |-> "ready", traced |-> TRUE, by |-> p, device |-> Id(e),
                   source |-> e.source, target |-> Id(e)]
  <2>1. c \in Begun /\ c.by = p /\ c.traced /\ c.device = Id(e) /\ c.source = e.source /\ c.target = Id(e)
    BY IdTypes DEF Begun
  <2>2. PICK w \in Channel : w[2] = p /\ e.source = Label(w) /\ e.original \in MayList(w[1])
    BY DEF Known, EntriesKnow, EntryKnows
  <2>3. Id(e) = <<"virtual", e.source, e.original>>
    BY IdTypes
  <2>4. call[m].pc # "sent" /\ Route(c.by, m, c) /\ UNCHANGED aired
    BY <1>12 DEF SendTraceroute
  <2> HIDE DEF c
  <2> QED
    BY <2>1, <2>2, <2>3, <2>4, RouteInPlace
<1>13. CASE UNCHANGED <<net, call, aired>>
  BY <1>13, InPlaceAfterLoss
<1>14. ASSUME NEW p \in Peer, NEW d \in Device,
              LearnNumber(p, d) \/ Lose(p, d) \/ Reconnect(p, d) \/ Detach(p, d) \/ Attach(p, d)
       PROVE  InPlaceInv'
  <2>1. UNCHANGED net \/ net' = Without(SessionsOf(p, d))
    BY <1>14 DEF LearnNumber, Lose, Reconnect, Detach, Attach
  <2>2. UNCHANGED <<call, aired>>
    BY <1>14 DEF LearnNumber, Lose, Reconnect, Detach, Attach
  <2>3. CASE net' = Without(SessionsOf(p, d))
    BY <2>2, <2>3, WithoutElements, InPlaceAfterLoss
  <2> QED
    BY <1>13, <2>1, <2>2, <2>3
<1>15. ASSUME NEW p \in Peer, NEW t \in Syncer, Snapshot(p, t) PROVE UNCHANGED <<net, call, aired>>
  BY <1>15 DEF Snapshot
<1>16. ASSUME NEW t \in Syncer, NEW d \in Device, LookUp(t, d) PROVE UNCHANGED <<net, call, aired>>
  BY <1>16 DEF LookUp
<1>17. CASE UNCHANGED vars
  BY <1>13, <1>17 DEF vars
<1> QED
  BY <1>1, <1>3, <1>5, <1>6, <1>7, <1>9, <1>10, <1>11, <1>12, <1>13, <1>14, <1>15, <1>16, <1>17
  DEF Next, Handle, Sync, Sending

-----------------------------------------------------------------------------
(* No packet is transmitted twice in one place *)

\* A packet can come out in a place once: it has, or one payload on its way may
\* bring it there.
Unhit(n, m, x) == \A e \in Channel : \A i \in DOMAIN n[e] : ~ Hits(e, n[e][i], m, x)
OneHit(n, m, x) ==
    \A e, f \in Channel : \A i \in DOMAIN n[e] : \A j \in DOMAIN n[f] :
        Hits(e, n[e][i], m, x) /\ Hits(f, n[f][j], m, x) => e = f /\ i = j
OnceAt(n, a, m, x) == a[m][x] \in {0, 1} /\ OneHit(n, m, x) /\ (a[m][x] = 1 => Unhit(n, m, x))
Once == \A m \in Msg : \A x \in Place : OnceAt(net, aired, m, x)

LEMMA InitOnce == Init => Once
<1> SUFFICES ASSUME Init PROVE Once
  OBVIOUS
<1>1. \A e \in Channel : DOMAIN net[e] = {}
  BY DEF Init
<1>2. \A m \in Msg, x \in Place : aired[m][x] = 0
  BY DEF Init
<1> QED
  BY <1>1, <1>2 DEF Once, OnceAt, OneHit, Unhit

\* What leads over two streams of one instance has nothing in common.
LEMMA WaysApart ==
    ASSUME OneWay, NEW p \in Peer, NEW q \in Servers(p)
    PROVE  /\ p \notin Above(q)
           /\ \A r \in Servers(p) : q # r => Above(q) \cap Above(r) = {}
<1>1. <<p, q>> \in Session
  BY Ways
<1>2. p \notin Above(q)
  BY <1>1 DEF OneWay
<1>3. ASSUME NEW r \in Servers(p), q # r PROVE Above(q) \cap Above(r) = {}
  <2>1. <<p, r>> \in Session /\ <<p, q>> # <<p, r>>
    BY <1>3, Ways
  <2>2. <<p, q>>[1] = <<p, r>>[1] /\ <<p, q>>[2] = q /\ <<p, r>>[2] = r
    OBVIOUS
  <2> QED
    BY <1>1, <2>1, <2>2 DEF OneWay
<1> QED
  BY <1>2, <1>3

\* Reading the payload that may bring a packet to x leaves none that could.
LEMMA ReadOnce ==
    ASSUME Typed, NEW c \in Channel, net[c] # <<>>, NEW m \in Msg, NEW x \in Place,
           OnceAt(net, aired, m, x)
    PROVE  /\ OnceAt(Read(c), aired, m, x)
           /\ Hits(c, Head(net[c]), m, x) => aired[m][x] = 0 /\ Unhit(Read(c), m, x)
<1>1. ASSUME NEW e \in Channel, NEW i \in DOMAIN Read(c)[e]
      PROVE  \/ e = c /\ i \in Nat \ {0} /\ i + 1 \in DOMAIN net[c] /\ Read(c)[e][i] = net[c][i + 1]
             \/ e # c /\ i \in DOMAIN net[e] /\ Read(c)[e][i] = net[e][i]
  BY ReadElements
<1>2. Unhit(net, m, x) => Unhit(Read(c), m, x)
  BY <1>1 DEF Unhit
<1>3. OneHit(Read(c), m, x)
  <2> SUFFICES ASSUME NEW e \in Channel, NEW f \in Channel, NEW i \in DOMAIN Read(c)[e],
                      NEW j \in DOMAIN Read(c)[f],
                      Hits(e, Read(c)[e][i], m, x), Hits(f, Read(c)[f][j], m, x)
               PROVE  e = f /\ i = j
    BY DEF OneHit
  <2>1. PICK k \in DOMAIN net[e] : Read(c)[e][i] = net[e][k] /\ ((e = c /\ i \in Nat /\ k = i + 1) \/ (e # c /\ k = i))
    BY <1>1
  <2>2. PICK l \in DOMAIN net[f] : Read(c)[f][j] = net[f][l] /\ ((f = c /\ j \in Nat /\ l = j + 1) \/ (f # c /\ l = j))
    BY <1>1
  <2>3. e = f /\ k = l
    BY <2>1, <2>2 DEF OnceAt, OneHit
  <2> QED
    BY <2>1, <2>2, <2>3
<1>4. ASSUME Hits(c, Head(net[c]), m, x) PROVE aired[m][x] = 0 /\ Unhit(Read(c), m, x)
  <2>1. Head(net[c]) = net[c][1] /\ 1 \in DOMAIN net[c]
    BY ReadPayload
  <2>2. aired[m][x] = 0
    BY <1>4, <2>1 DEF OnceAt, Unhit
  <2>3. ASSUME NEW e \in Channel, NEW i \in DOMAIN Read(c)[e], Hits(e, Read(c)[e][i], m, x)
        PROVE  FALSE
    <3>1. CASE e = c /\ i \in Nat \ {0} /\ i + 1 \in DOMAIN net[c] /\ Read(c)[e][i] = net[c][i + 1]
      <4>1. i + 1 = 1
        BY <1>4, <2>1, <2>3, <3>1 DEF OnceAt, OneHit
      <4> QED
        BY <3>1, <4>1
    <3>2. CASE e # c /\ i \in DOMAIN net[e] /\ Read(c)[e][i] = net[e][i]
      BY <1>4, <2>1, <2>3, <3>2 DEF OnceAt, OneHit
    <3> QED
      BY <1>1, <3>1, <3>2
  <2> QED
    BY <2>2, <2>3 DEF Unhit
<1> QED
  BY <1>2, <1>3, <1>4 DEF OnceAt

\* Writing a packet to devices that no payload on its way leads to.
LEMMA WriteOnce ==
    ASSUME Typed, OneWay, NEW n \in [Channel -> Seq(Payloads)], NEW p \in Peer, NEW S, NEW m \in Msg,
           Write(n, p, S, m), NEW o \in Msg, NEW x \in Place,
           OnceAt(n, aired, o, x),
           o = m /\ x \in Exits(p, S) => aired[o][x] = 0 /\ Unhit(n, o, x)
    PROVE  OnceAt(net', aired', o, x)
<1>1. ASSUME NEW e \in Channel, NEW i \in DOMAIN net'[e]
      PROVE  \/ i \in DOMAIN n[e] /\ net'[e][i] = n[e][i]
             \/ i = Len(n[e]) + 1 /\ net'[e][i] = Frame(m) /\ e[1] = p /\ e \in up /\ Stream(e[2]) \in S
  BY WriteElements
<1>2. aired'[o][x] = IF o = m /\ x[1] = p /\ x[2] \in working[p] /\ Local(x[2]) \in S
                     THEN aired[o][x] + 1 ELSE aired[o][x]
  BY WriteAirs
<1>3. Frame(m).msg = m
  BY DEF Frame
<1>4. ASSUME NEW e \in Channel, e \in up, e[1] = p, Stream(e[2]) \in S, Hits(e, Frame(m), o, x)
      PROVE  o = m /\ x \in Exits(p, S) /\ e[2] \in Servers(p) /\ x[1] \in Above(e[2])
  <2>1. o = m /\ x \in Reach(e, Frame(m)) /\ e[2] \in Servers(p)
    BY <1>3, <1>4, Ways DEF Hits, Typed
  <2>2. x[1] \in Above(e[2])
    BY <2>1, ReachOf
  <2> QED
    BY <1>4, <2>1, <2>2 DEF Exits
<1>5. ASSUME NEW e \in Channel, NEW i \in DOMAIN net'[e], Hits(e, net'[e][i], o, x)
      PROVE  \/ i \in DOMAIN n[e] /\ Hits(e, n[e][i], o, x)
             \/ /\ i = Len(n[e]) + 1 /\ e[1] = p /\ e[2] \in Servers(p) /\ x[1] \in Above(e[2])
                /\ o = m /\ x \in Exits(p, S)
  BY <1>1, <1>4, <1>5
<1>6. CASE o = m /\ x \in Exits(p, S)
  <2>1. aired[o][x] = 0 /\ Unhit(n, o, x)
    BY <1>6
  <2>2. ASSUME NEW e \in Channel, NEW i \in DOMAIN net'[e], Hits(e, net'[e][i], o, x)
        PROVE  i = Len(n[e]) + 1 /\ e[1] = p /\ e[2] \in Servers(p) /\ x[1] \in Above(e[2])
    BY <1>5, <2>1, <2>2 DEF Unhit
  <2>3. OneHit(net', o, x)
    <3> SUFFICES ASSUME NEW e \in Channel, NEW f \in Channel, NEW i \in DOMAIN net'[e],
                        NEW j \in DOMAIN net'[f],
                        Hits(e, net'[e][i], o, x), Hits(f, net'[f][j], o, x)
                 PROVE  e = f /\ i = j
      BY DEF OneHit
    <3>1. e[2] = f[2]
      BY <2>2, WaysApart
    <3>2. e = f
      BY <2>2, <3>1, Ways
    <3> QED
      BY <2>2, <3>2
  <2>4. CASE x[1] = p /\ x[2] \in working[p] /\ Local(x[2]) \in S
    <3>1. aired'[o][x] = 1
      BY <1>2, <1>6, <2>1, <2>4
    <3>2. Unhit(net', o, x)
      BY <2>2, <2>4, WaysApart DEF Unhit
    <3> QED
      BY <2>3, <3>1, <3>2 DEF OnceAt
  <2>5. CASE ~ (x[1] = p /\ x[2] \in working[p] /\ Local(x[2]) \in S)
    BY <1>2, <2>1, <2>3, <2>5 DEF OnceAt
  <2> QED
    BY <2>4, <2>5
<1>7. CASE ~ (o = m /\ x \in Exits(p, S))
  <2>1. aired'[o][x] = aired[o][x]
    BY <1>2, <1>7 DEF Exits
  <2>2. ASSUME NEW e \in Channel, NEW i \in DOMAIN net'[e], Hits(e, net'[e][i], o, x)
        PROVE  i \in DOMAIN n[e] /\ Hits(e, n[e][i], o, x)
    BY <1>5, <1>7, <2>2
  <2>3. OneHit(net', o, x)
    BY <2>2 DEF OneHit, OnceAt
  <2>4. Unhit(n, o, x) => Unhit(net', o, x)
    BY <2>2 DEF Unhit
  <2> QED
    BY <2>1, <2>3, <2>4 DEF OnceAt
<1> QED
  BY <1>6, <1>7

LEMMA SessionsAreWays ==
    ASSUME NEW p \in Peer, NEW q \in Neighbours(p)
    PROVE  q \in Peer /\ q # p /\ (q \in Servers(p) \/ p \in Servers(q))
<1>1. <<p, q>> \in Channel /\ q \in Peer
  BY DEF Neighbours
<1>2. <<p, q>> \in Session \/ <<q, p>> \in Session
  BY <1>1, Ways DEF Channel
<1>3. ASSUME <<p, q>> \in Session \/ <<q, p>> \in Session PROVE q # p
  <2>1. <<p, q>>[1] = p /\ <<p, q>>[2] = q /\ <<q, p>>[1] = q /\ <<q, p>>[2] = p
    OBVIOUS
  <2> QED
    BY <1>3, <2>1, VirtualAssumption DEF VirtualAssumption
<1> QED
  BY <1>1, <1>2, <1>3 DEF Servers

\* Where p is a client of h, a device of h is no device of another neighbour
\* of p that leads to the same radios.
LEMMA ExitsApart ==
    ASSUME OneWay, NEW p \in Peer, NEW h \in Servers(p), NEW d \in MayList(h),
           NEW q \in Neighbours(p), NEW r \in Neighbours(p), q # r
    PROVE  Exits(q, {d}) \cap Exits(r, {d}) = {}
<1>1. h \in Peer /\ q \in Peer /\ r \in Peer
  BY Ways, SessionsAreWays
<1>2. CASE \E b \in Radio : d = Local(b)
  <2>1. \A x \in Exits(q, {d}) : x[1] = q
    BY <1>2, DeviceIds DEF Exits
  <2>2. \A x \in Exits(r, {d}) : x[1] = r
    BY <1>2, DeviceIds DEF Exits
  <2> QED
    BY <2>1, <2>2
<1>3. CASE \E s \in Servers(h) : d = Stream(s)
  <2>1. PICK s \in Servers(h) : d = Stream(s)
    BY <1>3
  <2>2. \A k : Exits(k, {d}) # {} => s \in Servers(k)
    BY <2>1, DeviceIds DEF Exits
  <2>3. s \in Above(s) /\ s \in Above(h) /\ h \in Above(h)
    BY <1>1, AboveSelf, AboveServer, Ways
  <2>4. ASSUME NEW k \in Neighbours(p), k # h, s \in Servers(k) PROVE FALSE
    <3>1. k \in Peer /\ s \in Above(k)
      BY <2>3, <2>4, AboveServer, SessionsAreWays
    <3>2. CASE k \in Servers(p)
      BY <2>3, <2>4, <3>1, <3>2, WaysApart
    <3>3. CASE p \in Servers(k)
      <4>1. s \in Above(p)
        BY <2>3, AboveServer
      <4>2. p # s
        BY <2>3, WaysApart
      <4> QED
        BY <2>3, <2>4, <3>1, <3>3, <4>1, <4>2, WaysApart
    <3> QED
      BY <3>2, <3>3, SessionsAreWays
  <2> QED
    BY <2>2, <2>4
<1> QED
  BY <1>1, <1>2, <1>3, VirtualAssumption DEF VirtualAssumption, MayList

\* A packet goes out to all neighbours, for one device.
LEMMA RouteOnce ==
    ASSUME Typed, NEW m \in Msg, NoneOf(net, m), Unaired(m), NEW p \in Peer, NEW t,
           net' = Broadcast(net, p, [type |-> "raw", target |-> t, msg |-> m]), UNCHANGED aired,
           \A q, r \in Neighbours(p) : q # r => Exits(q, {t}) \cap Exits(r, {t}) = {},
           NEW o \in Msg, NEW x \in Place, OnceAt(net, aired, o, x)
    PROVE  OnceAt(net', aired', o, x)
<1> DEFINE pl == [type |-> "raw", target |-> t, msg |-> m]
<1>1. pl.msg = m /\ \A e : Reach(e, pl) = Exits(e[2], {t})
  BY ReachOf
<1>2. net' = Broadcast(net, p, pl) /\ net \in [Channel -> Seq(Payloads)]
  BY DEF Typed
<1> HIDE DEF pl
<1>3. ASSUME NEW e \in Channel, NEW i \in DOMAIN net'[e]
      PROVE  \/ i \in DOMAIN net[e] /\ net'[e][i] = net[e][i]
             \/ i = Len(net[e]) + 1 /\ net'[e][i] = pl /\ e[1] = p
  <2>1. net'[e] = IF e[1] = p /\ Alive(e) THEN Append(net[e], pl) ELSE net[e]
    BY <1>2 DEF Broadcast
  <2>2. net[e] \in Seq(Payloads)
    BY <1>2
  <2>3. CASE e[1] = p /\ Alive(e)
    <3>1. net'[e] = Append(net[e], pl) /\ i \in DOMAIN Append(net[e], pl)
      BY <2>1, <2>3
    <3>2. \/ i \in DOMAIN net[e] /\ Append(net[e], pl)[i] = net[e][i]
          \/ i = Len(net[e]) + 1 /\ Append(net[e], pl)[i] = pl
      BY <2>2, <3>1, AppendedElements
    <3> QED
      BY <2>3, <3>1, <3>2
  <2>4. CASE ~ (e[1] = p /\ Alive(e))
    BY <2>1, <2>4
  <2> QED
    BY <2>3, <2>4
<1>4. CASE o # m
  <2>1. ASSUME NEW e \in Channel, NEW i \in DOMAIN net'[e], Hits(e, net'[e][i], o, x)
        PROVE  i \in DOMAIN net[e] /\ Hits(e, net[e][i], o, x)
    BY <1>1, <1>3, <1>4, <2>1 DEF Hits
  <2>2. OneHit(net', o, x)
    BY <2>1 DEF OneHit, OnceAt
  <2>3. Unhit(net, o, x) => Unhit(net', o, x)
    BY <2>1 DEF Unhit
  <2> QED
    BY <2>2, <2>3 DEF OnceAt
<1>5. CASE o = m
  <2>1. ASSUME NEW e \in Channel, NEW i \in DOMAIN net'[e], Hits(e, net'[e][i], o, x)
        PROVE  i = Len(net[e]) + 1 /\ e[1] = p /\ e[2] \in Neighbours(p) /\ x \in Exits(e[2], {t})
    <3>1. net'[e][i] = pl /\ i = Len(net[e]) + 1 /\ e[1] = p
      BY <1>3, <1>5, <2>1 DEF Hits, NoneOf
    <3> QED
      BY <1>1, <2>1, <3>1, Ways DEF Hits
  <2>2. OneHit(net', o, x)
    <3> SUFFICES ASSUME NEW e \in Channel, NEW f \in Channel, NEW i \in DOMAIN net'[e],
                        NEW j \in DOMAIN net'[f],
                        Hits(e, net'[e][i], o, x), Hits(f, net'[f][j], o, x)
                 PROVE  e = f /\ i = j
      BY DEF OneHit
    <3>1. e[2] = f[2] /\ e[1] = f[1]
      BY <2>1
    <3>2. e = f
      BY <3>1, Ways
    <3> QED
      BY <2>1, <3>2
  <2>3. aired'[o][x] = 0
    BY <1>5 DEF Unaired
  <2> QED
    BY <2>2, <2>3 DEF OnceAt
<1> QED
  BY <1>4, <1>5

\* The source of the virtual device is a stream of p; its device is one of the
\* server behind it.
LEMMA RouteApart ==
    ASSUME OneWay, Attached, NEW c \in Begun, NEW w \in Channel, NEW d \in MayList(w[1]),
           w[2] = c.by, c.source = Label(w), c.device = <<"virtual", c.source, d>>,
           c.traced => c.target = c.device,
           ~ c.traced => c.target \in {d, Nothing},
           c.source \in listed[c.by],
           NEW q \in Neighbours(c.by), NEW r \in Neighbours(c.by), q # r
    PROVE  Exits(q, {c.target}) \cap Exits(r, {c.target}) = {}
<1>1. CASE c.target # d
  BY <1>1, NoExits
<1>2. CASE c.target = d
  <2>1. c.by \in Peer /\ Label(w) \in MayList(c.by)
    BY DEF Begun, Attached
  <2>2. \A b : Label(w) # Local(b)
    BY DEF Label, Local, Stream
  <2>3. PICK h \in Servers(c.by) : Label(w) = Stream(h)
    BY <2>1, <2>2 DEF MayList
  <2>4. w[1] = h
    BY <2>3, StreamLabels
  <2> QED
    BY <1>2, <2>1, <2>3, <2>4, ExitsApart
<1> QED
  BY <1>1, <1>2

LEMMA OnceAfterRoute ==
    ASSUME Typed, OneWay, Attached, InPlaceInv, Once, NEW m \in Msg, NEW c \in Begun,
           NEW w \in Channel, NEW d \in MayList(w[1]),
           w[2] = c.by, c.source = Label(w), c.device = <<"virtual", c.source, d>>,
           c.traced => c.target = c.device,
           ~ c.traced => c.target \in {d, Nothing},
           call[m].pc # "sent", Route(c.by, m, c), UNCHANGED aired
    PROVE  Once'
<1>1. CASE net' = net
  BY <1>1 DEF Once, OnceAt, OneHit, Unhit
<1>2. CASE net' # net
  <2>1. /\ c.source \in listed[c.by]
        /\ net' = Broadcast(net, c.by, [type |-> "raw", target |-> c.target, msg |-> m])
    BY <1>2 DEF Route
  <2>2. \A q, r \in Neighbours(c.by) : q # r => Exits(q, {c.target}) \cap Exits(r, {c.target}) = {}
    BY <2>1, RouteApart
  <2>3. NoneOf(net, m) /\ Unaired(m) /\ c.by \in Peer
    BY DEF InPlaceInv, UnsentQuiet, Begun
  <2>4. ASSUME NEW o \in Msg, NEW x \in Place PROVE OnceAt(net', aired', o, x)
    BY <2>1, <2>2, <2>3, RouteOnce DEF Once
  <2> QED
    BY <2>4 DEF Once, OnceAt, OneHit, Unhit
<1> QED
  BY <1>1, <1>2

LEMMA OnceAfterLoss ==
    ASSUME Once, UNCHANGED aired,
           \A e \in Channel : \A i \in DOMAIN net'[e] :
               net'[e][i].type = "devices" \/ (i \in DOMAIN net[e] /\ net'[e][i] = net[e][i])
    PROVE  Once'
<1>1. ASSUME NEW m \in Msg, NEW x \in Place PROVE OnceAt(net', aired', m, x)
  <2>1. ASSUME NEW e \in Channel, NEW i \in DOMAIN net'[e], Hits(e, net'[e][i], m, x)
        PROVE  i \in DOMAIN net[e] /\ Hits(e, net[e][i], m, x)
    BY <2>1 DEF Hits
  <2>2. OnceAt(net, aired, m, x)
    BY DEF Once
  <2>3. OneHit(net', m, x)
    BY <2>1, <2>2 DEF OnceAt, OneHit
  <2>4. Unhit(net, m, x) => Unhit(net', m, x)
    BY <2>1 DEF Unhit
  <2> QED
    BY <2>2, <2>3, <2>4 DEF OnceAt
<1> QED
  BY <1>1 DEF Once, OnceAt, OneHit, Unhit

LEMMA StepOnce ==
    OneWay /\ Typed /\ Attached /\ Known /\ InPlaceInv /\ Once /\ [Next]_vars => Once'
<1> SUFFICES ASSUME OneWay, Typed, Attached, Known, InPlaceInv, Once, [Next]_vars PROVE Once'
  OBVIOUS
<1>0. net \in [Channel -> Seq(Payloads)]
  BY DEF Typed
<1>1. ASSUME NEW t \in Syncer, Publish(t) PROVE Once'
  <2> DEFINE pl == [type |-> "devices", list |-> task[t].list]
  <2>1. net' \in {net, Broadcast(net, task[t].by, pl)} /\ pl.type = "devices"
    BY <1>1 DEF Publish
  <2> HIDE DEF pl
  <2>2. ASSUME NEW e \in Channel, NEW i \in DOMAIN net'[e]
        PROVE  net'[e][i].type = "devices" \/ (i \in DOMAIN net[e] /\ net'[e][i] = net[e][i])
    <3>1. CASE net' = net
      BY <3>1
    <3>2. CASE net' = Broadcast(net, task[t].by, pl)
      BY <1>0, <2>1, <3>2, BroadcastElements
    <3> QED
      BY <2>1, <3>1, <3>2
  <2> QED
    BY <1>1, <2>2, OnceAfterLoss DEF Publish
<1>2. ASSUME NEW c \in Channel, net[c] # <<>>, NEW m \in Msg, NEW x \in Place
      PROVE  /\ OnceAt(Read(c), aired, m, x)
             /\ Hits(c, Head(net[c]), m, x) => aired[m][x] = 0 /\ Unhit(Read(c), m, x)
  BY <1>2, ReadOnce DEF Once
<1>3. ASSUME NEW c \in Channel, HandleDevices(c) PROVE Once'
  <2>1. net[c] # <<>> /\ net' = Read(c) /\ aired' = aired
    BY <1>3 DEF HandleDevices, Arrived
  <2>2. ASSUME NEW m \in Msg, NEW x \in Place PROVE OnceAt(net', aired', m, x)
    BY <1>2, <2>1
  <2> QED
    BY <2>2 DEF Once, OnceAt, OneHit, Unhit
<1>4. ASSUME NEW c \in Channel, net[c] # <<>>, Head(net[c]).type # "devices", NEW S,
             Write(Read(c), c[2], S, Head(net[c]).msg),
             Exits(c[2], S) \subseteq Reach(c, Head(net[c]))
      PROVE  Once'
  <2>0. PICK m \in Msg : Head(net[c]).msg = m
    BY <1>4, ReadPayload
  <2>1. Read(c) \in [Channel -> Seq(Payloads)] /\ c[2] \in Peer
    BY <1>4, ReadTypes, Ways
  <2>2. ASSUME NEW o \in Msg, NEW x \in Place PROVE OnceAt(net', aired', o, x)
    <3>1. OnceAt(Read(c), aired, o, x)
      BY <1>2, <1>4
    <3>2. o = m /\ x \in Exits(c[2], S) => aired[o][x] = 0 /\ Unhit(Read(c), o, x)
      BY <1>2, <1>4, <2>0 DEF Hits
    <3> QED
      BY <1>4, <2>0, <2>1, <3>1, <3>2, WriteOnce
  <2> QED
    BY <2>2 DEF Once, OnceAt, OneHit, Unhit
<1>5. ASSUME NEW c \in Channel, HandleRaw(c) PROVE Once'
  <2>1. net[c] # <<>> /\ Head(net[c]).type = "raw"
    BY <1>5 DEF HandleRaw, Arrived
  <2>2. Exits(c[2], {Head(net[c]).target} \cap listed[c[2]]) \subseteq Reach(c, Head(net[c]))
    <3>1. Exits(c[2], {Head(net[c]).target} \cap listed[c[2]]) \subseteq Exits(c[2], {Head(net[c]).target})
      BY DEF Exits
    <3> QED
      BY <2>1, <3>1, ReachOf
  <2> QED
    BY <1>4, <1>5, <2>1, <2>2 DEF HandleRaw
<1>6. ASSUME NEW c \in Channel, HandleFrame(c) PROVE Once'
  <2>1. net[c] # <<>> /\ Head(net[c]).type = "frame"
    BY <1>6 DEF HandleFrame, Arrived
  <2>2. Exits(c[2], listed[c[2]]) \subseteq Reach(c, Head(net[c]))
    BY <2>1, ReachOf, ExitsAreAbove, Ways
  <2> QED
    BY <1>4, <1>6, <2>1, <2>2 DEF HandleFrame
<1>7. CASE UNCHANGED <<net, aired>>
  BY <1>7 DEF Once, OnceAt, OneHit, Unhit
<1>8. ASSUME NEW p \in Peer, NEW m \in Msg, NEW d \in Device, SendLocally(p, m, d) PROVE Once'
  <2>1. NoneOf(net, m) /\ Unaired(m)
    BY <1>8 DEF SendLocally, InPlaceInv, UnsentQuiet
  <2>2. \A x \in Place : aired[m][x] = 0 /\ Unhit(net, m, x)
    BY <2>1 DEF Unaired, Unhit, NoneOf, Hits
  <2>3. CASE Write(net, p, {d}, m) /\ Goes(m, [NoCall EXCEPT !.pc = "sent", !.by = p, !.device = d])
    <3> DEFINE S == {d}
    <3>1. Write(net, p, S, m)
      BY <1>8, <2>3 DEF SendLocally
    <3> HIDE DEF S
    <3>2. ASSUME NEW o \in Msg, NEW x \in Place PROVE OnceAt(net', aired', o, x)
      BY <1>0, <2>2, <3>1, WriteOnce DEF Once
    <3> QED
      BY <3>2 DEF Once, OnceAt, OneHit, Unhit
  <2>4. CASE UNCHANGED <<net, aired>> /\ Goes(m, [NoCall EXCEPT !.pc = "refused", !.by = p, !.device = d])
    BY <1>7, <1>8, <2>4 DEF SendLocally
  <2> QED
    BY <1>8, <2>3, <2>4 DEF SendLocally
<1>9. ASSUME NEW m \in Msg, SendText(m) PROVE Once'
  <2>1. call[m] \in Begun /\ call[m].pc = "ready" /\ VirtualCall(call[m])
    BY <1>9, CallsBegun DEF SendText, Known, CallsKnow, LocalCall
  <2>2. PICK w \in Channel : \E d \in MayList(w[1]) :
           /\ w[2] = call[m].by /\ call[m].source = Label(w)
           /\ call[m].device = <<"virtual", call[m].source, d>>
           /\ ~ call[m].traced /\ call[m].target \in {d, Nothing}
    BY <2>1 DEF VirtualCall
  <2>3. PICK d \in MayList(w[1]) :
           /\ w[2] = call[m].by /\ call[m].source = Label(w)
           /\ call[m].device = <<"virtual", call[m].source, d>>
           /\ ~ call[m].traced /\ call[m].target \in {d, Nothing}
    BY <2>2
  <2> QED
    BY <1>9, <2>1, <2>3, OnceAfterRoute DEF SendText
<1>10. ASSUME NEW p \in Peer, NEW m \in Msg, NEW e \in table[p], SendTraceroute(p, m, e) PROVE Once'
  <2> DEFINE c == [pc |-> "ready", traced |-> TRUE, by |-> p, device |-> Id(e),
                   source |-> e.source, target |-> Id(e)]
  <2>1. c \in Begun /\ c.by = p /\ c.traced /\ c.device = Id(e) /\ c.source = e.source /\ c.target = Id(e)
    BY IdTypes DEF Begun
  <2>2. PICK w \in Channel : w[2] = p /\ e.source = Label(w) /\ e.original \in MayList(w[1])
    BY DEF Known, EntriesKnow, EntryKnows
  <2>3. Id(e) = <<"virtual", e.source, e.original>>
    BY IdTypes
  <2>4. call[m].pc # "sent" /\ Route(c.by, m, c) /\ UNCHANGED aired
    BY <1>10 DEF SendTraceroute
  <2> HIDE DEF c
  <2> QED
    BY <2>1, <2>2, <2>3, <2>4, OnceAfterRoute
<1>11. ASSUME NEW p \in Peer, NEW d \in Device,
              LearnNumber(p, d) \/ Lose(p, d) \/ Reconnect(p, d) \/ Detach(p, d) \/ Attach(p, d)
       PROVE  Once'
  <2>1. UNCHANGED net \/ net' = Without(SessionsOf(p, d))
    BY <1>11 DEF LearnNumber, Lose, Reconnect, Detach, Attach
  <2>2. UNCHANGED aired
    BY <1>11 DEF LearnNumber, Lose, Reconnect, Detach, Attach
  <2>3. CASE net' = Without(SessionsOf(p, d))
    BY <2>2, <2>3, WithoutElements, OnceAfterLoss
  <2> QED
    BY <1>7, <2>1, <2>2, <2>3
<1>12. ASSUME NEW p \in Peer, NEW t \in Syncer, Snapshot(p, t) PROVE UNCHANGED <<net, aired>>
  BY <1>12 DEF Snapshot
<1>13. ASSUME NEW t \in Syncer, NEW d \in Device, LookUp(t, d) PROVE UNCHANGED <<net, aired>>
  BY <1>13 DEF LookUp
<1>14. ASSUME NEW m \in Msg, AskOriginal(m) PROVE UNCHANGED <<net, aired>>
  BY <1>14 DEF AskOriginal
<1>15. ASSUME NEW p \in Peer, NEW m \in Msg, NEW e \in table[p], AskStream(p, m, e)
       PROVE  UNCHANGED <<net, aired>>
  BY <1>15 DEF AskStream
<1>16. CASE UNCHANGED vars
  BY <1>7, <1>16 DEF vars
<1> QED
  BY <1>1, <1>3, <1>5, <1>6, <1>7, <1>8, <1>9, <1>10, <1>11, <1>12, <1>13, <1>14, <1>15, <1>16
  DEF Next, Handle, Sync, Sending

-----------------------------------------------------------------------------
(* The bound of changes: what was lost comes back once, and a new runtime      *)
(* learns its number once.                                                     *)

\* The numbers a device may ever report.
Behind(p, d) ==
    {Number[p][r] : r \in {x \in Owns[p] : d = Local(x)}}
    \cup UNION {{Number[q][r] : r \in Owns[q]} :
                q \in {x \in Peer : \E s \in Session : s[1] = p /\ d = Stream(s[2]) /\ x \in Above(s[2])}}

Unknown(p, d) == Behind(p, d) # {} /\ (number[p][d] = 0 \/ d \notin listed[p])

\* What Reconnect, Attach and LearnNumber may still do without a fault before.
Debts ==
    {z \in (Peer \X Device) \X {1, 2} :
        /\ z[1][2] \in MayList(z[1][1])
        /\ z[2] = 1 => ~ Works(z[1][1], z[1][2])
        /\ z[2] = 2 => Unknown(z[1][1], z[1][2])}

ChangesBound ==
    Cardinality(Debts) <= 2 * changes /\ changes + Cardinality(Debts) <= 3 * MaxChanges

LEMMA DevicesAreFinite == IsFiniteSet(Device)
<1> DEFINE D == (Radio \X {1}) \cup (Peer \X {2})
           f == [z \in D |-> IF z[2] = 1 THEN Local(z[1]) ELSE Stream(z[1])]
<1>1. IsFiniteSet(D)
  <2>1. IsFiniteSet({1}) /\ IsFiniteSet({2}) /\ IsFiniteSet(Peer) /\ IsFiniteSet(Radio)
    BY FS_Singleton, VirtualAssumption DEF VirtualAssumption
  <2>2. IsFiniteSet(Radio \X {1}) /\ IsFiniteSet(Peer \X {2})
    BY <2>1, FS_Product
  <2> QED
    BY <2>2, FS_Union
<1>2. f \in Surjection(D, Device)
  <2>1. f \in [D -> Device]
    BY DEF Device
  <2>2. ASSUME NEW d \in Device PROVE \E z \in D : f[z] = d
    <3>1. CASE \E r \in Radio : d = Local(r)
      <4>1. PICK r \in Radio : d = Local(r)
        BY <3>1
      <4>2. <<r, 1>> \in D /\ f[<<r, 1>>] = d
        BY <4>1
      <4> QED
        BY <4>2
    <3>2. CASE \E q \in Peer : d = Stream(q)
      <4>1. PICK q \in Peer : d = Stream(q)
        BY <3>2
      <4>2. <<q, 2>> \in D /\ f[<<q, 2>>] = d
        BY <4>1
      <4> QED
        BY <4>2
    <3> QED
      BY <3>1, <3>2 DEF Device
  <2> QED
    BY <2>1, <2>2 DEF Surjection
<1> HIDE DEF D, f
<1> QED
  BY <1>1, <1>2, FS_Surjection

LEMMA DebtsAreFinite ==
    /\ IsFiniteSet(Debts) /\ Cardinality(Debts) \in Nat
    /\ IsFiniteSet(Debts') /\ Cardinality(Debts') \in Nat
<1>1. IsFiniteSet({1}) /\ IsFiniteSet({2}) /\ IsFiniteSet(Peer)
  BY FS_Singleton, VirtualAssumption DEF VirtualAssumption
<1>2. {1} \cup {2} = {1, 2}
  OBVIOUS
<1>3. IsFiniteSet({1, 2})
  BY <1>1, <1>2, FS_Union
<1>4. IsFiniteSet((Peer \X Device) \X {1, 2})
  BY <1>1, <1>3, DevicesAreFinite, FS_Product
<1>5. Debts \subseteq (Peer \X Device) \X {1, 2} /\ Debts' \subseteq (Peer \X Device) \X {1, 2}
  BY DEF Debts
<1> QED
  BY <1>4, <1>5, FS_Subset, FS_CardinalityType

Debt(p, d, k) == <<<<p, d>>, k>>

LEMMA DebtsAre ==
    ASSUME NEW p \in Peer, NEW d \in Device
    PROVE  /\ Debt(p, d, 1) \in Debts <=> d \in MayList(p) /\ ~ Works(p, d)
           /\ Debt(p, d, 2) \in Debts <=> d \in MayList(p) /\ Unknown(p, d)
           /\ Debt(p, d, 1) \in Debts' <=> d \in MayList(p) /\ ~ Works(p, d)'
           /\ Debt(p, d, 2) \in Debts' <=> d \in MayList(p) /\ Unknown(p, d)'
           /\ Debt(p, d, 1) # Debt(p, d, 2)
<1>1. \A k \in {1, 2} : Debt(p, d, k) \in (Peer \X Device) \X {1, 2}
  BY DEF Debt
<1>2. \A k : Debt(p, d, k)[1][1] = p /\ Debt(p, d, k)[1][2] = d /\ Debt(p, d, k)[2] = k
  BY DEF Debt
<1> QED
  BY <1>1, <1>2 DEF Debts

\* Debts are compared device by device.
LEMMA DebtsWithin ==
    ASSUME NEW X,
           \A p \in Peer, d \in Device : d \in MayList(p) =>
               /\ ~ Works(p, d)' => Debt(p, d, 1) \in X
               /\ Unknown(p, d)' => Debt(p, d, 2) \in X
    PROVE  Debts' \subseteq X
<1> SUFFICES ASSUME NEW z \in Debts' PROVE z \in X
  OBVIOUS
<1>1. PICK p \in Peer, d \in Device : z = Debt(p, d, 1) \/ z = Debt(p, d, 2)
  BY DEF Debts, Debt
<1> QED
  BY <1>1, DebtsAre

LEMMA NumbersAreBehind ==
    ASSUME Typed, Attached, NEW p \in Peer, NEW d PROVE Numbers(p, d) \subseteq Behind(p, d)
<1>1. working[p] \subseteq Owns[p] /\ \A q \in Peer : working[q] \subseteq Owns[q]
  BY DEF Attached
<1>2. up \subseteq Session
  BY DEF Typed
<1>3. ASSUME NEW r \in working[p], d = Local(r) PROVE Number[p][r] \in Behind(p, d)
  BY <1>1, <1>3 DEF Behind
<1>4. ASSUME NEW q \in Peer, NEW s \in up, s[1] = p, d = Stream(s[2]), q \in Above(s[2]), NEW r \in working[q]
      PROVE  Number[q][r] \in Behind(p, d)
  <2> DEFINE T == {Number[q][b] : b \in Owns[q]}
  <2>1. Number[q][r] \in T
    BY <1>1
  <2>2. q \in {x \in Peer : \E w \in Session : w[1] = p /\ d = Stream(w[2]) /\ x \in Above(w[2])}
    BY <1>2, <1>4
  <2> QED
    BY <2>1, <2>2 DEF Behind
<1> QED
  BY <1>3, <1>4 DEF Numbers

LEMMA InitChangesBound == Init => ChangesBound
<1> SUFFICES ASSUME Init PROVE ChangesBound
  OBVIOUS
<1>1. ASSUME NEW p \in Peer, NEW d \in MayList(p)
      PROVE  d \in Device /\ d \in listed[p] /\ Works(p, d)
  <2>1. listed[p] = {Local(b) : b \in Owns[p]} \cup {Stream(s[2]) : s \in {s \in Session : s[1] = p}}
    BY DEF Init
  <2>2. CASE \E b \in Owns[p] : d = Local(b)
    BY <2>1, <2>2, MayListIsDevices DEF Works, Init
  <2>3. CASE \E q \in Servers(p) : d = Stream(q)
    <3>1. PICK q \in Servers(p) : d = Stream(q)
      BY <2>3
    <3>2. <<p, q>> \in Session /\ <<p, q>>[1] = p /\ <<p, q>>[2] = q
      BY Ways
    <3>3. d \in listed[p]
      BY <2>1, <3>1, <3>2
    <3>4. Works(p, d)
      BY <3>1, <3>2 DEF Works, Init
    <3> QED
      BY <3>3, <3>4, MayListIsDevices
  <2> QED
    BY <2>2, <2>3 DEF MayList
<1>2. ASSUME NEW p \in Peer, NEW d \in MayList(p) PROVE ~ Unknown(p, d)
  <2>1. Numbers(p, d) = Behind(p, d)
    BY DEF Numbers, Behind, Init
  <2>2. number[p][d] = IF d \in listed[p] /\ Numbers(p, d) # {}
                       THEN CHOOSE n \in Numbers(p, d) : TRUE ELSE 0
    BY <1>1 DEF Init
  <2>3. CASE Numbers(p, d) # {}
    <3>1. number[p][d] \in Numbers(p, d)
      BY <1>1, <2>2, <2>3
    <3>2. 0 \notin Numbers(p, d)
      BY VirtualAssumption DEF VirtualAssumption, Numbers, Init
    <3> QED
      BY <1>1, <3>1, <3>2 DEF Unknown
  <2> QED
    BY <2>1, <2>3 DEF Unknown
<1>3. Debts = {}
  BY <1>1, <1>2 DEF Debts
<1>4. Cardinality(Debts) = 0 /\ changes = 0 /\ MaxChanges \in Nat
  BY <1>3, FS_EmptySet, VirtualAssumption DEF Init, VirtualAssumption
<1> QED
  BY <1>4 DEF ChangesBound

\* One debt less for a step that makes a change of its own.
LEMMA DebtPaid ==
    ASSUME ChangesBound, changes \in Nat, NEW z \in Debts, Debts' \subseteq Debts \ {z}, changes' = changes + 1
    PROVE  ChangesBound'
<1> DEFINE n == Cardinality(Debts)
           k == Cardinality(Debts')
<1>1. k <= Cardinality(Debts \ {z}) /\ Cardinality(Debts \ {z}) = n - 1 /\ n \in Nat /\ k \in Nat
  BY DebtsAreFinite, FS_RemoveElement, FS_Subset
<1>2. MaxChanges \in Nat
  BY VirtualAssumption DEF VirtualAssumption
<1>3. n <= 2 * changes /\ changes + n <= 3 * MaxChanges
  BY DEF ChangesBound
<1>4. k <= n - 1
  BY <1>1
<1> HIDE DEF n, k
<1>5. k <= 2 * (changes + 1) /\ changes + 1 + k <= 3 * MaxChanges
  BY <1>1, <1>2, <1>3, <1>4
<1> QED
  BY <1>5 DEF ChangesBound, k

\* A fault makes two debts at most.
LEMMA DebtsMade ==
    ASSUME ChangesBound, changes \in Nat, NEW y, NEW z, Debts' \subseteq (Debts \cup {y}) \cup {z},
           changes' = changes + 1, changes < MaxChanges
    PROVE  ChangesBound'
<1> DEFINE n == Cardinality(Debts)
           k == Cardinality(Debts')
           a == Cardinality(Debts \cup {y})
           b == Cardinality((Debts \cup {y}) \cup {z})
<1>1. IsFiniteSet(Debts) /\ IsFiniteSet(Debts') /\ n \in Nat /\ k \in Nat
  BY DebtsAreFinite
<1>2. IsFiniteSet(Debts \cup {y}) /\ (a = n \/ a = n + 1)
  BY <1>1, FS_AddElement
<1>3. IsFiniteSet((Debts \cup {y}) \cup {z}) /\ (b = a \/ b = a + 1)
  BY <1>2, FS_AddElement
<1>4. k <= b
  BY <1>3, FS_Subset
<1>5. MaxChanges \in Nat
  BY VirtualAssumption DEF VirtualAssumption
<1>6. n <= 2 * changes /\ changes + n <= 3 * MaxChanges
  BY DEF ChangesBound
<1> HIDE DEF n, k, a, b
<1>7. k <= n + 2
  BY <1>1, <1>2, <1>3, <1>4
<1>8. k <= 2 * (changes + 1) /\ changes + 1 + k <= 3 * MaxChanges
  BY <1>1, <1>5, <1>6, <1>7
<1> QED
  BY <1>8 DEF ChangesBound, k

LEMMA StepChangesBound ==
    Typed /\ Attached /\ Attached' /\ Typed' /\ ChangesBound /\ [Next]_vars => ChangesBound'
<1> SUFFICES ASSUME Typed, Attached, Attached', Typed', ChangesBound, [Next]_vars PROVE ChangesBound'
  OBVIOUS
<1>0. changes \in Nat /\ up \subseteq Session /\ up' \subseteq Session
  BY DEF Typed
<1>1. CASE UNCHANGED <<up, listed, working, number, changes>>
  <2>1. Debts' = Debts
    BY <1>1 DEF Debts, Works, Unknown
  <2> QED
    BY <1>1, <2>1 DEF ChangesBound
<1>2. ASSUME NEW p \in Peer, NEW d \in Device, LearnNumber(p, d) PROVE ChangesBound'
  <2>1. /\ changes' = changes + 1 /\ d \in listed[p] /\ UNCHANGED <<up, listed, working>>
        /\ number[p][d] = 0 \/ changes < MaxChanges
    BY <1>2 DEF LearnNumber, Change
  <2>2. PICK n \in Numbers(p, d) : number' = [number EXCEPT ![p][d] = n]
    BY <1>2 DEF LearnNumber
  <2>3. n # 0 /\ Behind(p, d) # {}
    <3>1. 0 \notin Numbers(p, d)
      BY VirtualAssumption DEF VirtualAssumption, Numbers, Typed
    <3> QED
      BY <2>2, <3>1, NumbersAreBehind
  <2>4. ASSUME NEW q \in Peer, NEW e \in Device
        PROVE  number'[q][e] = IF q = p /\ e = d THEN n ELSE number[q][e]
    BY <2>2 DEF Typed
  <2>5. ASSUME NEW q \in Peer, NEW e \in Device
        PROVE  /\ Works(q, e)' = Works(q, e)
               /\ Unknown(q, e)' => Unknown(q, e) /\ ~ (q = p /\ e = d)
    BY <2>1, <2>3, <2>4 DEF Works, Unknown
  <2>6. CASE number[p][d] = 0
    <3>1. d \in MayList(p) /\ Unknown(p, d)
      BY <2>1, <2>3, <2>6 DEF Attached, Unknown
    <3>2. Debt(p, d, 2) \in Debts
      BY <3>1, DebtsAre
    <3>3. Debts' \subseteq Debts \ {Debt(p, d, 2)}
      <4>1. ASSUME NEW q \in Peer, NEW e \in Device, e \in MayList(q)
            PROVE  /\ ~ Works(q, e)' => Debt(q, e, 1) \in Debts \ {Debt(p, d, 2)}
                   /\ Unknown(q, e)' => Debt(q, e, 2) \in Debts \ {Debt(p, d, 2)}
        <5>1. Debt(q, e, 1) # Debt(p, d, 2) /\ (Debt(q, e, 2) = Debt(p, d, 2) => q = p /\ e = d)
          BY DEF Debt
        <5> QED
          BY <2>5, <4>1, <5>1, DebtsAre
      <4> QED
        BY <4>1, DebtsWithin
    <3> QED
      BY <1>0, <2>1, <3>2, <3>3, DebtPaid
  <2>7. CASE number[p][d] # 0
    <3>1. Debts' \subseteq (Debts \cup {0}) \cup {0}
      <4>1. \A q \in Peer, e \in Device : e \in MayList(q) =>
               /\ ~ Works(q, e)' => Debt(q, e, 1) \in Debts
               /\ Unknown(q, e)' => Debt(q, e, 2) \in Debts
        BY <2>5, DebtsAre
      <4>2. Debts' \subseteq Debts
        BY <4>1, DebtsWithin
      <4> QED
        BY <4>2
    <3> QED
      BY <1>0, <2>1, <2>7, <3>1, DebtsMade
  <2> QED
    BY <2>6, <2>7
<1>3. ASSUME NEW p \in Peer, NEW d \in Device,
             working' = [working EXCEPT ![p] = {r \in @ : Local(r) # d}],
             up' = up \ SessionsOf(p, d), NEW q \in Peer, NEW e \in Device
      PROVE  ~ Works(q, e)' => ~ Works(q, e) \/ (q = p /\ e = d)
  <2> SUFFICES ASSUME Works(q, e), ~ (q = p /\ e = d) PROVE Works(q, e)'
    OBVIOUS
  <2>1. CASE \E r \in working[q] : e = Local(r)
    <3>1. PICK r \in working[q] : e = Local(r)
      BY <2>1
    <3>2. r \in working'[q]
      BY <1>3, <3>1 DEF Typed
    <3> QED
      BY <3>1, <3>2 DEF Works
  <2>2. CASE \E s \in up : s[1] = q /\ e = Stream(s[2])
    <3>1. PICK s \in up : s[1] = q /\ e = Stream(s[2])
      BY <2>2
    <3>2. s \in up'
      BY <1>3, <3>1 DEF SessionsOf
    <3> QED
      BY <3>1, <3>2 DEF Works
  <2> QED
    BY <2>1, <2>2 DEF Works
<1>4. ASSUME NEW p \in Peer, NEW d \in Device, Lose(p, d) \/ Detach(p, d) PROVE ChangesBound'
  <2>1. /\ changes' = changes + 1 /\ changes < MaxChanges /\ UNCHANGED number
        /\ working' = [working EXCEPT ![p] = {r \in @ : Local(r) # d}]
        /\ up' = up \ SessionsOf(p, d)
    BY <1>4 DEF Lose, Detach, Fault, Change
  <2>2. ASSUME NEW q \in Peer, NEW e \in Device, ~ (q = p /\ e = d)
        PROVE  e \in listed'[q] <=> e \in listed[q]
    BY <1>4, <2>2 DEF Lose, Detach, Typed
  <2>3. ASSUME NEW q \in Peer, NEW e \in Device
        PROVE  Unknown(q, e)' => Unknown(q, e) \/ (q = p /\ e = d)
    BY <2>1, <2>2 DEF Unknown
  <2>4. Debts' \subseteq (Debts \cup {Debt(p, d, 1)}) \cup {Debt(p, d, 2)}
    <3>1. ASSUME NEW q \in Peer, NEW e \in Device, e \in MayList(q)
          PROVE  /\ ~ Works(q, e)' => Debt(q, e, 1) \in (Debts \cup {Debt(p, d, 1)}) \cup {Debt(p, d, 2)}
                 /\ Unknown(q, e)' => Debt(q, e, 2) \in (Debts \cup {Debt(p, d, 1)}) \cup {Debt(p, d, 2)}
      BY <1>3, <2>1, <2>3, <3>1, DebtsAre
    <3> QED
      BY <3>1, DebtsWithin
  <2> QED
    BY <1>0, <2>1, <2>4, DebtsMade
<1>5. ASSUME NEW p \in Peer, NEW d \in MayList(p),
             working' = [working EXCEPT ![p] = @ \cup {r \in Owns[p] : Local(r) = d}],
             up' = up \cup SessionsOf(p, d)
      PROVE  Works(p, d)' /\ \A q \in Peer, e \in Device : Works(q, e) => Works(q, e)'
  <2>1. ASSUME NEW q \in Peer PROVE working[q] \subseteq working'[q]
    BY <1>5 DEF Typed
  <2>2. ASSUME NEW q \in Peer, NEW e \in Device, Works(q, e) PROVE Works(q, e)'
    BY <1>5, <2>1, <2>2 DEF Works
  <2>3. CASE \E r \in Owns[p] : d = Local(r)
    <3>1. PICK r \in Owns[p] : d = Local(r)
      BY <2>3
    <3>2. r \in working'[p]
      BY <1>5, <3>1 DEF Typed
    <3> QED
      BY <2>2, <3>1, <3>2 DEF Works
  <2>4. CASE \E q \in Servers(p) : d = Stream(q)
    <3>1. PICK q \in Servers(p) : d = Stream(q)
      BY <2>4
    <3>2. <<p, q>> \in Session /\ <<p, q>>[1] = p /\ <<p, q>>[2] = q
      BY Ways
    <3>3. <<p, q>> \in up'
      BY <1>5, <3>1, <3>2 DEF SessionsOf
    <3> QED
      BY <2>2, <3>1, <3>2, <3>3 DEF Works
  <2> QED
    BY <2>3, <2>4 DEF MayList
<1>6. ASSUME NEW p \in Peer, NEW d \in Device, Reconnect(p, d) \/ Attach(p, d) PROVE ChangesBound'
  <2>1. /\ changes' = changes + 1
        /\ working' = [working EXCEPT ![p] = @ \cup {r \in Owns[p] : Local(r) = d}]
        /\ up' = up \cup SessionsOf(p, d)
    BY <1>6 DEF Reconnect, Attach, Change
  <2>2. d \in listed'[p] /\ d \in MayList(p)
    BY <1>6 DEF Reconnect, Attach, Typed, Attached
  <2>3. ~ Works(p, d)
    <3>1. CASE Reconnect(p, d)
      BY <3>1 DEF Reconnect
    <3>2. CASE Attach(p, d)
      BY <3>2 DEF Attach, Attached, Works
    <3> QED
      BY <1>6, <3>1, <3>2
  <2>4. Debt(p, d, 1) \in Debts
    BY <2>2, <2>3, DebtsAre
  <2>5. ASSUME NEW q \in Peer, NEW e \in Device
        PROVE  Unknown(q, e)' => Unknown(q, e)
    <3>1. CASE Reconnect(p, d)
      BY <3>1 DEF Reconnect, Unknown
    <3>2. CASE Attach(p, d)
      <4>1. d \notin listed[p]
        BY <3>2 DEF Attach
      <4>2. ~ (q = p /\ e = d) => number'[q][e] = number[q][e] /\ (e \in listed'[q] <=> e \in listed[q])
        BY <3>2 DEF Attach, Typed
      <4> QED
        BY <4>1, <4>2 DEF Unknown
    <3> QED
      BY <1>6, <3>1, <3>2
  <2>6. Debts' \subseteq Debts \ {Debt(p, d, 1)}
    <3>1. ASSUME NEW q \in Peer, NEW e \in Device, e \in MayList(q)
          PROVE  /\ ~ Works(q, e)' => Debt(q, e, 1) \in Debts \ {Debt(p, d, 1)}
                 /\ Unknown(q, e)' => Debt(q, e, 2) \in Debts \ {Debt(p, d, 1)}
      <4>1. Debt(q, e, 2) # Debt(p, d, 1) /\ (Debt(q, e, 1) = Debt(p, d, 1) => q = p /\ e = d)
        BY DEF Debt
      <4>2. Works(p, d)' /\ (Works(q, e) => Works(q, e)')
        BY <1>5, <2>1, <2>2
      <4> QED
        BY <2>5, <3>1, <4>1, <4>2, DebtsAre
    <3> QED
      BY <3>1, DebtsWithin
  <2> QED
    BY <1>0, <2>1, <2>4, <2>6, DebtPaid
<1>7. ASSUME NEW t \in Syncer, Sync(t) PROVE UNCHANGED <<up, listed, working, number, changes>>
  BY <1>7 DEF Sync, LookUp, Publish
<1>8. ASSUME NEW c \in Channel, Handle(c) PROVE UNCHANGED <<up, listed, working, number, changes>>
  BY <1>8 DEF Handle, HandleDevices, HandleRaw, HandleFrame
<1>9. ASSUME NEW m \in Msg, Sending(m) PROVE UNCHANGED <<up, listed, working, number, changes>>
  BY <1>9 DEF Sending, AskOriginal, SendText
<1>10. ASSUME NEW p \in Peer, NEW m \in Msg, NEW e \in table[p],
             AskStream(p, m, e) \/ SendTraceroute(p, m, e)
      PROVE  UNCHANGED <<up, listed, working, number, changes>>
  BY <1>10 DEF AskStream, SendTraceroute
<1>11. ASSUME NEW p \in Peer, NEW m \in Msg, NEW d \in Device, SendLocally(p, m, d)
      PROVE  UNCHANGED <<up, listed, working, number, changes>>
  BY <1>11 DEF SendLocally
<1>12. ASSUME NEW p \in Peer, NEW t \in Syncer, Snapshot(p, t)
      PROVE  UNCHANGED <<up, listed, working, number, changes>>
  BY <1>12 DEF Snapshot
<1>13. CASE UNCHANGED vars
  BY <1>1, <1>13 DEF vars
<1> QED
  BY <1>1, <1>2, <1>4, <1>6, <1>7, <1>8, <1>9, <1>10, <1>11, <1>12, <1>13 DEF Next

-----------------------------------------------------------------------------
(* Theorems *)

IInv == Typed /\ Attached /\ ChangesBound /\ Known /\ InPlaceInv

LEMMA IInvTypes == IInv => TypeOK
<1> SUFFICES ASSUME IInv PROVE TypeOK
  OBVIOUS
<1>1. \A p \in Peer : \A e \in table[p] : \E c \in Channel : c[2] = p /\ e.source = Label(c)
  BY DEF IInv, Known, EntriesKnow, EntryKnows
<1>2. \A c \in Channel : \A i \in DOMAIN net[c] : net[c][i].type \in {"devices", "raw", "frame"}
  <2>1. ASSUME NEW c \in Channel, NEW i \in DOMAIN net[c] PROVE net[c][i].type \in {"devices", "raw", "frame"}
    <3>1. net[c] \in Seq(Payloads)
      BY DEF IInv, Typed
    <3>2. net[c][i] \in Payloads
      BY <3>1
    <3> QED
      BY <3>2 DEF Payloads
  <2> QED
    BY <2>1
<1>3. \A t \in Syncer : task[t] = NoTask \/ task[t].by \in Peer
  BY SyncsBegun DEF IInv
<1>4. ASSUME NEW m \in Msg PROVE call[m].pc \in {"idle", "asked", "ready", "sent", "refused"}
  <2>1. call[m] = NoCall \/ call[m] \in Begun
    BY DEF IInv, Typed
  <2> QED
    BY <2>1 DEF NoCall, Begun
<1>5. changes \in 0 .. 3 * MaxChanges
  <2>1. changes \in Nat /\ MaxChanges \in Nat /\ Cardinality(Debts) \in Nat
    BY DebtsAreFinite, VirtualAssumption DEF IInv, Typed, VirtualAssumption
  <2> QED
    BY <2>1 DEF IInv, ChangesBound
<1> QED
  BY <1>1, <1>2, <1>3, <1>4, <1>5 DEF IInv, Typed, Attached, TypeOK

\* The invariant holds from the beginning and after every step.
LEMMA IInvHolds == Spec => []IInv
<1>1. Init => IInv
  BY InitTyped, InitAttached, InitChangesBound, InitKnown, InitInPlace DEF IInv
<1>2. IInv /\ [Next]_vars => IInv'
  BY StepTyped, StepAttached, StepChangesBound, StepKnown, StepInPlace DEF IInv
<1> QED
  BY <1>1, <1>2, PTL DEF Spec

\* Over any topology: a radio transmits only what was sent through it, by its own
\* instance, by a neighbour through a virtual device of its name, or over streams
\* that lead to it, through all losses, detachments and changes of the tables of
\* virtual devices; and nothing that send_traceroute sent to a virtual device.
THEOREM AirsInPlaceHolds == Spec => []AirsInPlace
<1>1. IInv => AirsInPlace
  BY DEF IInv, InPlaceInv
<1> QED
  BY <1>1, IInvHolds, PTL

\* Where no server is reached over two ways, no packet is transmitted twice by
\* one radio either, though raw payloads and frames go out to all sessions and
\* devices.
THEOREM AirsWhereAddressedHolds == OneWay => (Spec => []AirsWhereAddressed)
<1>1. Init => Once
  BY InitOnce
<1>2. OneWay /\ IInv /\ Once /\ [Next]_vars => Once'
  BY StepOnce DEF IInv
<1>3. Once => AirsOnce
  BY DEF Once, OnceAt, AirsOnce
<1>4. IInv => TypeOK /\ AirsInPlace
  BY IInvTypes DEF IInv, InPlaceInv
<1>5. TypeOK /\ AirsInPlace /\ AirsOnce => AirsWhereAddressed
  BY DEF AirsWhereAddressed
<1> SUFFICES ASSUME OneWay PROVE Spec => []AirsWhereAddressed
  OBVIOUS
<1>6. IInv /\ Once /\ [Next]_vars => Once'
  BY <1>2
<1> QED
  BY <1>1, <1>3, <1>4, <1>5, <1>6, IInvHolds, PTL DEF Spec

-----------------------------------------------------------------------------
(* Outbox keeps what Acknowledgements promises: one device of one instance.*)
(* up is the name of another variable in VirtualDevices.                   *)

CONSTANTS Kinds, Reader, User, None, MaxConfigs, MaxFaults

VARIABLES kind, mu, linked, runtime, stage, queue, reading, syncing, configs, faults

O == INSTANCE Outbox WITH up <- linked

\* Message k was given the id of the row of m and waits, or has waited, for its
\* answer.
TookRow(k, m) == stage[k] = "returned" /\ TakesRowOf(k, m)
OtherTook(m) == \E k \in Texts \ {m} : TookRow(k, m)

\* What is shown is an answer of the radio, to this message or to the one that
\* took its row.
Shown ==
    \A m \in Texts : row[m] \in {"acked", "naked"} =>
        row[m] = said[m] \/ \E k \in Texts \ {m} : TookRow(k, m) /\ row[m] = said[k]

\* pending_acks names only messages whose send_text has returned, each under
\* the runtime it was sent through, and not answered yet.
Waiting ==
    \A e \in pending : /\ e[1] = using[e[2]] /\ stage[e[2]] = "returned"
                       /\ row[e[2]] = "pending" \/ OtherTook(e[2])

\* A message the radio has not got is neither stored nor answered, and one that
\* is not stored yet has no row.
Staged ==
    \A m \in Texts :
        /\ stage[m] \in {"idle", "radio"} => row[m] = "none" /\ said[m] = "nothing"
        /\ stage[m] = "store" => row[m] = "none"
        /\ stage[m] \in {"taking", "track"} => row[m] = "pending" \/ OtherTook(m)

\* An id is the one of the message's own row unless it was crossed.
OwnRows == \A m \in Texts \ crossed : rowid[m] \in {m, None}

\* Answers in flight are the ones the radio gave.
AnswersAreTrue ==
    /\ \A i \in 1 .. Len(queue) : said[queue[i][1]] = O!AckState(queue[i][2])
    /\ reading.pc = "answer" => said[reading.msg] = O!AckState(reading.ok)

Rest == Shown /\ Waiting /\ Staged /\ OwnRows /\ AnswersAreTrue

OutboxInv == O!TypeOK /\ Rest

-----------------------------------------------------------------------------
LEMMA InitOutboxTypes == O!Legal /\ O!Init => O!TypeOK
  BY DEF O!Init, O!TypeOK, O!Legal

\* Every step keeps the types: one step of the proof per action.
LEMMA StepOutboxTypes == O!Legal /\ O!TypeOK /\ [O!Next]_(O!vars) => O!TypeOK'
<1> SUFFICES ASSUME O!Legal, O!TypeOK, [O!Next]_(O!vars) PROVE O!TypeOK'
  OBVIOUS
<1> USE DEF O!Legal
<1>1. ASSUME NEW m \in Texts, O!Lookup(m) PROVE O!TypeOK'
  BY <1>1 DEF O!TypeOK, O!dbVars, O!Lookup, O!Goes
<1>2. ASSUME NEW m \in Texts, O!ToRadio(m) PROVE O!TypeOK'
  BY <1>2 DEF O!TypeOK, O!dbVars, O!ToRadio, O!Goes
<1>3. ASSUME NEW m \in Texts, O!Insert(m) PROVE O!TypeOK'
  BY <1>3 DEF O!TypeOK, O!Insert, O!Inserted, O!Goes
<1>17. ASSUME NEW m \in Texts, O!TakeId(m) PROVE O!TypeOK'
  BY <1>17 DEF O!TypeOK, O!TakeId, O!Goes, O!dbVars
<1>18. CASE O!InsertElsewhere
  BY <1>18 DEF O!TypeOK, O!InsertElsewhere, O!Inserted
<1>4. ASSUME NEW m \in Texts, O!Track(m) PROVE O!TypeOK'
  BY <1>4 DEF O!TypeOK, O!dbVars, O!Track, O!Goes
<1>5. ASSUME NEW m \in Texts, NEW ok \in BOOLEAN, O!Answer(m, ok) PROVE O!TypeOK'
  BY <1>5 DEF O!TypeOK, O!dbVars, O!Answer
<1>6. CASE O!ReadAnswer
  <2>1. Head(queue) \in Texts \X BOOLEAN /\ Tail(queue) \in Seq(Texts \X BOOLEAN)
    BY <1>6, HeadTailProperties DEF O!TypeOK, O!dbVars, O!ReadAnswer
  <2> QED
    BY <1>6, <2>1 DEF O!TypeOK, O!dbVars, O!ReadAnswer
<1>7. CASE O!HandleAnswer
  BY <1>7 DEF O!TypeOK, O!HandleAnswer, O!Updated, O!AckState
<1>8. CASE O!ConfigComplete
  BY <1>8 DEF O!TypeOK, O!dbVars, O!ConfigComplete
<1>9. CASE O!SetConfig
  BY <1>9 DEF O!TypeOK, O!dbVars, O!SetConfig
<1>10. CASE O!PushText
  BY <1>10 DEF O!TypeOK, O!dbVars, O!PushText
<1>11. ASSUME NEW t \in {Reader, User}, O!SendDbSync(t) PROVE O!TypeOK'
  BY <1>11 DEF O!TypeOK, O!dbVars, O!SendDbSync
<1>12. CASE O!Lose
  <2>1. linked' \in BOOLEAN
    BY <1>12, Zenon DEF O!Lose
  <2>2. queue' \in Seq(Texts \X BOOLEAN)
    BY <1>12 DEF O!Lose
  <2>3. faults' \in 0 .. MaxFaults
    BY <1>12 DEF O!TypeOK, O!dbVars, O!Lose
  <2> QED
    BY <1>12, <2>1, <2>2, <2>3 DEF O!TypeOK, O!dbVars, O!Lose
<1>13. CASE O!Reconnect
  BY <1>13 DEF O!TypeOK, O!dbVars, O!Reconnect
<1>14. CASE O!Replace
  BY <1>14 DEF O!TypeOK, O!dbVars, O!Replace
<1>15. CASE O!Restart
  BY <1>15 DEF O!TypeOK, O!dbVars, O!Restart
<1>16. CASE UNCHANGED O!vars
  BY <1>16 DEF O!TypeOK, O!dbVars, O!vars
<1> QED
  BY <1>1, <1>2, <1>3, <1>4, <1>5, <1>6, <1>7, <1>8, <1>9, <1>10, <1>11,
     <1>12, <1>13, <1>14, <1>15, <1>16, <1>17, <1>18 DEF O!Next, O!SendText, O!ReadingThread

\* The variables of Outbox have their types: what send_text, handle_event and
\* the faults leave behind is always well formed.
THEOREM OutboxTypesKept == O!Legal => (O!Spec => []O!TypeOK)
<1> SUFFICES ASSUME O!Legal PROVE O!Spec => []O!TypeOK
  OBVIOUS
<1>1. (O!Init => O!TypeOK) /\ (O!TypeOK /\ [O!Next]_(O!vars) => O!TypeOK')
  BY InitOutboxTypes, StepOutboxTypes
<1> QED
  BY <1>1, PTL DEF O!Spec

-----------------------------------------------------------------------------
LEMMA InitOutboxInv == O!Legal /\ O!Init => OutboxInv
  BY InitOutboxTypes DEF O!Init, OutboxInv, Rest, Shown, Waiting, Staged, AnswersAreTrue, OwnRows

\* A call of send_text goes on, and what is stored and said stays.
LEMMA CallGoesOn ==
    ASSUME O!Legal, OutboxInv, NEW m \in Texts,
           O!Lookup(m) \/ O!ToRadio(m) \/ O!TakeId(m) \/ O!Track(m)
    PROVE  Rest'
<1> USE DEF O!Legal
<1>0. /\ stage \in [Texts -> {"idle", "radio", "store", "taking", "track", "returned", "failed"}]
      /\ using \in [Texts -> Nat] /\ pending \subseteq Nat \X Texts
      /\ Shown /\ Waiting /\ Staged /\ OwnRows /\ AnswersAreTrue
  BY DEF OutboxInv, Rest, O!TypeOK
<1>1. /\ UNCHANGED <<row, rowid, crossed, said, queue, reading>>
      /\ stage[m] # "returned" /\ \A k \in Texts \ {m} : stage'[k] = stage[k]
      /\ \A k \in Texts \ {m} : using'[k] = using[k]
      /\ \/ pending' = pending
         \/ /\ pending' = pending \cup {<<using[m], m>>} /\ using' = using
            /\ stage[m] = "track" /\ stage'[m] = "returned"
  BY <1>0 DEF O!Lookup, O!ToRadio, O!TakeId, O!Track, O!Goes, O!dbVars
<1>2. \A k, n \in Texts : TookRow(k, n) => TookRow(k, n)'
  BY <1>1 DEF TookRow, TakesRowOf
<1>3. Shown'
  BY <1>0, <1>1, <1>2 DEF Shown
<1>4. Waiting'
  <2>1. \A e \in pending : e[2] \in Texts /\ e[2] # m
    BY <1>0, <1>1 DEF Waiting
  <2>2. \A e \in pending : /\ e[1] = using'[e[2]] /\ stage'[e[2]] = "returned"
                           /\ row'[e[2]] = "pending" \/ OtherTook(e[2])'
    BY <1>0, <1>1, <1>2, <2>1 DEF Waiting, OtherTook
  <2>3. stage[m] = "track" => row'[m] = "pending" \/ OtherTook(m)'
    BY <1>0, <1>1, <1>2 DEF Staged, OtherTook
  <2> QED
    BY <1>1, <2>2, <2>3 DEF Waiting
<1>5. Staged'
  <2>1. ASSUME NEW n \in Texts \ {m}
        PROVE  /\ stage'[n] \in {"idle", "radio"} => row'[n] = "none" /\ said'[n] = "nothing"
               /\ stage'[n] = "store" => row'[n] = "none"
               /\ stage'[n] \in {"taking", "track"} => row'[n] = "pending" \/ OtherTook(n)'
    BY <1>0, <1>1, <1>2, <2>1 DEF Staged, OtherTook
  <2>2. /\ stage'[m] \in {"idle", "radio"} => stage[m] \in {"idle", "radio"}
        /\ stage'[m] = "store" => stage[m] = "radio"
        /\ stage'[m] \in {"taking", "track"} => stage[m] \in {"taking", "track"}
    BY <1>0 DEF O!Lookup, O!ToRadio, O!TakeId, O!Track, O!Goes
  <2>3. /\ stage'[m] \in {"idle", "radio"} => row'[m] = "none" /\ said'[m] = "nothing"
        /\ stage'[m] = "store" => row'[m] = "none"
        /\ stage'[m] \in {"taking", "track"} => row'[m] = "pending" \/ OtherTook(m)'
    BY <1>0, <1>1, <1>2, <2>2 DEF Staged, OtherTook
  <2> QED
    BY <2>1, <2>3 DEF Staged
<1>6. OwnRows' /\ AnswersAreTrue'
  BY <1>0, <1>1 DEF OwnRows, AnswersAreTrue, O!AckState
<1> QED
  BY <1>3, <1>4, <1>5, <1>6 DEF Rest

\* An insertion makes a row and gives its id to those that are taking one.
LEMMA InsertionCrosses ==
    ASSUME O!Legal, OutboxInv, (\E m \in Texts : O!Insert(m)) \/ O!InsertElsewhere
    PROVE  Rest'
<1> USE DEF O!Legal
<1>0. /\ stage \in [Texts -> {"idle", "radio", "store", "taking", "track", "returned", "failed"}]
      /\ row \in [Texts -> {"none", "pending", "acked", "naked"}]
      /\ rowid \in [Texts -> Texts \cup {None}]
      /\ pending \subseteq Nat \X Texts
      /\ Shown /\ Waiting /\ Staged /\ OwnRows /\ AnswersAreTrue
  BY DEF OutboxInv, Rest, O!TypeOK
<1>1. /\ UNCHANGED <<using, pending, said, queue, reading>>
      /\ crossed \subseteq crossed'
      /\ \A n \in Texts : stage[n] = "taking" => n \in crossed'
  BY DEF O!Insert, O!InsertElsewhere, O!Inserted
<1>2. \A n \in Texts :
         \/ /\ row'[n] = row[n] /\ stage'[n] = stage[n]
            /\ stage[n] # "taking" => rowid'[n] = rowid[n]
         \/ stage[n] = "store" /\ stage'[n] = "taking" /\ row'[n] = "pending" /\ rowid'[n] = n
  BY <1>0 DEF O!Insert, O!InsertElsewhere, O!Inserted, O!Goes
<1>3. \A k, n \in Texts : TookRow(k, n) => TookRow(k, n)'
  BY <1>1, <1>2 DEF TookRow, TakesRowOf
<1>4. Shown'
  BY <1>0, <1>1, <1>2, <1>3 DEF Shown, Staged
<1>5. Waiting'
  <2>1. \A e \in pending : e[2] \in Texts /\ stage[e[2]] = "returned"
    BY <1>0 DEF Waiting
  <2> QED
    BY <1>0, <1>1, <1>2, <1>3, <2>1 DEF Waiting, OtherTook
<1>6. Staged'
  BY <1>0, <1>1, <1>2, <1>3 DEF Staged, OtherTook
<1>7. OwnRows' /\ AnswersAreTrue'
  BY <1>0, <1>1, <1>2 DEF OwnRows, AnswersAreTrue, O!AckState
<1> QED
  BY <1>4, <1>5, <1>6, <1>7 DEF Rest

\* An answer somebody waits for goes to the row whose id was taken.
LEMMA AnswerHandled ==
    ASSUME O!Legal, OutboxInv, O!HandleAnswer
    PROVE  Rest'
<1> USE DEF O!Legal
<1>0. /\ stage \in [Texts -> {"idle", "radio", "store", "taking", "track", "returned", "failed"}]
      /\ row \in [Texts -> {"none", "pending", "acked", "naked"}]
      /\ rowid \in [Texts -> Texts \cup {None}] /\ None \notin Texts
      /\ pending \subseteq Nat \X Texts
      /\ Shown /\ Waiting /\ Staged /\ OwnRows /\ AnswersAreTrue
  BY DEF OutboxInv, Rest, O!TypeOK
<1>1. /\ UNCHANGED <<using, said, queue, stage, rowid, crossed>>
      /\ reading'.pc = "idle"
  BY <1>0 DEF O!HandleAnswer, OutboxInv, O!TypeOK
<1>2. \A k, n \in Texts : TookRow(k, n)' <=> TookRow(k, n)
  BY <1>1 DEF TookRow, TakesRowOf
<1>3. AnswersAreTrue' /\ OwnRows'
  BY <1>0, <1>1 DEF AnswersAreTrue, OwnRows, O!AckState
<1>4. CASE UNCHANGED <<row, pending>>
  BY <1>0, <1>1, <1>2, <1>3, <1>4 DEF Rest, Shown, Waiting, Staged, OtherTook
<1>5. CASE ~ UNCHANGED <<row, pending>>
  <2>1. PICK k \in Texts : /\ k = reading.msg /\ <<runtime, k>> \in pending
                           /\ row' = O!Updated(rowid[k], reading.ok)
                           /\ pending' = pending \ {<<runtime, k>>}
                           /\ said[k] = O!AckState(reading.ok)
    BY <1>0, <1>5 DEF O!HandleAnswer, AnswersAreTrue
  <2>2. \A n \in Texts : \/ row'[n] = row[n]
                         \/ row[n] # "none" /\ rowid[k] = n /\ row'[n] = said[k]
    BY <2>1 DEF O!Updated
  <2>3. stage[k] = "returned"
    BY <1>0, <2>1 DEF Waiting
  <2>4. \A n \in Texts \ {k} : rowid[k] = n => TookRow(k, n)
    BY <1>0, <2>3 DEF OwnRows, TookRow, TakesRowOf
  <2>5. Shown'
    BY <1>0, <1>1, <1>2, <2>2, <2>4 DEF Shown
  <2>6. \A e \in pending' : e \in pending /\ e[2] \in Texts /\ e[2] # k
    <3>1. \A e \in pending : e[2] \in Texts /\ e[1] = using[e[2]] /\ e = <<e[1], e[2]>>
      BY <1>0 DEF Waiting
    <3>2. using[k] = runtime
      BY <2>1, <3>1
    <3> QED
      BY <2>1, <3>1, <3>2
  <2>7. Waiting'
    BY <1>0, <1>1, <1>2, <2>2, <2>4, <2>6 DEF Waiting, OtherTook
  <2>8. Staged'
    BY <1>0, <1>1, <1>2, <2>2, <2>3, <2>4 DEF Staged, OtherTook
  <2> QED
    BY <1>3, <2>5, <2>7, <2>8 DEF Rest
<1> QED
  BY <1>4, <1>5

\* The parts of OutboxInv that say more than the types.
LEMMA StepOutboxInv == O!Legal /\ OutboxInv /\ [O!Next]_(O!vars) => OutboxInv'
<1> SUFFICES ASSUME O!Legal, OutboxInv, [O!Next]_(O!vars) PROVE Rest'
  BY StepOutboxTypes DEF OutboxInv
<1>0. O!TypeOK /\ Shown /\ Waiting /\ Staged /\ OwnRows /\ AnswersAreTrue
  BY DEF OutboxInv, Rest
<1>1. ASSUME NEW m \in Texts, NEW ok \in BOOLEAN, O!Answer(m, ok) PROVE Rest'
  <2>1. /\ UNCHANGED <<stage, using, row, rowid, crossed, pending, reading>>
        /\ said[m] = "nothing" /\ \A n \in Texts \ {m} : said'[n] = said[n]
        /\ stage[m] \in {"store", "taking", "track", "returned"}
        /\ said'[m] = O!AckState(ok)
        /\ queue' = Append(queue, <<m, ok>>) /\ said \in [Texts -> {"nothing", "acked", "naked"}]
    BY <1>0, <1>1 DEF O!Answer, O!dbVars, O!TypeOK, O!AckState
  <2>2. \A k, n \in Texts : TookRow(k, n)' <=> TookRow(k, n)
    BY <2>1 DEF TookRow, TakesRowOf
  <2>3. Shown'
    BY <1>0, <2>1, <2>2 DEF Shown
  <2>4. Waiting' /\ Staged' /\ OwnRows'
    BY <1>0, <2>1, <2>2 DEF Waiting, Staged, OwnRows, OtherTook, O!TypeOK
  <2>5. AnswersAreTrue'
    BY <1>0, <1>1 DEF AnswersAreTrue, O!AckState, O!Answer, O!TypeOK
  <2> QED
    BY <2>3, <2>4, <2>5 DEF Rest
<1>2. CASE O!ReadAnswer
  <2>1. UNCHANGED <<stage, using, row, rowid, crossed, pending, said>>
    BY <1>2 DEF O!ReadAnswer, O!dbVars
  <2>2. Shown' /\ Waiting' /\ Staged' /\ OwnRows'
    BY <1>0, <2>1 DEF Shown, Waiting, Staged, OwnRows, OtherTook, TookRow, TakesRowOf
  <2>3. AnswersAreTrue'
    BY <1>0, <1>2 DEF AnswersAreTrue, O!AckState, O!ReadAnswer, O!TypeOK
  <2> QED
    BY <2>2, <2>3 DEF Rest
<1>3. CASE \/ O!ConfigComplete \/ O!SetConfig \/ O!PushText \/ O!Reconnect
           \/ (\E t \in {Reader, User} : O!SendDbSync(t)) \/ UNCHANGED O!vars
  <2>1. UNCHANGED <<stage, using, row, rowid, crossed, pending, queue, said, reading>>
    BY <1>3 DEF O!ConfigComplete, O!SetConfig, O!PushText, O!Reconnect, O!SendDbSync,
       O!vars, O!dbVars
  <2> QED
    BY <1>0, <2>1 DEF Rest, Shown, Waiting, Staged, OwnRows, OtherTook, TookRow, TakesRowOf,
       AnswersAreTrue, O!AckState
<1>4. CASE O!Lose \/ O!Replace
  <2>1. UNCHANGED <<stage, using, row, rowid, crossed, pending, said, reading>> /\ queue' = <<>>
    BY <1>4 DEF O!Lose, O!Replace, O!dbVars
  <2> QED
    BY <1>0, <2>1 DEF Rest, Shown, Waiting, Staged, OwnRows, OtherTook, TookRow, TakesRowOf,
       AnswersAreTrue, O!AckState
<1>5. CASE O!Restart
  <2>1. /\ UNCHANGED <<using, row, rowid, crossed, said>>
        /\ pending' = {} /\ queue' = <<>> /\ reading'.pc = "idle"
        /\ stage' = [m \in Texts |-> IF stage[m] \in {"idle", "returned"} THEN stage[m]
                                     ELSE "failed"]
    BY <1>5 DEF O!Restart, O!dbVars
  <2>2. \A k, n \in Texts : TookRow(k, n)' <=> TookRow(k, n)
    BY <2>1 DEF TookRow, TakesRowOf
  <2>3. Shown'
    BY <1>0, <2>1, <2>2 DEF Shown
  <2>4. Waiting' /\ Staged' /\ OwnRows' /\ AnswersAreTrue'
    BY <1>0, <2>1 DEF Waiting, Staged, OwnRows, AnswersAreTrue, O!AckState
  <2> QED
    BY <2>3, <2>4 DEF Rest
<1> QED
  BY <1>1, <1>2, <1>3, <1>4, <1>5, CallGoesOn, InsertionCrosses, AnswerHandled
  DEF O!Next, O!SendText, O!ReadingThread

LEMMA OutboxInvHolds == O!Legal => (O!Spec => []OutboxInv)
<1> SUFFICES ASSUME O!Legal PROVE O!Spec => []OutboxInv
  OBVIOUS
<1>1. (O!Init => OutboxInv) /\ (OutboxInv /\ [O!Next]_(O!vars) => OutboxInv')
  BY InitOutboxInv, StepOutboxInv
<1> QED
  BY <1>1, PTL DEF O!Spec

\* A message is shown as acknowledged or refused only if the radio has said
\* so of this message, and pending_acks names only stored messages that wait
\* for their answer, each under the runtime it was sent through; but for the
\* answer of a message that was given another one's row id.
THEOREM AcknowledgementsAreHonest == O!Legal => (O!Spec => []AckIsHonest)
<1> SUFFICES ASSUME O!Legal PROVE O!Spec => []AckIsHonest
  OBVIOUS
<1>1. O!Spec => []OutboxInv
  BY OutboxInvHolds
<1>2. OutboxInv => AckIsHonest
  <2> SUFFICES ASSUME OutboxInv PROVE AckIsHonest
    OBVIOUS
  <2>1. Shown /\ Waiting /\ \A k, m \in Texts : TookRow(k, m) => TakesRowOf(k, m)
    BY DEF OutboxInv, Rest, TookRow
  <2>2. \A e \in pending : e[2] \in Texts
    BY DEF OutboxInv, O!TypeOK
  <2> QED
    BY <2>1, <2>2 DEF AckIsHonest, Shown, Waiting, OtherTook
<1> QED
  BY <1>1, <1>2, PTL

\* No step takes back what a message is shown as, once the radio has
\* answered: not a second answer, a new runtime, or a restart; only an answer
\* to a row that a message with a crossed id has taken.
THEOREM AnswersAreFinal == O!Legal => (O!Spec => AnswerIsFinal)
<1> SUFFICES ASSUME O!Legal PROVE O!Spec => AnswerIsFinal
  OBVIOUS
<1> DEFINE Final == \A m \in Texts : row[m] \in {"acked", "naked"} =>
                       row'[m] = row[m] \/ \E k \in Texts : TakesRowOf(k, m)
<1>1. ASSUME OutboxInv, [O!Next]_(O!vars) PROVE [Final]_row
  <2>0. O!TypeOK /\ Waiting /\ Staged /\ OwnRows
    BY <1>1 DEF OutboxInv, Rest
  <2>1. ASSUME NEW m \in Texts, O!Insert(m) PROVE Final
    BY <2>0, <2>1 DEF O!TypeOK, Staged, O!Insert
  <2>2. ASSUME O!HandleAnswer PROVE Final
    <3> SUFFICES ASSUME NEW m \in Texts, row[m] \in {"acked", "naked"}, row'[m] # row[m]
                 PROVE  \E k \in Texts : TakesRowOf(k, m)
      OBVIOUS
    <3>1. PICK k \in Texts : <<runtime, k>> \in pending /\ rowid[k] = m
      BY <2>0, <2>2 DEF O!HandleAnswer, O!Updated, O!TypeOK
    <3>2. CASE k = m
      BY <2>0, <3>1, <3>2 DEF Waiting, OtherTook, TookRow
    <3>3. CASE k # m
      <4>1. None \notin Texts
        BY DEF O!Legal
      <4> QED
        BY <2>0, <3>1, <3>3, <4>1 DEF OwnRows, TakesRowOf
    <3> QED
      BY <3>2, <3>3
  <2>3. ASSUME \A m \in Texts : ~ O!Insert(m), ~ O!HandleAnswer PROVE UNCHANGED row
    BY <1>1, <2>3 DEF O!Next, O!SendText, O!ReadingThread, O!Lookup, O!ToRadio, O!TakeId, O!Track,
       O!InsertElsewhere, O!Answer, O!ReadAnswer, O!ConfigComplete, O!SetConfig, O!PushText,
       O!SendDbSync, O!Lose, O!Reconnect, O!Replace, O!Restart, O!vars, O!dbVars
  <2> QED
    BY <2>1, <2>2, <2>3
<1>2. O!Spec => []OutboxInv
  BY OutboxInvHolds
<1> QED
  BY <1>1, <1>2, PTL DEF O!Spec, AnswerIsFinal

-----------------------------------------------------------------------------
(***************************************************************************)
(* Reconnect keeps what Connections promises: the life of one device.      *)
(*                                                                         *)
(* A call of reconnect_device that is under way when the device is         *)
(* disconnected can only be the web thread's, since the main thread is the *)
(* one that disconnects and finds no device to reconnect from then on.  So *)
(* that call is the last to hold the runtime, and the transport it makes   *)
(* goes with it.  Before the device is listed nobody but connect_device    *)
(* touches it, and after the web server has been stopped nobody reconnects *)
(* it.  The queue and the faults of Outbox are others.                     *)
(***************************************************************************)

CONSTANTS Setups, LossEvents, MaxAttempts

VARIABLES object, made, peer, events, watched, mine, stuck, failures

R == INSTANCE Reconnect WITH queue <- events, faults <- failures

\* Names of Connections, and the same as Reconnect has them.
USE DEF Thread, R!Thread, Headless, R!Headless, WebEnabled, R!WebEnabled, WebUsers, R!WebUsers,
        Outside, R!Outside

\* A thread that runs start() has a transport.
HasTransport == \A t \in Thread : at[t] = "start" => mine[t] # 0

\* Without web requests only the main thread reconnects.
Alone == ~ WebUsers => at[Web] = "idle"

\* Once the device is disconnected, the main thread reconnects nothing, and
\* the device has no connection.
GoneIsOver == key = "gone" => Outside(Main) /\ link = "none"

\* Nothing but connect_device touches the device before it is listed.
ListedAtLast ==
    /\ connector = "done" <=> key # "new"
    /\ key = "new" => \A t \in Thread : Outside(t)
    /\ connector \in {"open", "start"} => link = "none"
    /\ connector = "start" => object # 0

\* When the devices are disconnected the web server has been stopped; when the
\* service goes no device is being connected.
EndsInOrder ==
    /\ R!Stopped => at[Web] = "idle"
    /\ at[Main] \in {"returned", "over"} => connector = "done"
    /\ at[Main] = "over" => key = "gone"

Orderly == HasTransport /\ GoneIsOver /\ ListedAtLast /\ EndsInOrder

LifeInv == R!TypeOK /\ Orderly

Event == {"connected", "disconnected", "error"}

-----------------------------------------------------------------------------
LEMMA EmptyQueue == <<>> \in Seq(Event)
  OBVIOUS

LEMMA EndingTypes ==
    ASSUME R!Legal, NEW q \in Seq(Event), NEW e \in Event
    PROVE  /\ Append(q, e) \in Seq(Event) /\ R!Pushed(q, e) \in Seq(Event)
           /\ \A r \in R!Ending(q) : r \in Seq(Event)
  BY DEF R!Ending, R!Pushed, R!Legal, Event

\* What a step of thread t that leads it to place p leaves of the others.
LEMMA GoesTypes ==
    ASSUME R!TypeOK, NEW t \in Thread, NEW p \in R!Place, R!Goes(t, p)
    PROVE  /\ at' \in [Thread -> R!Place]
           /\ at'[t] = p /\ \A u \in Thread \ {t} : at'[u] = at[u]
  BY DEF R!TypeOK, R!Goes

LEMMA TwoThreads == R!Legal => Main \in Thread /\ Web \in Thread /\ Main # Web
  BY DEF Thread, R!Legal

LEMMA InitLife == R!Legal /\ R!Init => LifeInv
<1> SUFFICES ASSUME R!Legal, R!Init PROVE LifeInv
  OBVIOUS
<1>1. object \in 0 .. made /\ watched \in R!Off .. MaxAttempts /\ failures \in 0 .. MaxFaults
  BY DEF R!Init, R!Legal, R!Off
<1>2. at \in [Thread -> R!Place] /\ \A t \in Thread : at[t] \in {"idle", "connect", "drain"}
  BY DEF R!Init, R!Place
<1>3. mine \in [Thread -> 0 .. made]
  BY DEF R!Init
<1>6. stuck \in BOOLEAN
  BY Zenon DEF R!Init
<1>4. R!TypeOK
  BY <1>1, <1>2, <1>3, <1>6 DEF R!TypeOK, R!Init
<1>5. Orderly
  BY <1>2, TwoThreads DEF R!Init, Orderly, HasTransport, GoneIsOver, ListedAtLast, EndsInOrder, Outside, R!Stopped, Thread
<1> QED
  BY <1>4, <1>5 DEF LifeInv

\* A fault is counted.
LEMMA CountTypes ==
    ASSUME R!Legal, R!TypeOK, R!Count
    PROVE  failures' \in 0 .. MaxFaults
<1>1. MaxFaults \in Nat /\ failures \in 0 .. MaxFaults
  BY DEF R!TypeOK, R!Legal
<1> QED
  BY <1>1 DEF R!Count

\* A transport is made.
LEMMA MadeTypes ==
    ASSUME R!TypeOK, made' = made + 1, object' = made'
    PROVE  /\ made' \in Nat /\ made' # 0 /\ object' \in 0 .. made' /\ object' # 0
           /\ mine \in [Thread -> 0 .. made']
<1>1. made \in Nat /\ mine \in [Thread -> 0 .. made]
  BY DEF R!TypeOK
<1>2. made' \in Nat /\ made' # 0 /\ 0 .. made \subseteq 0 .. made' /\ made' \in 0 .. made'
  BY <1>1
<1> QED
  BY <1>1, <1>2

\* A call of reconnect_device that returns.
LEMMA ReturnedTypes ==
    ASSUME R!Legal, R!TypeOK, NEW t \in Thread, NEW ok \in BOOLEAN, R!Returned(t, ok)
    PROVE  /\ at' \in [Thread -> R!Place]
           /\ at'[t] \in {"drain", "idle"} /\ (t = Web => at'[t] = "idle")
           /\ \A u \in Thread \ {t} : at'[u] = at[u]
           /\ watched' \in R!Off .. MaxAttempts
<1>1. R!Goes(t, R!Home(t)) /\ R!Home(t) \in {"drain", "idle"} /\ (t = Web => R!Home(t) = "idle")
  BY TwoThreads DEF R!Returned, R!Home
<1>2. /\ at' \in [Thread -> R!Place] /\ at'[t] = R!Home(t)
      /\ \A u \in Thread \ {t} : at'[u] = at[u]
  BY <1>1, GoesTypes DEF R!Place
<1>3. watched' \in {watched, R!Off} /\ R!Off \in R!Off .. MaxAttempts
  BY DEF R!Returned, R!Off, R!Legal
<1> QED
  BY <1>1, <1>2, <1>3 DEF R!TypeOK

\* disconnect_all leaves no device listed.
LEMMA DisconnectAllTypes ==
    ASSUME R!Legal, R!TypeOK, Orderly, R!DisconnectAll
    PROVE  /\ events' \in Seq(Event)
           /\ link' = "none" \/ link' = link
           /\ key' \in {"new", "gone"} /\ (key' = "new" <=> key = "new")
           /\ key' = "gone" => link' = "none"
<1>1. events \in Seq(Event)
  BY DEF R!TypeOK, Event
<1>2. CASE R!Listed
  <2>1. key' = "gone" /\ link' = "none" /\ key # "new"
    BY <1>2 DEF R!DisconnectAll, R!Listed
  <2>2. events' \in R!Ending(events) \cup {events}
    BY <1>2 DEF R!DisconnectAll
  <2>3. events' \in Seq(Event)
    BY <1>1, <2>2, EndingTypes DEF Event
  <2> QED
    BY <2>1, <2>3
<1>3. CASE ~ R!Listed
  <2>1. UNCHANGED <<key, link, events>>
    BY <1>3 DEF R!DisconnectAll
  <2>2. key \in {"new", "gone"}
    BY <1>3 DEF R!Listed, R!TypeOK
  <2> QED
    BY <1>1, <2>1, <2>2 DEF Orderly, GoneIsOver
<1> QED
  BY <1>2, <1>3

-----------------------------------------------------------------------------
(* Start-up and shut-down *)

LEMMA ConnectingStep == R!Legal /\ LifeInv /\ R!Connecting => LifeInv'
<1> SUFFICES ASSUME R!Legal, LifeInv, R!Connecting PROVE LifeInv'
  OBVIOUS
<1>0. R!TypeOK /\ Orderly /\ events \in Seq(Event) /\ UNCHANGED <<setup, peer, watched, at, mine, stuck, failures>>
  BY DEF LifeInv, R!TypeOK, Event, R!Connecting, R!ConnectOpen, R!ConnectStart, R!ConnectList
<1>1. CASE R!ConnectOpen
  <2>1. connector = "open" /\ key = "new" /\ link = "none" /\ link' = link
    BY <1>0, <1>1 DEF R!ConnectOpen, Orderly, ListedAtLast
  <2>2. CASE peer = "refuses"
    <3>1. connector' = "done" /\ key' = "gone" /\ UNCHANGED <<object, made>>
      BY <1>1, <2>2 DEF R!ConnectOpen, R!Connects
    <3>2. events' \in Seq(Event)
      BY <1>0, <1>1, <2>2, EndingTypes, EmptyQueue DEF R!ConnectOpen, Event
    <3>3. R!TypeOK'
      BY <1>0, <2>1, <3>1, <3>2 DEF R!TypeOK, Event
    <3>4. Orderly'
      BY <1>0, <2>1, <3>1, TwoThreads DEF Orderly, HasTransport, GoneIsOver, ListedAtLast, EndsInOrder, Outside, R!Stopped, Thread
    <3> QED
      BY <3>3, <3>4 DEF LifeInv
  <2>3. CASE peer # "refuses"
    <3>1. /\ connector' = "start" /\ made' = made + 1 /\ object' = made'
          /\ UNCHANGED <<key, events>>
      BY <1>1, <2>3 DEF R!ConnectOpen, R!Connects
    <3>2. R!TypeOK' /\ object' # 0
      BY <1>0, <2>1, <3>1, MadeTypes DEF R!TypeOK
    <3>3. Orderly'
      BY <1>0, <2>1, <3>1, <3>2, TwoThreads DEF Orderly, HasTransport, GoneIsOver, ListedAtLast, EndsInOrder, Outside, R!Stopped, Thread
    <3> QED
      BY <3>2, <3>3 DEF LifeInv
  <2> QED
    BY <2>2, <2>3
<1>2. CASE R!ConnectStart
  <2>1. /\ connector = "start" /\ connector' = "list" /\ key = "new"
        /\ link' \in {"sham", "up"} /\ UNCHANGED <<key, object, made>>
    BY <1>0, <1>2 DEF R!ConnectStart, R!Connects, Orderly, ListedAtLast
  <2>2. events' \in Seq(Event)
    BY <1>0, <1>2, EndingTypes DEF R!ConnectStart, Event
  <2>3. object # 0
    BY <1>0, <2>1 DEF Orderly, ListedAtLast
  <2>4. R!TypeOK'
    BY <1>0, <2>1, <2>2, <2>3 DEF R!TypeOK, Event
  <2>5. Orderly'
    BY <1>0, <2>1, TwoThreads DEF Orderly, HasTransport, GoneIsOver, ListedAtLast, EndsInOrder, Outside, R!Stopped, Thread
  <2> QED
    BY <2>4, <2>5 DEF LifeInv
<1>3. CASE R!ConnectList
  <2>1. /\ connector = "list" /\ connector' = "done" /\ key = "new" /\ key' \in {"", "id"}
        /\ events' \in Seq(Event) /\ UNCHANGED <<object, made, link>>
    BY <1>0, <1>3, EmptyQueue DEF R!ConnectList, R!Connects, Orderly, ListedAtLast
  <2>2. R!TypeOK'
    BY <1>0, <2>1 DEF R!TypeOK, Event
  <2>3. Orderly'
    BY <1>0, <2>1, TwoThreads DEF Orderly, HasTransport, GoneIsOver, ListedAtLast, EndsInOrder, Outside, R!Stopped, Thread
  <2> QED
    BY <2>2, <2>3 DEF LifeInv
<1> QED
  BY <1>1, <1>2, <1>3 DEF R!Connecting

\* The main thread goes on to its next place, and touches nothing but the queue.
LEMMA MainGoesOn ==
    ASSUME R!Legal, LifeInv, NEW p \in R!Place, R!Goes(Main, p), events' \in Seq(Event),
           UNCHANGED <<setup, key, object, made, link, peer, connector, mine, stuck, failures>>,
           watched' \in R!Off .. MaxAttempts,
           p \notin {"open", "start", "over"}, p = "stop" => key \notin {"gone", "new"},
           p \in {"server", "close", "join", "returned"} => at[Web] = "idle",
           p = "returned" => connector = "done"
    PROVE  LifeInv'
<1>1. at' \in [Thread -> R!Place] /\ at'[Main] = p /\ at'[Web] = at[Web]
  BY GoesTypes, TwoThreads DEF LifeInv
<1>2. R!TypeOK'
  BY <1>1 DEF LifeInv, R!TypeOK, Event
<1>3. Orderly'
  BY <1>1, TwoThreads DEF LifeInv, Orderly, HasTransport, GoneIsOver, ListedAtLast, EndsInOrder, Outside, R!Stopped, Thread
<1> QED
  BY <1>2, <1>3 DEF LifeInv

LEMMA ShutDownStep ==
    ASSUME R!Legal, LifeInv, Alone, R!Begin \/ R!Quit \/ R!Ends \/ R!StopServer
    PROVE  LifeInv'
<1>0. R!TypeOK /\ Orderly /\ events \in Seq(Event) /\ <<>> \in Seq(Event) /\ watched \in R!Off .. MaxAttempts
  BY EmptyQueue DEF LifeInv, R!TypeOK, Event
<1>1. CASE R!Begin
  <2>1. /\ events' \in Seq(Event) /\ connector = "done"
        /\ R!Goes(Main, "drain") \/ (R!Goes(Main, "returned") /\ ~ WebEnabled)
        /\ UNCHANGED <<setup, key, object, made, link, peer, watched, connector, mine, stuck, failures>>
    BY <1>0, <1>1 DEF R!Begin
  <2>2. ~ WebEnabled => at[Web] = "idle"
    BY <1>0 DEF R!TypeOK, R!Legal, Alone
  <2> QED
    BY <1>0, <2>1, <2>2, MainGoesOn DEF R!Place
<1>2. CASE R!Quit
  <2>1. /\ R!Goes(Main, "quit")
        /\ UNCHANGED <<setup, key, object, made, link, peer, events, watched, connector, mine, stuck, failures>>
    BY <1>2 DEF R!Quit
  <2> QED
    BY <1>0, <2>1, MainGoesOn DEF R!Place
<1>3. CASE R!StopWeb
  <2>1. /\ at[Web] = "idle" /\ R!Goes(Main, "server")
        /\ UNCHANGED <<setup, key, object, made, link, peer, events, watched, connector, mine, stuck, failures>>
    BY <1>3 DEF R!StopWeb
  <2> QED
    BY <1>0, <2>1, MainGoesOn DEF R!Place
<1>8. CASE R!StopServer
  <2>1. /\ at[Main] = "server" /\ R!Goes(Main, "close")
        /\ UNCHANGED <<setup, key, object, made, link, peer, events, watched, connector, mine, stuck, failures>>
    BY <1>8 DEF R!StopServer
  <2>2. at[Web] = "idle"
    BY <1>0, <2>1 DEF Orderly, EndsInOrder, R!Stopped
  <2> QED
    BY <1>0, <2>1, <2>2, MainGoesOn DEF R!Place
<1>4. CASE R!Return
  <2>1. /\ at[Main] = "join" /\ connector = "done" /\ R!Goes(Main, "returned") /\ events' = <<>>
        /\ UNCHANGED <<setup, key, object, made, link, peer, watched, connector, mine, stuck, failures>>
    BY <1>4 DEF R!Return
  <2>2. at[Web] = "idle"
    BY <1>0, <2>1 DEF Orderly, EndsInOrder, R!Stopped
  <2> QED
    BY <1>0, <2>1, <2>2, MainGoesOn DEF R!Place
<1>5. ASSUME NEW p \in {"join", "over"}, R!Goes(Main, p), R!DisconnectAll,
             UNCHANGED <<setup, object, made, peer, watched, connector, mine, stuck, failures>>,
             R!Stopped, p = "over" => connector = "done"
      PROVE  LifeInv'
  <2>1. at' \in [Thread -> R!Place] /\ at'[Main] = p /\ at'[Web] = at[Web] /\ at[Web] = "idle"
    BY <1>0, <1>5, GoesTypes, TwoThreads DEF R!Place, Orderly, EndsInOrder
  <2>2. /\ events' \in Seq(Event) /\ (link' = "none" \/ link' = link)
        /\ key' \in {"new", "gone"} /\ (key' = "new" <=> key = "new")
        /\ key' = "gone" => link' = "none"
    BY <1>0, <1>5, DisconnectAllTypes
  <2>3. R!TypeOK'
    BY <1>0, <1>5, <2>1, <2>2 DEF R!TypeOK, Event
  <2>4. Orderly'
    BY <1>0, <1>5, <2>1, <2>2, TwoThreads DEF Orderly, HasTransport, GoneIsOver, ListedAtLast, EndsInOrder, Outside, R!Stopped, Thread
  <2> QED
    BY <2>3, <2>4 DEF LifeInv
<1>6. CASE R!Close
  BY <1>5, <1>6 DEF R!Close, R!Stopped
<1>7. CASE R!Destroy
  BY <1>0, <1>5, <1>7 DEF R!Destroy, R!Stopped, Orderly, EndsInOrder
<1> QED
  BY <1>1, <1>2, <1>3, <1>4, <1>6, <1>7, <1>8 DEF R!Ends

-----------------------------------------------------------------------------
(* Reconnecting *)

LEMMA ReconnectingStep ==
    ASSUME R!Legal, LifeInv, NEW t \in Thread, R!Reconnecting(t)
    PROVE  LifeInv'
<1>0. /\ R!TypeOK /\ Orderly /\ events \in Seq(Event) /\ ~ Outside(t)
      /\ at[t] \in {"stop", "open", "start"} /\ UNCHANGED connector
  BY DEF LifeInv, R!TypeOK, Event, R!Reconnecting, R!Stop, R!Open, R!Start, Outside
<1>1. key # "new" /\ connector = "done" /\ (t = Main => key # "gone") /\ (t = Web => ~ R!Stopped)
  BY <1>0, TwoThreads DEF Orderly, HasTransport, GoneIsOver, ListedAtLast, EndsInOrder, Outside, R!Stopped, Thread
<1>2. CASE R!Stop(t)
  <2>1. events' \in Seq(Event)
    BY <1>0, <1>2, EndingTypes DEF R!Stop, Event
  <2>2. /\ made \in Nat /\ object' = 0 /\ link' = "none" /\ R!Goes(t, "open")
        /\ UNCHANGED <<setup, key, made, peer, watched, mine, stuck, failures>>
    BY <1>0, <1>2 DEF R!Stop, R!TypeOK
  <2>3. object' \in 0 .. made'
    BY <2>2
  <2>4. /\ at' \in [Thread -> R!Place] /\ at'[t] = "open"
        /\ \A u \in Thread \ {t} : at'[u] = at[u]
    BY <1>0, <2>2, GoesTypes DEF R!Place
  <2>5. R!TypeOK'
    BY <1>0, <2>1, <2>2, <2>3, <2>4 DEF R!TypeOK, Event
  <2>6. Orderly'
    BY <1>0, <1>1, <2>2, <2>4, TwoThreads DEF Orderly, HasTransport, GoneIsOver, ListedAtLast, EndsInOrder, Outside, R!Stopped, Thread
  <2> QED
    BY <2>5, <2>6 DEF LifeInv
<1>3. CASE R!Open(t)
  <2>0. UNCHANGED <<setup, key, link, peer, events, stuck, failures>>
    BY <1>3 DEF R!Open
  <2>1. CASE peer = "refuses"
    <3>1. R!Returned(t, FALSE) /\ UNCHANGED <<object, made, mine>>
      BY <1>3, <2>1 DEF R!Open
    <3>2. R!TypeOK'
      BY <1>0, <2>0, <3>1, ReturnedTypes DEF R!TypeOK
    <3>3. Orderly'
      BY <1>0, <1>1, <2>0, <3>1, ReturnedTypes, TwoThreads DEF Orderly, HasTransport, GoneIsOver, ListedAtLast, EndsInOrder, Outside, R!Stopped, Thread
    <3> QED
      BY <3>2, <3>3 DEF LifeInv
  <2>2. CASE peer # "refuses"
    <3>1. /\ made' = made + 1 /\ object' = made' /\ watched' = watched
          /\ mine' = [mine EXCEPT ![t] = made'] /\ R!Goes(t, "start")
      BY <1>3, <2>2 DEF R!Open
    <3>2. /\ made' \in Nat /\ made' # 0 /\ object' \in 0 .. made' /\ object' # 0
          /\ mine \in [Thread -> 0 .. made'] /\ made' \in 0 .. made'
      BY <1>0, <3>1, MadeTypes
    <3>3. mine' \in [Thread -> 0 .. made'] /\ mine'[t] # 0
      BY <3>1, <3>2
    <3>4. /\ at' \in [Thread -> R!Place] /\ at'[t] = "start"
          /\ \A u \in Thread \ {t} : at'[u] = at[u] /\ mine'[u] = mine[u]
      BY <1>0, <3>1, GoesTypes DEF R!Place, R!TypeOK
    <3>5. R!TypeOK'
      BY <1>0, <2>0, <3>1, <3>2, <3>3, <3>4 DEF R!TypeOK
    <3>6. Orderly'
      BY <1>0, <1>1, <2>0, <3>3, <3>4, TwoThreads DEF Orderly, HasTransport, GoneIsOver, ListedAtLast, EndsInOrder, Outside, R!Stopped, Thread
    <3> QED
      BY <3>5, <3>6 DEF LifeInv
  <2> QED
    BY <2>1, <2>2
<1>4. CASE R!Start(t)
  <2>1. events' \in Seq(Event)
    BY <1>0, <1>4, EndingTypes DEF R!Start, Event
  <2>2. object # 0
    BY <1>0, <1>4 DEF R!Start, Orderly, HasTransport
  <2>3. R!Returned(t, TRUE) /\ UNCHANGED <<setup, object, made, peer, mine, stuck, failures>>
    BY <1>4 DEF R!Start
  <2>4. /\ link' \in {"up", "none", "sham"} /\ key' \in {key, ""}
        /\ key' = "gone" => link' = "none"
    <3>1. key = "gone" => R!LastHolder(t)
      BY <1>0, <1>1 DEF R!LastHolder, Orderly, GoneIsOver, Thread
    <3> QED
      BY <1>4, <3>1 DEF R!Start
  <2>5. R!TypeOK'
    BY <1>0, <2>1, <2>2, <2>3, <2>4, ReturnedTypes DEF R!TypeOK, Event
  <2>6. Orderly'
    BY <1>0, <1>1, <2>3, <2>4, ReturnedTypes, TwoThreads DEF Orderly, HasTransport, GoneIsOver, ListedAtLast, EndsInOrder, Outside, R!Stopped, Thread
  <2> QED
    BY <2>5, <2>6 DEF LifeInv
<1> QED
  BY <1>2, <1>3, <1>4 DEF R!Reconnecting

LEMMA CallStep ==
    ASSUME R!Legal, LifeInv, NEW t \in Thread, R!Call(t)
    PROVE  LifeInv'
<1>1. /\ key = "id" /\ R!Count /\ R!Goes(t, "stop") /\ at[t] \in {"drain", "ready", "idle"}
      /\ (t = Web => ~ R!Stopped)
      /\ UNCHANGED <<setup, key, object, made, link, peer, events, watched, connector, mine, stuck>>
  BY DEF R!Call, R!Free
<1>2. /\ at' \in [Thread -> R!Place] /\ at'[t] = "stop"
      /\ \A u \in Thread \ {t} : at'[u] = at[u]
  BY <1>1, GoesTypes DEF R!Place, LifeInv
<1>3. R!TypeOK'
  BY <1>1, <1>2, CountTypes DEF R!TypeOK, LifeInv
<1>4. Orderly'
  BY <1>1, <1>2, TwoThreads DEF LifeInv, Orderly, HasTransport, GoneIsOver, ListedAtLast, EndsInOrder, Outside, R!Stopped, Thread
<1> QED
  BY <1>3, <1>4 DEF LifeInv

-----------------------------------------------------------------------------
(* The main loop, users and the other end *)

LEMMA MainStep ==
    ASSUME R!Legal, LifeInv, R!Drain \/ R!Tick
    PROVE  LifeInv'
<1>0. /\ R!TypeOK /\ events \in Seq(Event) /\ <<>> \in Seq(Event)
      /\ watched \in R!Off .. MaxAttempts /\ MaxAttempts \in Nat
  BY EmptyQueue DEF LifeInv, R!TypeOK, Event, R!Legal
<1>1. CASE R!Drain
  <2>1. watched' \in {watched, R!Off, 0} /\ {R!Off, 0} \subseteq R!Off .. MaxAttempts
    BY <1>0, <1>1 DEF R!Drain, R!Off
  <2>2. /\ R!Goes(Main, "ready") /\ events' = <<>>
        /\ UNCHANGED <<setup, key, object, made, link, peer, connector, mine, stuck, failures>>
    BY <1>1 DEF R!Drain
  <2>3. watched' \in R!Off .. MaxAttempts
    BY <1>0, <2>1
  <2> QED
    BY <1>0, <2>2, <2>3, MainGoesOn DEF R!Place
<1>2. CASE R!Tick
  <2>1. watched' \in R!Off .. MaxAttempts
    <3>1. \/ watched' = watched
          \/ watched' = IF key = "id" \/ R!GivesUp(watched + 1) THEN R!Off ELSE watched + 1
      BY <1>2 DEF R!Tick
    <3> QED
      BY <1>0, <3>1 DEF R!GivesUp, R!Off
  <2>2. /\ \/ R!Goes(Main, "stop") /\ key = "id"
           \/ R!Goes(Main, "drain")
        /\ UNCHANGED <<setup, key, object, made, link, peer, events, connector, mine, stuck, failures>>
    BY <1>2 DEF R!Tick
  <2> QED
    BY <1>0, <2>1, <2>2, MainGoesOn DEF R!Place
<1> QED
  BY <1>1, <1>2

LEMMA WorldStep ==
    ASSUME R!Legal, LifeInv, R!Disconnect \/ R!ConfigComplete \/ R!Lose \/ R!PeerTurns
    PROVE  LifeInv'
<1>0. /\ R!TypeOK /\ events \in Seq(Event) /\ failures' \in 0 .. MaxFaults
      /\ UNCHANGED <<setup, object, made, watched, at, connector, mine>> /\ stuck' \in BOOLEAN
  BY CountTypes DEF LifeInv, R!TypeOK, Event, R!Disconnect, R!ConfigComplete, R!Lose, R!PeerTurns
<1>4. CASE R!ConfigComplete
  <2>1. UNCHANGED <<key, link, peer, events>>
    BY <1>4 DEF R!ConfigComplete
  <2>2. R!TypeOK'
    BY <1>0, <2>1 DEF R!TypeOK
  <2>3. Orderly'
    BY <1>0, <2>1 DEF LifeInv, Orderly, HasTransport, GoneIsOver, ListedAtLast, EndsInOrder, Outside, R!Stopped, Thread
  <2> QED
    BY <2>2, <2>3 DEF LifeInv
<1>1. CASE R!Disconnect
  <2>1. events' \in Seq(Event)
    BY <1>0, <1>1, EndingTypes DEF R!Disconnect, Event
  <2>2. /\ at[Main] \in {"drain", "ready", "idle"} /\ key = "id" /\ key' = "gone" /\ link' = "none"
        /\ peer' = peer
    BY <1>1 DEF R!Disconnect, R!Free
  <2>3. R!TypeOK'
    BY <1>0, <2>1, <2>2 DEF R!TypeOK, Event
  <2>4. Orderly'
    BY <1>0, <2>2, TwoThreads DEF LifeInv, Orderly, HasTransport, GoneIsOver, ListedAtLast, EndsInOrder, Outside, R!Stopped, Thread
  <2> QED
    BY <2>3, <2>4 DEF LifeInv
<1>2. CASE R!Lose
  <2>1. events' \in Seq(Event)
    BY <1>0, <1>2, EndingTypes DEF R!Lose, Event, R!Legal
  <2>2. link = "up" /\ link' = "lost" /\ UNCHANGED <<key, peer>>
    BY <1>2 DEF R!Lose
  <2>3. R!TypeOK'
    BY <1>0, <2>1, <2>2 DEF R!TypeOK, Event
  <2>4. Orderly'
    BY <1>0, <2>2 DEF LifeInv, Orderly, HasTransport, GoneIsOver, ListedAtLast, EndsInOrder, Outside, R!Stopped, Thread
  <2> QED
    BY <2>3, <2>4 DEF LifeInv
<1>3. CASE R!PeerTurns
  <2>1. peer' \in {"well", "refuses", "rejects"} /\ UNCHANGED <<key, link, events>>
    BY <1>3 DEF R!PeerTurns
  <2>2. R!TypeOK'
    BY <1>0, <2>1 DEF R!TypeOK
  <2>3. Orderly'
    BY <1>0, <2>1 DEF LifeInv, Orderly, HasTransport, GoneIsOver, ListedAtLast, EndsInOrder, Outside, R!Stopped, Thread
  <2> QED
    BY <2>2, <2>3 DEF LifeInv
<1> QED
  BY <1>1, <1>2, <1>3, <1>4

LEMMA StepLife == R!Legal /\ LifeInv /\ Alone /\ [R!Next]_(R!vars) => LifeInv'
<1> SUFFICES ASSUME R!Legal, LifeInv, Alone, [R!Next]_(R!vars) PROVE LifeInv'
  OBVIOUS
<1>1. CASE UNCHANGED R!vars
  <2>1. R!TypeOK'
    BY <1>1 DEF R!vars, R!TypeOK, LifeInv
  <2>2. Orderly'
    BY <1>1 DEF R!vars, LifeInv, Orderly, HasTransport, GoneIsOver, ListedAtLast, EndsInOrder, Outside, R!Stopped, Thread
  <2> QED
    BY <2>1, <2>2 DEF LifeInv
<1> QED
  BY <1>1, ConnectingStep, ShutDownStep, ReconnectingStep, CallStep, MainStep, WorldStep DEF R!Next

-----------------------------------------------------------------------------
(* The headless loop on its own *)

\* The headless loop
\* begins when the device has been connected.  While a connection is up the
\* loop does not watch for its return, and what is in the queue will not make
\* it: the last event it will act on is not the end of a connection, since the
\* new one's EvConnected was pushed behind the old one's end.
BeginsConnected == Headless /\ connector # "done" => at[Main] = "connect" /\ watched = R!Off
UpIsKnown == Headless /\ ~ WebUsers /\ link = "up" => watched = R!Off /\ ~ R!Decides(events, "disconnected")

Steady == Alone /\ BeginsConnected /\ UpIsKnown /\ RepairsOnlyTheBroken

\* After an EvConnected there is nothing in the queue that would make the loop
\* watch.
LEMMA ConnectedDecides ==
    ASSUME NEW q \in Seq(Event)
    PROVE  ~ R!Decides(Append(q, "connected"), "disconnected") /\ ~ R!Decides(<<>>, "disconnected")
<1> DEFINE r == Append(q, "connected")
           n == Len(q) + 1
<1>1. Len(q) \in Nat /\ Len(r) = n /\ DOMAIN r = 1 .. n /\ r[n] = "connected"
  BY AppendProperties, LenProperties DEF Event
<1> HIDE DEF r
<1>2. ASSUME NEW i \in DOMAIN r, r[i] = "disconnected"
      PROVE  \E j \in i + 1 .. Len(r) : r[j] = "connected"
  <2>1. i \in 1 .. n /\ i # n
    BY <1>1, <1>2
  <2>2. n \in i + 1 .. Len(r)
    BY <1>1, <2>1
  <2> QED
    BY <1>1, <2>2
<1>3. ~ R!Decides(r, "disconnected")
  BY <1>2 DEF R!Decides
<1>4. DOMAIN <<>> = {}
  OBVIOUS
<1> QED
  BY <1>3, <1>4 DEF R!Decides, r

LEMMA InitSteady == R!Legal /\ R!Init => Steady
<1> SUFFICES ASSUME R!Legal, R!Init PROVE Steady
  OBVIOUS
<1>1. at[Web] = "idle" /\ watched = R!Off /\ link = "none" /\ (Headless => at[Main] = "connect")
  BY TwoThreads DEF R!Init
<1> QED
  BY <1>1 DEF Steady, Alone, BeginsConnected, UpIsKnown, RepairsOnlyTheBroken

LEMMA ConnectingSteady == R!Legal /\ LifeInv /\ Steady /\ R!Connecting => Steady'
<1> SUFFICES ASSUME R!Legal, LifeInv, Steady, R!Connecting PROVE Steady'
  OBVIOUS
<1>0. /\ events \in Seq(Event) /\ UNCHANGED <<setup, watched, at>>
      /\ (Headless <=> Headless') /\ (WebUsers <=> WebUsers')
  BY DEF LifeInv, R!TypeOK, Event, R!Connecting, R!ConnectOpen, R!ConnectStart, R!ConnectList, Headless, WebUsers
<1>1. connector # "done" /\ \A t \in Thread : Outside(t)
  BY DEF LifeInv, Orderly, ListedAtLast, R!Connecting, R!ConnectOpen, R!ConnectStart, R!ConnectList
<1>2. at[Main] # "stop"
  BY <1>1, TwoThreads DEF Outside
<1>3. Headless => watched = R!Off
  BY <1>1 DEF Steady, BeginsConnected
<1>4. link' = "up" => events' = Append(events, "connected") \/ (link = "up" /\ events' = events)
  <2>1. CASE R!ConnectOpen
    BY <2>1 DEF R!ConnectOpen, LifeInv, Orderly, ListedAtLast
  <2>2. CASE R!ConnectStart
    BY <2>2 DEF R!ConnectStart
  <2>3. CASE R!ConnectList
    BY <2>3 DEF R!ConnectList
  <2> QED
    BY <2>1, <2>2, <2>3 DEF R!Connecting
<1>5. UpIsKnown'
  BY <1>0, <1>3, <1>4, ConnectedDecides DEF Steady, UpIsKnown, R!Decides
<1>6. Alone'
  BY <1>0 DEF Steady, Alone
<1>7. BeginsConnected'
  BY <1>0, <1>1 DEF Steady, BeginsConnected
<1>8. RepairsOnlyTheBroken'
  BY <1>0, <1>2 DEF RepairsOnlyTheBroken
<1> QED
  BY <1>5, <1>6, <1>7, <1>8 DEF Steady

LEMMA ReconnectingSteady ==
    ASSUME R!Legal, LifeInv, Steady, NEW t \in Thread, R!Reconnecting(t)
    PROVE  Steady'
<1>0. /\ events \in Seq(Event) /\ UNCHANGED <<setup, connector>>
      /\ (Headless <=> Headless') /\ (WebUsers <=> WebUsers')
      /\ at[t] \in {"stop", "open", "start"}
  BY DEF LifeInv, R!TypeOK, Event, R!Reconnecting, R!Stop, R!Open, R!Start, Headless, WebUsers
<1>1. WebUsers \/ t = Main
  BY <1>0, TwoThreads DEF Steady, Alone, Thread
<1>2. /\ at' \in [Thread -> R!Place] /\ \A u \in Thread \ {t} : at'[u] = at[u]
      /\ at'[t] \in {"drain", "idle", "open", "start"}
  <2>1. CASE R!Stop(t)
    BY <2>1, GoesTypes DEF R!Stop, LifeInv, R!Place
  <2>2. CASE R!Open(t)
    BY <2>2, GoesTypes, ReturnedTypes DEF R!Open, LifeInv, R!Place
  <2>3. CASE R!Start(t)
    BY <2>3, ReturnedTypes DEF R!Start, LifeInv
  <2> QED
    BY <2>1, <2>2, <2>3 DEF R!Reconnecting
<1>3. Alone'
  BY <1>0, <1>1, <1>2, TwoThreads DEF Steady, Alone
<1>4. connector = "done"
  BY <1>0, TwoThreads DEF LifeInv, Orderly, ListedAtLast, Outside
<1>5. BeginsConnected'
  BY <1>0, <1>4 DEF BeginsConnected
<1>6. ~ WebUsers => at'[Main] # "stop"
  BY <1>1, <1>2
<1>7. RepairsOnlyTheBroken'
  BY <1>0, <1>6 DEF RepairsOnlyTheBroken
<1>8. ASSUME Headless, ~ WebUsers, link' = "up" PROVE watched' = R!Off /\ ~ R!Decides(events', "disconnected")
  <2>1. ~ R!Stop(t)
    BY <1>8 DEF R!Stop
  <2>2. CASE R!Open(t)
    <3>1. link = "up" /\ events' = events
      BY <1>8, <2>2 DEF R!Open
    <3>2. watched = R!Off /\ ~ R!Decides(events, "disconnected")
      BY <1>8, <3>1 DEF Steady, UpIsKnown
    <3>3. watched' \in {watched, R!Off}
      BY <2>2 DEF R!Open, R!Returned
    <3> QED
      BY <3>1, <3>2, <3>3
  <2>3. CASE R!Start(t)
    <3>1. watched' = R!Off
      BY <1>1, <1>8, <2>3 DEF R!Start, R!Returned
    <3>2. events' = Append(events, "connected")
      BY <1>8, <2>3 DEF R!Start
    <3> QED
      BY <1>0, <3>1, <3>2, ConnectedDecides
  <2> QED
    BY <2>1, <2>2, <2>3 DEF R!Reconnecting
<1>9. UpIsKnown'
  BY <1>0, <1>8 DEF UpIsKnown, R!Decides
<1> QED
  BY <1>3, <1>5, <1>7, <1>9 DEF Steady

\* A step that leaves the connection and the list of what is watched alone, and
\* empties the queue at most.
LEMMA QuietSteady ==
    ASSUME R!Legal, LifeInv, Steady, UNCHANGED <<setup, connector, watched>>, at'[Web] = at[Web],
           link' = "up" => link = "up" /\ (events' = events \/ events' = <<>>),
           at'[Main] = at[Main] \/ connector = "done",
           at'[Main] # "stop" \/ at'[Main] = at[Main]
    PROVE  Steady'
<1>0. events \in Seq(Event) /\ (Headless <=> Headless') /\ (WebUsers <=> WebUsers')
  BY DEF LifeInv, R!TypeOK, Event, Headless, WebUsers
<1>1. Alone' /\ BeginsConnected' /\ RepairsOnlyTheBroken'
  BY <1>0 DEF Steady, Alone, BeginsConnected, RepairsOnlyTheBroken
<1>2. ~ R!Decides(<<>>, "disconnected")
  BY <1>0, ConnectedDecides
<1>3. ASSUME Headless, ~ WebUsers, link' = "up" PROVE watched' = R!Off /\ ~ R!Decides(events', "disconnected")
  <2>1. watched = R!Off /\ ~ R!Decides(events, "disconnected")
    BY <1>3 DEF Steady, UpIsKnown
  <2> QED
    BY <1>2, <1>3, <2>1
<1>4. UpIsKnown'
  BY <1>0, <1>3 DEF UpIsKnown, R!Decides
<1> QED
  BY <1>1, <1>4 DEF Steady

LEMMA MainSteady ==
    ASSUME R!Legal, LifeInv, Steady, R!Drain \/ R!Tick
    PROVE  Steady'
<1>0. /\ events \in Seq(Event) /\ UNCHANGED <<setup, connector, link>>
      /\ (Headless <=> Headless') /\ (WebUsers <=> WebUsers')
      /\ at[Main] \in {"drain", "ready"}
  BY DEF LifeInv, R!TypeOK, Event, R!Drain, R!Tick, R!Due, Headless, WebUsers
<1>1. /\ at' \in [Thread -> R!Place] /\ at'[Web] = at[Web]
      /\ at'[Main] = "stop" => R!Tick /\ watched # R!Off /\ (Headless => watched' = watched)
  <2>1. CASE R!Drain
    BY <2>1, GoesTypes, TwoThreads DEF R!Drain, LifeInv, R!Place
  <2>2. CASE R!Tick
    <3>1. (\E p \in {"stop", "drain"} : R!Goes(Main, p)) /\ watched # R!Off
      BY <2>2 DEF R!Tick, R!Due
    <3>2. Headless => watched' = watched
      BY <2>2 DEF R!Tick
    <3>3. at' \in [Thread -> R!Place] /\ at'[Web] = at[Web]
      BY <3>1, GoesTypes, TwoThreads DEF LifeInv, R!Place
    <3> QED
      BY <2>2, <3>1, <3>2, <3>3
  <2> QED
    BY <2>1, <2>2
<1>2. Alone'
  BY <1>0, <1>1 DEF Steady, Alone
<1>3. Headless => connector = "done"
  BY <1>0 DEF Steady, BeginsConnected
<1>4. BeginsConnected'
  BY <1>0, <1>3 DEF BeginsConnected
<1>5. ASSUME Headless, ~ WebUsers, link = "up"
      PROVE  watched' = R!Off /\ ~ R!Decides(events', "disconnected") /\ at'[Main] # "stop"
  <2>1. watched = R!Off /\ ~ R!Decides(events, "disconnected")
    BY <1>5 DEF Steady, UpIsKnown
  <2>2. at'[Main] # "stop"
    BY <1>1, <2>1
  <2>3. CASE R!Drain
    <3>1. watched' = R!Off
      BY <1>5, <2>1, <2>3 DEF R!Drain
    <3>2. events' = <<>>
      BY <2>3 DEF R!Drain
    <3> QED
      BY <1>0, <2>2, <3>1, <3>2, ConnectedDecides
  <2>4. ~ R!Tick
    BY <2>1 DEF R!Tick, R!Due
  <2> QED
    BY <2>3, <2>4
<1>6. UpIsKnown' /\ RepairsOnlyTheBroken'
  BY <1>0, <1>5 DEF UpIsKnown, RepairsOnlyTheBroken, R!Decides
<1> QED
  BY <1>2, <1>4, <1>6 DEF Steady

\* The rest of the steps: where the main thread goes, and that no connection
\* comes up.
LEMMA OtherSteady ==
    ASSUME R!Legal, LifeInv, Steady, R!Begin \/ R!Quit \/ R!Ends \/ R!StopServer \/ R!Disconnect
                                   \/ R!ConfigComplete \/ R!Lose \/ R!PeerTurns
    PROVE  Steady'
<1>1. ASSUME NEW p \in R!Place \ {"stop"}, R!Goes(Main, p), UNCHANGED <<setup, connector, watched>>,
             link' = "up" => link = "up" /\ (events' = events \/ events' = <<>>),
             at[Main] # "connect" \/ connector = "done"
      PROVE  Steady'
  <2>1. at'[Main] = p /\ at'[Web] = at[Web]
    BY <1>1, GoesTypes, TwoThreads DEF LifeInv
  <2>2. Headless => connector = "done"
    BY <1>1 DEF Steady, BeginsConnected
  <2>3. CASE connector = "done"
    BY <1>1, <2>1, <2>3, QuietSteady
  <2>4. CASE ~ Headless
    <3>1. ~ Headless' /\ (WebUsers <=> WebUsers')
      BY <1>1, <2>4 DEF Headless, WebUsers
    <3> QED
      BY <2>1, <3>1 DEF Steady, Alone, BeginsConnected, UpIsKnown, RepairsOnlyTheBroken
  <2> QED
    BY <2>2, <2>3, <2>4
<1>2. CASE R!Begin
  <2>1. /\ \E p \in {"drain", "returned"} : R!Goes(Main, p)
        /\ UNCHANGED <<setup, connector, watched, link>> /\ connector = "done"
        /\ events' \in {events, <<>>}
    BY <1>2 DEF R!Begin
  <2> QED
    BY <1>1, <2>1 DEF R!Place
<1>3. CASE R!Quit
  BY <1>1, <1>3 DEF R!Quit, R!Place
<1>4. CASE R!StopWeb
  BY <1>1, <1>4 DEF R!StopWeb, R!Place
<1>5. R!DisconnectAll => (link' = "up" => link = "up" /\ events' = events)
  BY DEF R!DisconnectAll
<1>6. CASE R!Close
  BY <1>1, <1>5, <1>6 DEF R!Close, R!Place
<1>7. CASE R!Return
  BY <1>1, <1>7 DEF R!Return, R!Place
<1>8. CASE R!Destroy
  BY <1>1, <1>5, <1>8 DEF R!Destroy, R!Place
<1>9. CASE R!Disconnect \/ R!ConfigComplete \/ R!Lose \/ R!PeerTurns
  <2>1. UNCHANGED <<setup, connector, watched, at>> /\ (link' = "up" => link = "up" /\ events' = events)
    BY <1>9 DEF R!Disconnect, R!ConfigComplete, R!Lose, R!PeerTurns
  <2> QED
    BY <2>1, QuietSteady
<1>10. CASE R!StopServer
  BY <1>1, <1>10 DEF R!StopServer, R!Place
<1> QED
  BY <1>2, <1>3, <1>4, <1>6, <1>7, <1>8, <1>9, <1>10 DEF R!Ends

LEMMA CallSteady ==
    ASSUME R!Legal, LifeInv, Steady, NEW t \in Thread, R!Call(t)
    PROVE  Steady'
<1>1. /\ R!Goes(t, "stop") /\ UNCHANGED <<setup, connector, watched, link, events>>
      /\ (t = Web => WebUsers) /\ (t = Main => ~ Headless)
      /\ (Headless <=> Headless') /\ (WebUsers <=> WebUsers')
  BY DEF R!Call, Headless, WebUsers
<1>2. at'[t] = "stop" /\ \A u \in Thread \ {t} : at'[u] = at[u]
  BY <1>1, GoesTypes DEF R!Place, LifeInv
<1>3. t = Main \/ t = Web
  BY DEF Thread
<1>4. Alone' /\ BeginsConnected' /\ RepairsOnlyTheBroken'
  BY <1>1, <1>2, <1>3, TwoThreads DEF Steady, Alone, BeginsConnected, RepairsOnlyTheBroken
<1>5. UpIsKnown'
  BY <1>1 DEF Steady, UpIsKnown, R!Decides
<1> QED
  BY <1>4, <1>5 DEF Steady

LEMMA StepSteady == R!Legal /\ LifeInv /\ Steady /\ [R!Next]_(R!vars) => Steady'
<1> SUFFICES ASSUME R!Legal, LifeInv, Steady, [R!Next]_(R!vars) PROVE Steady'
  OBVIOUS
<1>1. CASE UNCHANGED R!vars
  <2>1. UNCHANGED <<setup, connector, watched, link, events, at>>
    BY <1>1 DEF R!vars
  <2> QED
    BY <2>1, QuietSteady
<1> QED
  BY <1>1, ConnectingSteady, ReconnectingSteady, MainSteady, OtherSteady, CallSteady DEF R!Next

LEMMA LifeInvariance == R!Legal => (R!Spec => [](LifeInv /\ Steady))
<1> SUFFICES ASSUME R!Legal PROVE R!Spec => [](LifeInv /\ Steady)
  OBVIOUS
<1>1. R!Init => LifeInv /\ Steady
  BY InitLife, InitSteady
<1>2. LifeInv /\ Steady /\ [R!Next]_(R!vars) => LifeInv' /\ Steady'
  BY StepLife, StepSteady DEF Steady
<1> QED
  BY <1>1, <1>2, PTL DEF R!Spec

\* The variables of Reconnect have their types; in particular the attempts the
\* terminal makes stay within their maximum.
THEOREM ReconnectTypesKept == R!Legal => (R!Spec => []R!TypeOK)
<1> SUFFICES ASSUME R!Legal PROVE R!Spec => []R!TypeOK
  OBVIOUS
<1>0. R!Spec => [](LifeInv /\ Steady)
  BY LifeInvariance
<1>1. LifeInv => R!TypeOK
  BY DEF LifeInv
<1> QED
  BY <1>0, <1>1, PTL

\* A device that its user has disconnected has no connection left once no
\* call is under way, whatever a web user was reconnecting meanwhile.
THEOREM DisconnectedStaysDown == R!Legal => (R!Spec => []DisconnectedStays)
<1> SUFFICES ASSUME R!Legal PROVE R!Spec => []DisconnectedStays
  OBVIOUS
<1>0. R!Spec => [](LifeInv /\ Steady)
  BY LifeInvariance
<1>1. LifeInv => DisconnectedStays
  BY DEF LifeInv, Orderly, GoneIsOver, DisconnectedStays
<1> QED
  BY <1>0, <1>1, PTL

\* When the program is over the device has no connection, and nobody can give it
\* one: the web server was stopped before the devices, and connect_device was
\* waited for before the service went.
THEOREM NothingOutlivesTheProgram == R!Legal => (R!Spec => [](at[Main] = "over" => link = "none"))
<1> SUFFICES ASSUME R!Legal PROVE R!Spec => [](at[Main] = "over" => link = "none")
  OBVIOUS
<1>0. R!Spec => [](LifeInv /\ Steady)
  BY LifeInvariance
<1>1. LifeInv => (at[Main] = "over" => link = "none")
  BY DEF LifeInv, Orderly, GoneIsOver, EndsInOrder
<1> QED
  BY <1>0, <1>1, PTL

\* The headless loop never tears down a connection that works: whatever events
\* are on their way when a connection comes up, it does not take it for the one
\* that was lost (run_app, app.cpp).
THEOREM OnlyTheBrokenIsRepaired == R!Legal => (R!Spec => []RepairsOnlyTheBroken)
<1> SUFFICES ASSUME R!Legal PROVE R!Spec => []RepairsOnlyTheBroken
  OBVIOUS
<1>0. R!Spec => [](LifeInv /\ Steady)
  BY LifeInvariance
<1>1. Steady => RepairsOnlyTheBroken
  BY DEF Steady
<1> QED
  BY <1>0, <1>1, PTL

-----------------------------------------------------------------------------
(* The order of the end *)

\* From the disconnection of a device that was no longer being connected on.
Closing ==
    /\ at[Main] \in {"close", "join", "returned", "over"} /\ connector = "done"
    /\ at[Main] # "close" => link # "up"

LEMMA ClosingStays == R!Legal /\ LifeInv /\ Closing /\ [R!Next]_(R!vars) => Closing'
<1> SUFFICES ASSUME R!Legal, LifeInv, Closing, [R!Next]_(R!vars) PROVE Closing'
  OBVIOUS
<1>0. /\ at[Main] \in {"close", "join", "returned", "over"} /\ at[Web] = "idle"
      /\ connector = "done" /\ (at[Main] # "close" => link # "up")
  BY DEF Closing, R!Stopped, LifeInv, Orderly, EndsInOrder
<1>1. CASE UNCHANGED R!vars
  BY <1>1 DEF R!vars, Closing, R!Stopped
<1>2. ASSUME NEW t \in Thread PROVE ~ R!Reconnecting(t) /\ ~ R!Call(t)
  <2>1. at[t] \in {"close", "join", "returned", "over", "idle"} /\ (at[t] = "idle" => t = Web \/ R!Stopped)
    BY <1>0 DEF Thread
  <2>2. ~ R!Reconnecting(t)
    BY <2>1 DEF R!Reconnecting, R!Stop, R!Open, R!Start
  <2>3. ~ R!Call(t)
    <3>1. t = Web => ~ R!Call(t)
      BY DEF Closing, R!Call, R!Stopped
    <3>2. t = Main => ~ R!Call(t)
      BY <1>0 DEF R!Call, R!Free
    <3> QED
      BY <3>1, <3>2 DEF Thread
  <2> QED
    BY <2>2, <2>3
<1>3. /\ ~ R!Connecting /\ ~ R!Begin /\ ~ R!Drain /\ ~ R!Tick /\ ~ R!Quit /\ ~ R!StopWeb
      /\ ~ R!StopServer /\ ~ R!Disconnect
  BY <1>0 DEF R!Connecting, R!ConnectOpen, R!ConnectStart, R!ConnectList, R!Begin, R!Drain, R!Tick, R!Due, R!Quit,
     R!StopWeb, R!StopServer, R!Disconnect, R!Free
<1>4. ASSUME NEW p \in {"join", "returned", "over"}, R!Goes(Main, p), UNCHANGED connector, link' # "up"
      PROVE  Closing'
  <2>1. at'[Main] = p
    BY <1>4, GoesTypes, TwoThreads DEF LifeInv, R!Place
  <2> QED
    BY <1>0, <1>4, <2>1 DEF Closing, R!Stopped
<1>5. R!DisconnectAll => link' # "up"
  <2>1. ~ R!Listed => key = "gone"
    BY <1>0 DEF R!Listed, LifeInv, R!TypeOK, Orderly, ListedAtLast
  <2>2. key = "gone" => link = "none"
    BY DEF LifeInv, Orderly, GoneIsOver
  <2> QED
    BY <2>1, <2>2 DEF R!DisconnectAll
<1>6. CASE R!Close \/ R!Destroy
  BY <1>4, <1>5, <1>6 DEF R!Close, R!Destroy
<1>7. CASE R!Return
  BY <1>0, <1>4, <1>7 DEF R!Return
<1>8. CASE R!ConfigComplete \/ R!Lose \/ R!PeerTurns
  <2>1. UNCHANGED <<at, connector>> /\ (link' = link \/ link' = "lost")
    BY <1>8 DEF R!ConfigComplete, R!Lose, R!PeerTurns
  <2> QED
    BY <1>0, <2>1 DEF Closing, R!Stopped
<1> QED
  BY <1>1, <1>2, <1>3, <1>6, <1>7, <1>8 DEF R!Next, R!Ends

\* Once run_app has returned there is no reading thread that would push into its
\* queue, unless the device was still being connected when all were
\* disconnected (run_app, ~MeshService).
THEOREM OnlyTheLateOutlive == R!Legal => (R!Spec => OnlyLateOutlives)
<1> SUFFICES ASSUME R!Legal PROVE R!Spec => OnlyLateOutlives
  OBVIOUS
<1>0. R!Spec => [](LifeInv /\ Steady)
  BY LifeInvariance
<1>1. LifeInv /\ at[Main] = "close" /\ connector = "done" => Closing
  BY DEF LifeInv, Closing, R!Stopped
<1>2. Closing => (at[Main] \in {"returned", "over"} => link # "up")
  BY DEF Closing
<1>3. LifeInv /\ Closing /\ [R!Next]_(R!vars) => Closing'
  BY ClosingStays
<1> QED
  BY <1>0, <1>1, <1>2, <1>3, PTL DEF R!Spec, OnlyLateOutlives
=============================================================================
