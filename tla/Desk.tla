-------------------------------- MODULE Desk --------------------------------
(***************************************************************************)
(* The terminal UI's event queue and its windows                           *)
(* (src/src/tui/window_manager.cpp, window.cpp, tui.cpp, command.cpp,      *)
(* src/src/util/event_loop.h, and the ends of mesh_service.cpp that feed   *)
(* the queue).                                                             *)
(*                                                                         *)
(* A device's reading thread stores what it hears, pushes an event and     *)
(* writes to an eventfd, in three steps.  The UI thread alone touches the  *)
(* windows: it drains the eventfd, drains the queue, handles the events    *)
(* one by one and then the user's keys.  A window that has no lines reads  *)
(* the stored messages of its conversation when it is asked for, so it may *)
(* show a message whose event still waits.                                 *)
(*                                                                         *)
(* A web request sends messages too, on a thread of the web server: it     *)
(* stores and announces what it sent as a reading thread does what it      *)
(* heard.  Others' messages and those of web requests may answer another   *)
(* message; what the terminal sends never does (command.cpp).              *)
(*                                                                         *)
(* A talk is a pair <<kind, target>>.  A window's lines are the messages   *)
(* it shows and the marks of acknowledgements; the texts of the status     *)
(* window are left out, that it has unread ones is not.  The 200 messages  *)
(* a history holds and the 5000 lines a window holds are out of reach.     *)
(***************************************************************************)
EXTENDS Integers, Sequences, FiniteSets, SequencesExt

CONSTANTS
    Devices,    \* the devices
    Web,        \* the thread of a web request
    NoDevice,   \* the device id "" of a window made before any is known
    AllDevices, \* the device id "*" of the node list of several devices
    Peers,      \* other nodes
    Me,         \* the node of this user's own radios
    Everyone,   \* kBroadcastNodeNum
    Channels,   \* channel indices
    Primary,    \* channel index 0, which has a name even when the radio gave none
    Heard,      \* messages of others
    Posted,     \* messages web requests send, with want_ack false
    Packet,     \* Packet[m], m in Carried: its from, to and channel, and what it answers
    NoMessage,  \* reply_id 0
    Hears,      \* Hears[d]: the messages of others in reach of d, and those posted over d
    Linked,     \* devices that are connected before run() begins
    Typed,      \* messages the user will type
    Old,        \* messages of an earlier run
    OldRows,    \* what the database held before
    Ack,        \* the line that reports an acknowledgement
    MaxEvents,  \* bound: events of the devices
    MaxKeys     \* bound: commands of the user

Talks == {<<"channel", c>> : c \in Channels} \cup {<<"dm", p>> : p \in Peers \cup {Me}}
Carried == Heard \cup Posted
Messages == Old \cup Carried \cup Typed
Threads == Devices \cup {Web}
Rows == [device : Devices, talk : Talks, msg : Messages]

ASSUME DeskAssumption ==
    /\ NoDevice \notin Devices /\ AllDevices \notin Devices \cup {NoDevice}
    /\ Me \notin Peers /\ Everyone \notin Peers \cup {Me}
    /\ Primary \in Channels
    /\ Packet \in [Carried -> [from : Peers \cup {Me}, to : Peers \cup {Me, Everyone}, channel : Channels,
                              reply : Messages \cup {NoMessage}]]
    /\ \A m \in Heard : Packet[m].from # Me
    /\ \A m \in Posted : Packet[m].from = Me
    /\ Web \notin Devices /\ NoMessage \notin Messages
    /\ Hears \in [Devices -> SUBSET Carried]
    /\ Linked \subseteq Devices /\ IsFiniteSet(Linked)
    /\ Heard \cap Posted = {} /\ Old \cap Carried = {} /\ Typed \cap (Old \cup Carried) = {} /\ Ack \notin Messages
    /\ OldRows \in Seq(Rows)
    /\ \A i \in DOMAIN OldRows : OldRows[i].msg \in Old
    /\ \A i, j \in DOMAIN OldRows : OldRows[i].msg = OldRows[j].msg => OldRows[i].talk = OldRows[j].talk
    /\ MaxEvents \in Nat /\ MaxKeys \in Nat

VARIABLES
    link,      \* link[d]: "off", "started" (start() runs) or "registered" (in devices_)
    hand,      \* hand[t]: events thread t, a device's or Web, still has to push
    tells,     \* tells[t]: it has pushed one and not yet written to the eventfd
    got,       \* what was heard, posted or acknowledged: <<t, message>>, <<t, channel>>
    rows,      \* the messages table, in the order of its rows
    queue,     \* the UI's event queue
    wake,      \* the eventfd's counter is not 0
    ui,        \* the UI thread: "poll", "take" (eventfd drained), "handle"
    batch,     \* the events it took from the queue and has not handled
    opening,   \* the stored talks it goes through: of a device, and of those to follow
    wm,        \* the WindowManager: windows_, by_key_, current_
    keys,      \* commands the user has given
    handled,   \* the messages whose event the UI has handled
    seen,      \* the messages that were in the current window, or in one closed
    passed,    \* the messages of windows select() marked read on its way to another
    cleared    \* the messages the user cleared away

feed == <<link, hand, tells, got>>
screen == <<ui, batch, opening, wm, keys, handled, seen, passed, cleared>>
vars == <<feed, rows, queue, wake, screen>>

------------------------------------------------------------------------------
(* Conversations *)

\* The window in which append_text shows it.
ShownIn(p) ==
    IF p.to = Everyone THEN <<"channel", p.channel>>
    ELSE <<"dm", IF p.from = Me THEN p.to ELSE p.from>>

\* find_by_packet_id: the places of a message's rows; the last one counts.
RowsOf(rs, m) == {i \in DOMAIN rs : rs[i].msg = m}
LastRow(rs, m) == rs[CHOOSE i \in RowsOf(rs, m) : \A j \in RowsOf(rs, m) : j <= i]

\* Where handle_event and send_text store a packet: with the message it answers.
StoredIn(rs, p) ==
    IF RowsOf(rs, p.reply) # {} THEN LastRow(rs, p.reply).talk
    ELSE IF p.to = Everyone THEN <<"channel", p.channel>>
    ELSE <<"dm", IF p.from = Me THEN p.to ELSE p.from>>

\* Window::append_line: a message equal to the last line is dropped if the two are
\* at most two seconds apart, as the copies of one message are here; two different
\* messages differ in their texts.
Extended(lines, line) ==
    IF lines # <<>> /\ Last(lines) = line /\ line # Ack
    THEN lines ELSE Append(lines, line)

\* The lines load_history makes of the rows of a talk and a device, or of any.
LinesOf(rs, device, talk) ==
    LET lines[n \in 0..Len(rs)] ==
            IF n = 0 THEN <<>>
            ELSE IF rs[n].talk = talk /\ device \in {NoDevice, rs[n].device}
                 THEN Extended(lines[n - 1], rs[n].msg) ELSE lines[n - 1]
    IN  lines[Len(rs)]

\* Mutant: recent_messages does not fall back to other devices.
HistoryOfDevice(rs, device, talk) == LinesOf(rs, device, talk)

\* recent_messages of a talk: those of the device, or of all if it has none.
History(rs, device, talk) ==
    LET own == LinesOf(rs, device, talk)
    IN  IF own # <<>> THEN own ELSE LinesOf(rs, NoDevice, talk)

\* get_all_windows, in no order, as on_event(EvConnected) and run() use it.
StoredTalks(rs, device) ==
    LET of(dev) == {r.talk : r \in {x \in Range(rs) : dev \in {NoDevice, x.device}}}
    IN  IF of(device) # {} THEN of(device) ELSE of(NoDevice)

------------------------------------------------------------------------------
(* The window manager: operators from one state of it to the next *)

NewWindow(device, talk, named) ==
    [device |-> device, talk |-> talk, named |-> named, lines |-> <<>>, unread |-> FALSE]

KeyOf(w) == <<w.device, w.talk>>

AddLine(d, i, line) == [d EXCEPT !.windows[i].lines = Extended(@, line)]

LoadHistory(d, rs, i) ==
    LET w == d.windows[i]
    IN  [d EXCEPT !.windows[i].lines = IF @ = <<>> THEN History(rs, w.device, w.talk) ELSE @]

\* by_key_ with a key for window i, and of the others those in kept.
Keyed(map, kept, key, i) == [k \in kept \cup {key} |-> IF k = key THEN i ELSE map[k]]

AddWindow(d, w) ==
    [d EXCEPT !.windows = Append(@, w),
              !.by_key  = Keyed(@, DOMAIN @, KeyOf(w), Len(d.windows) + 1)]

\* The window with this key, else one of the same talk, else none.
Found(d, device, talk) ==
    LET same == {i \in 1..Len(d.windows) : d.windows[i].talk = talk}
    IN  IF <<device, talk>> \in DOMAIN d.by_key THEN {d.by_key[<<device, talk>>]}
        ELSE {i \in same : \A j \in same : i <= j}

\* Mutant: the old key stays.
RetargetKeeping(d, i, device) ==
    [d EXCEPT !.windows[i].device = device,
              !.by_key = Keyed(@, DOMAIN @, <<device, d.windows[i].talk>>, i)]

\* The window gets another device, and its key with it.
Retarget(d, i, device) ==
    [d EXCEPT !.windows[i].device = device,
              !.by_key = Keyed(@, DOMAIN @ \ {KeyOf(d.windows[i])}, <<device, d.windows[i].talk>>, i)]

\* ensure_channel, ensure_dm and ensure_nodelist (which has no history).
Ensure(d, rs, device, talk, named) ==
    IF Found(d, device, talk) = {}
    THEN LoadHistory(AddWindow(d, NewWindow(device, talk, named)), rs, Len(d.windows) + 1)
    ELSE LET i == CHOOSE x \in Found(d, device, talk) : TRUE
             moved == [Retarget(d, i, device) EXCEPT !.windows[i].named = @ \/ named]
         IN  LoadHistory(moved, rs, i)

Where(d, device, talk) == d.by_key[<<device, talk>>]

MarkRead(d, i) == [d EXCEPT !.windows[i].unread = FALSE]
Bump(d, i) == IF i = d.current THEN d ELSE [d EXCEPT !.windows[i].unread = TRUE]
AppendStatus(d) == Bump(d, 1)

AppendText(d, rs, p) ==
    LET talk   == ShownIn(p)
        opened == Ensure(d, rs, p.device, talk, FALSE)
        i      == Where(opened, p.device, talk)
        added  == AddLine(opened, i, p.msg)
    IN  IF i = d.current THEN MarkRead(added, i) ELSE AppendStatus(Bump(added, i))

AppendMeta(d, rs, device, talk) ==
    LET opened == Ensure(d, rs, device, talk, FALSE)
        i      == Where(opened, device, talk)
    IN  Bump(AddLine(opened, i, Ack), i)

AppendOutgoing(d, rs, device, talk, m) ==
    LET opened == Ensure(d, rs, device, talk, FALSE)
        i      == Where(opened, device, talk)
        added  == AddLine(opened, i, m)
    IN  IF i = d.current THEN MarkRead(added, i) ELSE added

\* Mutant: current_ stays where it is.
CloseWindowInPlace(d, i) ==
    LET left == DOMAIN d.by_key \ {KeyOf(d.windows[i])}
        windows == RemoveAt(d.windows, i)
        current == IF d.current > Len(windows) THEN Len(windows) ELSE d.current
    IN  [windows |-> windows,
         by_key  |-> [k \in left |-> IF d.by_key[k] > i THEN d.by_key[k] - 1
                                     ELSE d.by_key[k]],
         current |-> current]

\* close_window; windows after the closed one move down.
CloseWindow(d, i) ==
    LET left == DOMAIN d.by_key \ {KeyOf(d.windows[i])}
        current == IF d.current = i THEN (IF i > 2 THEN i - 1 ELSE 1)
                   ELSE IF d.current > i THEN d.current - 1 ELSE d.current
    IN  MarkRead([windows |-> RemoveAt(d.windows, i),
                  by_key  |-> [k \in left |-> IF d.by_key[k] > i THEN d.by_key[k] - 1
                                              ELSE d.by_key[k]],
                  current |-> current], current)

\* What close_if_empty closes: a conversation without lines, channels only if unnamed.
Closable(w) ==
    w.lines = <<>> /\ (w.talk[1] = "dm" \/ (w.talk[1] = "channel" /\ ~w.named))

\* select: leaving an empty conversation closes it.
SelectWindow(d, i) ==
    LET old    == d.current
        closes == old # i /\ old > 1 /\ Closable(d.windows[old])
        rest   == IF closes THEN CloseWindow(d, old) ELSE d
        at     == IF closes /\ old < i THEN i - 1 ELSE i
    IN  IF at \notin 1..Len(rest.windows) THEN rest
        ELSE MarkRead([rest EXCEPT !.current = at], at)

------------------------------------------------------------------------------
(* The reading threads, and a web request *)

Known == {d \in Devices : link[d] = "registered"} \cup {r.device : r \in Range(OldRows)}

\* The nodelist's device: "*" when there are several.
NodeListDevice(others, d) == IF Cardinality(others) > 1 THEN AllDevices ELSE d

Room == Cardinality(got) + Cardinality({d \in Devices \ Linked : link[d] # "off"}) < MaxEvents

\* connect_device: the transport starts and reports that it is connected.
Connect(d) ==
    /\ link[d] = "off" /\ Room
    /\ link' = [link EXCEPT ![d] = "started"]
    /\ hand' = [hand EXCEPT ![d] = <<[type |-> "connected", device |-> d]>>]
    /\ UNCHANGED <<tells, got, rows, queue, wake, screen>>

\* start() has returned and the device enters devices_.
Register(d) ==
    /\ link[d] = "started"
    /\ link' = [link EXCEPT ![d] = "registered"]
    /\ UNCHANGED <<hand, tells, got, rows, queue, wake, screen>>

Idle(d) == Room /\ link[d] # "off" /\ hand[d] = <<>> /\ ~tells[d]

TextEvent(d, from, to, channel, m) ==
    [type |-> "text", device |-> d, from |-> from, to |-> to, channel |-> channel, msg |-> m]

\* handle_event for a text: the row is stored before anything is announced.
\* A copy another device heard is stored too.  (An answered message that another
\* thread stores between the search for it and this row is as if it came later.)
Carry(t, d, m) ==
    /\ <<t, m>> \notin got
    /\ got' = got \cup {<<t, m>>}
    /\ rows' = Append(rows, [device |-> d, talk |-> StoredIn(rows, Packet[m]), msg |-> m])
    /\ hand' = [hand EXCEPT ![t] = <<TextEvent(d, Packet[m].from, Packet[m].to,
                                               Packet[m].channel, m)>>]
    /\ UNCHANGED <<link, tells, queue, wake, screen>>

Receive(d, m) == Idle(d) /\ Carry(d, d, m)

\* POST /api/messages: send_text over a device, if its transport takes the message.
Post(d, m) ==
    /\ Room /\ hand[Web] = <<>> /\ ~tells[Web]
    /\ link[d] = "registered"
    /\ Carry(Web, d, m)

\* handle_event for the answer to a message that was sent; Outbox has its effect.
ReceiveAck(d, m) ==
    /\ Idle(d)
    /\ <<d, m>> \notin got
    /\ \E r \in Range(rows) : r.msg = m /\ r.device = d /\ r.talk[1] = "dm"
    /\ got' = got \cup {<<d, m>>}
    /\ hand' = [hand EXCEPT ![d] = <<[type |-> "ack", device |-> d, msg |-> m]>>]
    /\ UNCHANGED <<link, tells, rows, queue, wake, screen>>

\* handle_event for the settings of a channel that is in use, which may have no name.
ReceiveChannel(d, c) ==
    /\ Idle(d)
    /\ <<d, c>> \notin got
    /\ got' = got \cup {<<d, c>>}
    /\ \E named \in BOOLEAN :
          hand' = [hand EXCEPT ![d] = <<[type |-> "channel", device |-> d, channel |-> c,
                                       named |-> named]>>]
    /\ UNCHANGED <<link, tells, rows, queue, wake, screen>>

\* dispatch_to_ui: push, then notify.
Push(t) ==
    /\ hand[t] # <<>> /\ ~tells[t]
    /\ queue' = Append(queue, Head(hand[t]))
    /\ hand' = [hand EXCEPT ![t] = Tail(@)]
    /\ tells' = [tells EXCEPT ![t] = TRUE]
    /\ UNCHANGED <<link, got, rows, wake, screen>>

Notify(t) ==
    /\ tells[t]
    /\ wake' = TRUE
    /\ tells' = [tells EXCEPT ![t] = FALSE]
    /\ UNCHANGED <<link, hand, got, rows, queue, screen>>

------------------------------------------------------------------------------
(* The UI thread: events *)

\* What the user has before him after a step.
InView(d) == Range(d.windows[d.current].lines)

Show(d) == wm' = d /\ seen' = seen \cup InView(d)

\* It goes through stored talks, before anything else.
Opening == opening.talks # {} \/ opening.later # {}

\* poll() returns with the eventfd readable; the eventfd is drained first.
PollWakes ==
    /\ ui = "poll" /\ wake /\ ~Opening
    /\ wake' = FALSE
    /\ ui' = "take"
    /\ UNCHANGED <<feed, rows, queue, batch, opening, wm, keys, handled, seen, passed, cleared>>

\* process_events: everything in the queue at once.
Take ==
    /\ ui = "take"
    /\ batch' = queue
    /\ queue' = <<>>
    /\ ui' = IF queue = <<>> THEN "poll" ELSE "handle"
    /\ UNCHANGED <<feed, rows, wake, opening, wm, keys, handled, seen, passed, cleared>>

\* Mutant: the eventfd is drained after the events.
HandleThenDrain(type, d) ==
    /\ ui = "handle" /\ ~Opening /\ Head(batch).type = type
    /\ Show(d)
    /\ batch' = Tail(batch)
    /\ ui' = IF Tail(batch) = <<>> THEN "poll" ELSE "handle"
    /\ wake' = (wake /\ Tail(batch) # <<>>)
    /\ UNCHANGED <<feed, rows, queue, keys, passed, cleared>>

\* One event of the batch is handled.
Handle(type, d) ==
    /\ ui = "handle" /\ ~Opening /\ Head(batch).type = type
    /\ Show(d)
    /\ batch' = Tail(batch)
    /\ ui' = IF Tail(batch) = <<>> THEN "poll" ELSE "handle"
    /\ UNCHANGED <<feed, rows, queue, wake, keys, passed, cleared>>

HandleText ==
    /\ ui = "handle"
    /\ Handle("text", AppendText(wm, rows, Head(batch)))
    /\ handled' = handled \cup {Head(batch).msg}
    /\ UNCHANGED opening

\* The node list, and then a window for every stored conversation.  The device's
\* channels known from an earlier run, which connect_device may have loaded by
\* now, are left out: the radio reports them again (HandleChannel).
HandleConnected ==
    LET e == Head(batch)
    IN  /\ ui = "handle"
        /\ Handle("connected", Ensure(AppendStatus(wm), rows, NodeListDevice(Known, e.device),
                                      <<"nodelist", Primary>>, TRUE))
        /\ opening' = [device |-> e.device, talks |-> StoredTalks(rows, e.device), later |-> {}]
        /\ UNCHANGED handled

\* One of the stored conversations is opened.
OpenStored(t) ==
    /\ t \in opening.talks
    /\ Show(Ensure(wm, rows, opening.device, t, t[2] = Primary))
    /\ opening' = [opening EXCEPT !.talks = @ \ {t}]
    /\ UNCHANGED <<feed, rows, queue, wake, ui, batch, keys, handled, passed, cleared>>

\* run() goes on to the next device.
NextDevice(d) ==
    /\ opening.talks = {} /\ d \in opening.later
    /\ opening' = [device |-> d, talks |-> StoredTalks(rows, d), later |-> opening.later \ {d}]
    /\ UNCHANGED <<feed, rows, queue, wake, ui, batch, wm, keys, handled, seen, passed, cleared>>

HandleChannel ==
    /\ ui = "handle"
    /\ Handle("channel", AppendStatus(Ensure(wm, rows, Head(batch).device,
                                            <<"channel", Head(batch).channel>>,
                                            Head(batch).named)))
    /\ UNCHANGED <<opening, handled>>

\* The message's last row says where the acknowledgement is shown.
HandleAck ==
    LET row == LastRow(rows, Head(batch).msg)
    IN  /\ ui = "handle"
        /\ Handle("ack", AppendStatus(AppendMeta(wm, rows, row.device, row.talk)))
        /\ UNCHANGED <<opening, handled>>

------------------------------------------------------------------------------
(* The UI thread: the user *)

Command ==
    /\ ui = "poll" /\ ~Opening
    /\ keys < MaxKeys
    /\ keys' = keys + 1
    /\ UNCHANGED <<feed, ui, batch, opening, handled>>

\* Closing the empty window the user leaves marks the one before it read.
PassOver(d, i) ==
    passed' = passed \cup
        IF i # d.current /\ d.current > 1 /\ Closable(d.windows[d.current])
        THEN Range(d.windows[d.current - 1].lines) ELSE {}

\* Alt+n, F-keys, /window.
Select(i) ==
    /\ Command
    /\ i \in 1..Len(wm.windows)
    /\ Show(SelectWindow(wm, i))
    /\ PassOver(wm, i)
    /\ UNCHANGED <<rows, queue, wake, cleared>>

\* /close.
Close(i) ==
    /\ Command
    /\ i \in 2..Len(wm.windows)
    /\ wm' = AppendStatus(CloseWindow(wm, i))
    /\ seen' = seen \cup Range(wm.windows[i].lines) \cup InView(wm')
    /\ UNCHANGED <<rows, queue, wake, passed, cleared>>

\* /clear.
Clear ==
    /\ Command
    /\ cleared' = cleared \cup InView(wm)
    /\ Show([wm EXCEPT !.windows[wm.current].lines = <<>>])
    /\ UNCHANGED <<rows, queue, wake, passed>>

\* The node popup's "Send DM" and /channel open a window and go there.
Open(d, talk) ==
    /\ Command
    /\ d \in Known
    /\ LET opened == Ensure(wm, rows, d, talk, FALSE)
       IN  /\ Show(AppendStatus(SelectWindow(opened, Where(opened, d, talk))))
           /\ PassOver(opened, Where(opened, d, talk))
    /\ UNCHANGED <<rows, queue, wake, cleared>>

\* /query opens a window with a peer and goes to the last one.
Query(d, p) ==
    /\ Command
    /\ link[d] = "registered"
    /\ LET opened == Ensure(wm, rows, d, <<"dm", p>>, FALSE)
       IN  /\ Show(AppendStatus(SelectWindow(opened, Len(opened.windows))))
           /\ PassOver(opened, Len(opened.windows))
    /\ UNCHANGED <<rows, queue, wake, cleared>>

\* send_text with no reply_id, the only one the terminal makes: stored and announced
\* if the transport takes it, and not otherwise.
Send(d, talk, m, taken) ==
    IF d \in Devices /\ taken
    THEN /\ rows' = Append(rows, [device |-> d, talk |-> talk, msg |-> m])
         /\ queue' = Append(queue,
                IF talk[1] = "channel" THEN TextEvent(d, Me, Everyone, talk[2], m)
                ELSE TextEvent(d, Me, talk[2], Primary, m))
         /\ wake' = TRUE
    ELSE UNCHANGED <<rows, queue, wake>>

\* Each message is typed once.
Unsent == {m \in Typed : \A i \in 1..Len(wm.windows) : m \notin Range(wm.windows[i].lines)}
          \ ({r.msg : r \in Range(rows)} \cup cleared \cup seen)

\* A line of text goes to the current window's talk and is shown there, sent or not.
Type(m) ==
    LET w == wm.windows[wm.current]
    IN  /\ Command
        /\ m \in Unsent
        /\ w.talk[1] \in {"channel", "dm"}
        /\ \E taken \in {x \in BOOLEAN : x => w.device \in Devices /\ link[w.device] = "registered"} :
              /\ Send(w.device, w.talk, m, taken)
              /\ Show(AppendOutgoing(wm, rows', w.device, w.talk, m))
        /\ UNCHANGED <<passed, cleared>>

\* /msg sends to a peer and stays where it is.
Message(d, p, m) ==
    /\ Command
    /\ m \in Unsent
    /\ link[d] = "registered"
    /\ \E taken \in BOOLEAN :
          /\ Send(d, <<"dm", p>>, m, taken)
          /\ Show(AppendOutgoing(wm, rows', d, <<"dm", p>>, m))
    /\ UNCHANGED <<passed, cleared>>

------------------------------------------------------------------------------
\* The constructor and the start of run(): the status window and the node list.
Start ==
    LET status == AddWindow([windows |-> <<>>, by_key |-> <<>>, current |-> 1],
                            NewWindow(NoDevice, <<"status", Primary>>, TRUE))
    IN  Ensure(status, OldRows,
               IF Known = {} THEN NoDevice ELSE NodeListDevice(Known, CHOOSE d \in Known : TRUE),
               <<"nodelist", Primary>>, TRUE)

\* run() then opens a window for every conversation of the database, first for no
\* device, then for each.  The connecting thread may have connected devices before;
\* their events wait in the queue.
Init ==
    /\ link = [d \in Devices |-> IF d \in Linked THEN "registered" ELSE "off"]
    /\ hand = [t \in Threads |-> <<>>]
    /\ tells = [t \in Threads |-> FALSE]
    /\ got = {}
    /\ rows = OldRows
    /\ queue \in [1..Cardinality(Linked) -> [type : {"connected"}, device : Linked]]
    /\ \A d \in Linked : \E i \in DOMAIN queue : queue[i].device = d
    /\ wake = (Linked # {})
    /\ ui = "poll" /\ batch = <<>>
    /\ opening = [device |-> NoDevice, talks |-> StoredTalks(OldRows, NoDevice), later |-> Known]
    /\ wm = Start
    /\ keys = 0
    /\ handled = {} /\ seen = {} /\ passed = {} /\ cleared = {}

ReaderStep(t) ==
    \/ Push(t)
    \/ Notify(t)

OpensStored == (\E t \in Talks : OpenStored(t)) \/ \E d \in Devices : NextDevice(d)

Events == OpensStored \/ PollWakes \/ Take \/ HandleText \/ HandleConnected \/ HandleChannel \/ HandleAck

Keys ==
    \/ \E i \in 1..Len(wm.windows) : Select(i) \/ Close(i)
    \/ Clear
    \/ \E d \in Devices, t \in Talks \ {<<"dm", Me>>} : Open(d, t)
    \/ \E d \in Devices, p \in Peers : Query(d, p)
    \/ \E m \in Typed : Type(m)
    \/ \E d \in Devices, p \in Peers, m \in Typed : Message(d, p, m)

Next ==
    \/ \E d \in Devices : Connect(d) \/ Register(d)
    \/ \E t \in Threads : ReaderStep(t)
    \/ \E d \in Devices : \E m \in Hears[d] \cap Heard : Receive(d, m)
    \/ \E d \in Devices : \E m \in Hears[d] \cap Posted : Post(d, m)
    \/ \E d \in Devices, m \in Typed : ReceiveAck(d, m)
    \/ \E d \in Devices, c \in Channels : ReceiveChannel(d, c)
    \/ Events
    \/ Keys

Spec == Init /\ [][Next]_vars

\* What a step of Events does to the loop of the UI thread, whatever the windows:
\* no other step changes opening, ui or batch.
OpenTurn ==
    \/ \E t \in opening.talks : opening' = [opening EXCEPT !.talks = @ \ {t}]
    \/ /\ opening.talks = {}
       /\ \E d \in opening.later : opening' = [device |-> d, talks |-> StoredTalks(rows, d),
                                               later |-> opening.later \ {d}]
UiTurn ==
    /\ ~Opening
    /\ \/ ui = "poll" /\ wake /\ ui' = "take" /\ batch' = batch
       \/ ui = "take" /\ ui' = (IF queue = <<>> THEN "poll" ELSE "handle") /\ batch' = queue
       \/ ui = "handle" /\ batch' = Tail(batch)
          /\ ui' = (IF Tail(batch) = <<>> THEN "poll" ELSE "handle")

\* The threads go on: a reading thread, and one of the web server, never waits
\* between its row and its notification, and the UI thread only waits in poll.
FairSpec ==
    /\ Spec
    /\ WF_opening(OpenTurn) /\ WF_<<ui, batch>>(UiTurn)
    /\ \A t \in Threads : WF_vars(ReaderStep(t))

------------------------------------------------------------------------------
(* Properties *)

WindowCount == Len(wm.windows)

\* Type invariant.
TypeOK ==
    /\ link \in [Devices -> {"off", "started", "registered"}]
    /\ tells \in [Threads -> BOOLEAN]
    /\ got \subseteq Threads \X (Messages \cup Channels)
    /\ rows \in Seq(Rows)
    /\ wake \in BOOLEAN
    /\ opening \in [device : Devices \cup {NoDevice}, talks : SUBSET Talks, later : SUBSET Devices]
    /\ ui \in {"poll", "take", "handle"} /\ (ui = "handle" <=> batch # <<>>)
    /\ wm.current \in 1..WindowCount
    /\ \A i \in 1..WindowCount :
          wm.windows[i] \in [device : Devices \cup {NoDevice, AllDevices},
                            talk : Talks \cup {<<"status", Primary>>, <<"nodelist", Primary>>},
                            named : BOOLEAN, lines : Seq(Messages \cup {Ack}), unread : BOOLEAN]
    /\ keys \in 0..MaxKeys
    /\ handled \cup seen \cup passed \cup cleared \subseteq Messages \cup {Ack}

\* by_key_ names each window under its own device and talk, and nothing else,
\* after any opening, retargeting and closing of windows: the numbers it holds
\* move with the windows (window_manager.cpp:101-214, 493-514).  And a
\* conversation has one window, whatever devices it is heard on and in whatever
\* order they connect.
WindowsAndKeysMatch ==
    /\ TypeOK
    /\ DOMAIN wm.by_key = {KeyOf(wm.windows[i]) : i \in 1..WindowCount}
    /\ \A k \in DOMAIN wm.by_key : k = KeyOf(wm.windows[wm.by_key[k]])
    /\ \A i, j \in 1..WindowCount : wm.windows[i].talk = wm.windows[j].talk => i = j

\* A message that answers another and that append_text shows in another talk than t.
ShownElsewhere(m, t) == m \in Carried /\ Packet[m].reply # NoMessage /\ ShownIn(Packet[m]) # t

\* A window shows the stored messages of its conversation and of no other:
\* handle_event and send_text choose a row's conversation and append_text the
\* window's, apart.  They differ for an answer alone, which is stored with the
\* message it answers and shown in the conversation it was sent to: a window may
\* show an answer that is stored elsewhere if it was sent to it, and may lack one
\* that is stored elsewhere than it is shown.  Every other message whose event was
\* handled is there unless the user cleared it away, also when the window was
\* closed in between and made again.  (Where several devices have rows of a
\* conversation, a new window only reads those of one.)
WindowShowsItsTalk ==
    \A i \in 1..WindowCount :
        LET w  == wm.windows[i]
            of == {r \in Range(rows) : r.talk = w.talk}
            in == {r.msg : r \in of}
        IN  /\ \A r \in Range(rows) \ of : r.msg \in Range(w.lines) =>
                  /\ r.msg \in Carried /\ Packet[r.msg].reply # NoMessage
                  /\ ShownIn(Packet[r.msg]) = w.talk \/ r.msg \in in
            /\ Cardinality({r.device : r \in of}) <= 1 => \A m \in in \cap handled :
                  \/ m \in Range(w.lines) \cup cleared
                  \/ \E r \in Range(rows) : r.msg = m /\ ShownElsewhere(m, r.talk)

\* A message that was handled and that the user has not had before him is in a
\* window marked unread, and the window before him never is: windows that move
\* down when another closes keep their marks, and current_ follows.  Only the
\* window before an empty one loses its mark when the user leaves that one
\* (close_if_empty makes it the current one for a moment), and an answer is marked
\* where it was sent to, not where it is stored.
UnreadIsMarked ==
    /\ ~wm.windows[wm.current].unread
    /\ \A i \in 1..WindowCount :
          \A m \in (Range(wm.windows[i].lines) \cap handled) \ (seen \cup passed) :
             wm.windows[i].unread \/ ShownElsewhere(m, wm.windows[i].talk)

\* What is stored in this run is in the end handled by the UI: the reading thread
\* announces after it pushed, the UI empties the eventfd before the queue.
EventsHandled ==
    \A m \in Carried \cup Typed :
        (\E r \in Range(rows) : r.msg = m) ~> m \in handled
=============================================================================
