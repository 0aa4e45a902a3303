----------------------------- MODULE Reconnect -----------------------------
(***************************************************************************)
(* The life of a stream device (TCP, serial or mesh) from the start of the *)
(* program to its end: connect_device, reconnect_device, disconnect_device *)
(* and disconnect_all of mesh_service.cpp, run_app (src/src/app/app.cpp),  *)
(* and the two main loops that reconnect on their own after an             *)
(* EvDisconnected: the terminal UI's maybe_reconnect (src/src/tui/tui.cpp) *)
(* and the headless loop of run_app.                                       *)
(*                                                                         *)
(* reconnect_device holds devices_mu_ while it looks the device up, and    *)
(* nothing while it replaces the transport.  A web request runs it in a    *)
(* thread of its own.  With the terminal UI the device is connected by a   *)
(* thread of its own, too, which lists it in devices_ at the end.          *)
(*                                                                         *)
(* The headless loop reconnects only if the web server is enabled; without *)
(* it the program ends by itself after 15 seconds.                         *)
(*                                                                         *)
(* The reading thread of a TCP or mesh device whose configuration is       *)
(* complete locks devices_mu_ twice (Outbox) and holds it from then on.  A *)
(* serial device is one whose configuration never gets there.              *)
(***************************************************************************)
EXTENDS Integers, Sequences, Connections

CONSTANTS
    Setups,       \* how the program may be started, see Setup
    LossEvents,   \* what the end of a read loop may report
    MaxAttempts,  \* reconnect_max_attempts_ (6)
    MaxFaults     \* bound: losses, changes of the peer, calls by a user, in all

\* headless: the headless loop, not the terminal UI; tls: a mesh: device, whose
\* start() may fail; web: the web server is enabled; users: its requests ask for
\* reconnections; server: others connect to this program (not modelled where
\* run_app may return at once, see Begin); second: a second device is to be
\* connected after this one, and cannot be.
Setup == [headless : BOOLEAN, tls : BOOLEAN, web : BOOLEAN, users : BOOLEAN,
          server : BOOLEAN, second : BOOLEAN]

Legal ==
    /\ Setups \subseteq Setup
    /\ \A s \in Setups : /\ s.users => s.web
                         /\ s.server => s.web \/ ~ s.headless
    /\ LossEvents \subseteq {"disconnected", "error"} /\ LossEvents # {}
    /\ Main # Web
    /\ MaxAttempts \in Nat /\ MaxFaults \in Nat

ASSUME ReconnectAssumption == Legal

VARIABLES
    object,   \* the transport rt->stream points to, numbered; 0 is none
    made,     \* transports made so far
    peer,     \* the other end: "well", "refuses" (no connection), "rejects"
              \* (connects, and fails the handshake)
    queue,    \* events on their way to the main loop
    watched,  \* Off, or the attempts made for the device
    mine,     \* mine[t]: the transport t is starting
    stuck,    \* the reading thread waits for devices_mu_, which it holds
    faults    \* faults so far

vars == <<setup, key, object, made, link, peer, queue, watched, at, connector, mine,
          stuck, faults>>

Off == -1

Tls == setup.tls

Init ==
    /\ setup \in Setups
    /\ key = "new"
    /\ object = 0 /\ made = 0
    /\ link = "none"
    /\ peer \in {"well", "refuses", "rejects"}
    /\ queue = <<>>
    /\ watched = Off
    /\ at = [t \in Thread |-> IF t = Web THEN "idle" ELSE IF Headless THEN "connect" ELSE "drain"]
    /\ connector = "open"
    /\ mine = [t \in Thread |-> 0]
    /\ stuck = FALSE
    /\ faults = 0

Goes(t, where) == at' = [at EXCEPT ![t] = where]
Home(t) == IF t = Main THEN "drain" ELSE "idle"
Free(t) == at[t] \in {"drain", "ready", "idle"}
Listed == key \in {"id", ""}
Stopped == at[Main] \in {"server", "close", "join", "returned", "over"}
Unlocked == ~ stuck
Count == faults < MaxFaults /\ faults' = faults + 1

\* An event is pushed.  After run_app has returned there is no queue: the push
\* writes to freed memory, and nobody reads it.
Pushed(q, e) == IF at[Main] \in {"returned", "over"} THEN q ELSE Append(q, e)

\* The reading thread of a live transport may notice the end, or be stopped first.
Ending(q) == {q} \cup {Pushed(q, e) : e \in LossEvents}

-----------------------------------------------------------------------------
(* reconnect_device, by thread t *)

\* The old transport is stopped, and its reading thread joined.
Stop(t) ==
    /\ at[t] = "stop" /\ Unlocked
    /\ queue' \in IF link = "up" THEN Ending(queue) ELSE {queue}
    /\ object' = 0 /\ link' = "none"
    /\ Goes(t, "open")
    /\ UNCHANGED <<setup, key, made, peer, watched, connector, mine,
                   stuck, faults>>

\* Main saw the call return true: the headless loop takes the device off its
\* list.  The calls of maybe_reconnect are in Tick.
Returned(t, ok) ==
    /\ Goes(t, Home(t))
    /\ watched' = IF t = Main /\ Headless /\ ok THEN Off ELSE watched

\* Mutant: a refused connection counts as made.
OpenAlways(t) ==
    /\ at[t] = "open"
    /\ IF peer = "refuses"
       THEN Returned(t, TRUE) /\ UNCHANGED <<object, made, mine>>
       ELSE /\ made' = made + 1 /\ object' = made'
            /\ mine' = [mine EXCEPT ![t] = made']
            /\ Goes(t, "start")
            /\ UNCHANGED watched
    /\ UNCHANGED <<setup, key, link, peer, queue, connector, stuck, faults>>

Open(t) ==
    /\ at[t] = "open"
    /\ IF peer = "refuses"
       THEN Returned(t, FALSE) /\ UNCHANGED <<object, made, mine>>
       ELSE /\ made' = made + 1 /\ object' = made'
            /\ mine' = [mine EXCEPT ![t] = made']
            /\ Goes(t, "start")
            /\ UNCHANGED watched
    /\ UNCHANGED <<setup, key, link, peer, queue, connector, stuck, faults>>

\* Mutant: the runtime of a removed device lives on.
LastOut(t) == FALSE

\* t is the last to hold the runtime of a device that is no longer listed: its
\* transport goes with it.
LastHolder(t) == key = "gone" /\ \A u \in Thread \ {t} : Outside(u)

\* start() and the update of devices_.  A handshake that fails makes start()
\* return "": the device is listed under that name, and the call succeeds.
\* What becomes of a thread whose transport was replaced meanwhile is
\* undefined: it takes no further step.
Start(t) ==
    /\ at[t] = "start" /\ mine[t] = object /\ Unlocked
    /\ IF Tls /\ peer = "rejects"
       THEN /\ link' = "sham" /\ key' = ""
            /\ queue' = Append(queue, "error")
       ELSE /\ UNCHANGED key
            /\ IF LastHolder(t)
               THEN link' = "none" /\ queue' \in Ending(Append(queue, "connected"))
               ELSE link' = "up" /\ queue' = Append(queue, "connected")
    /\ Returned(t, TRUE)
    /\ UNCHANGED <<setup, object, made, peer, connector, mine,
                   stuck, faults>>

Reconnecting(t) == Stop(t) \/ Open(t) \/ Start(t)

\* The lookup, for a call by a user: /reconnect, or a web request.
Call(t) ==
    /\ Free(t) /\ (t = Web => WebUsers /\ ~ Stopped) /\ (t = Main => ~ Headless)
    /\ key = "id" /\ Unlocked
    /\ Count
    /\ Goes(t, "stop")
    /\ UNCHANGED <<setup, key, object, made, link, peer, queue, watched, connector, mine,
                   stuck>>

-----------------------------------------------------------------------------
(* Start-up: connect_device *)

Connects(where) == connector' = where

\* The connecting thread, or run_app itself, which prints what is in the queue
\* when the device cannot be had.
ConnectOpen ==
    /\ connector = "open"
    /\ IF peer = "refuses"
       THEN /\ Connects("done") /\ key' = "gone"
            /\ queue' = IF Headless THEN <<>> ELSE Append(queue, "error")
            /\ UNCHANGED <<object, made>>
       ELSE /\ Connects("start")
            /\ made' = made + 1 /\ object' = made'
            /\ UNCHANGED <<key, queue>>
    /\ UNCHANGED <<setup, link, peer, watched, at, mine,
                   stuck, faults>>

ConnectStart ==
    /\ connector = "start"
    /\ IF Tls /\ peer = "rejects"
       THEN link' = "sham" /\ queue' = Append(queue, "error")
       ELSE link' = "up" /\ queue' = Append(queue, "connected")
    /\ Connects("list")
    /\ UNCHANGED <<setup, key, object, made, peer, watched, at, mine,
                   stuck, faults>>

\* The device is listed even if start() failed, under the name "".
ConnectList ==
    /\ connector = "list" /\ Unlocked
    /\ key' = IF link = "sham" THEN "" ELSE "id"
    /\ queue' = IF link = "sham" /\ Headless THEN <<>> ELSE queue
    /\ Connects("done")
    /\ UNCHANGED <<setup, object, made, link, peer, watched, at, mine,
                   stuck, faults>>

Connecting == ConnectOpen \/ ConnectStart \/ ConnectList

\* The headless loop begins, unless no device is connected and nobody could see
\* what is stored: then run_app returns at once.  The failure of a second device
\* has emptied the queue once more.
Begin ==
    /\ at[Main] = "connect" /\ connector = "done"
    /\ IF key # "id" /\ ~ WebEnabled
       THEN queue' = <<>> /\ Goes(Main, "returned")
       ELSE /\ queue' = IF setup.second THEN <<>> ELSE queue
            /\ Goes(Main, "drain")
    /\ UNCHANGED <<setup, key, object, made, link, peer, watched, connector, mine,
                   stuck, faults>>

-----------------------------------------------------------------------------
(* Shut-down: the end of run_app *)

\* /quit, or a signal to the headless program, or the end of its 15 seconds.
Quit ==
    /\ at[Main] \in {"drain", "ready"}
    /\ Goes(Main, "quit")
    /\ UNCHANGED <<setup, key, object, made, link, peer, queue, watched, connector, mine,
                   stuck, faults>>

\* WebService::stop joins the thread of the web server.
StopWeb ==
    /\ at[Main] = "quit" /\ at[Web] = "idle"
    /\ Goes(Main, "server")
    /\ UNCHANGED <<setup, key, object, made, link, peer, queue, watched, connector, mine,
                   stuck, faults>>

\* StreamServer::stop, which a client may keep from returning (StreamServer),
\* as may devices_mu_, which the threads of the clients lock.
StopServer ==
    /\ at[Main] = "server"
    /\ setup.server => Unlocked
    /\ Goes(Main, "close")
    /\ UNCHANGED <<setup, key, object, made, link, peer, queue, watched, connector, mine,
                   stuck, faults>>

DisconnectAll ==
    /\ Unlocked
    /\ IF Listed
       THEN /\ key' = "gone" /\ link' = "none"
            /\ queue' \in IF link = "up" THEN Ending(queue) ELSE {queue}
       ELSE UNCHANGED <<key, link, queue>>

\* Mutant: the devices are left to ~MeshService.
CloseNothing ==
    /\ at[Main] = "close"
    /\ Goes(Main, "join")
    /\ UNCHANGED <<setup, key, object, made, link, peer, queue, watched, connector, mine,
                   stuck, faults>>

Close ==
    /\ at[Main] = "close"
    /\ DisconnectAll
    /\ Goes(Main, "join")
    /\ UNCHANGED <<setup, object, made, peer, watched, connector, mine,
                   stuck, faults>>

\* The connecting thread is joined, and run_app returns: its queue goes.
Return ==
    /\ at[Main] = "join" /\ connector = "done"
    /\ Goes(Main, "returned")
    /\ queue' = <<>>
    /\ UNCHANGED <<setup, key, object, made, link, peer, watched, connector, mine,
                   stuck, faults>>

\* Mutant: the service does not disconnect once more.
DestroyOnly ==
    /\ at[Main] = "returned"
    /\ Goes(Main, "over")
    /\ UNCHANGED <<setup, key, object, made, link, peer, queue, watched, connector, mine,
                   stuck, faults>>

\* ~MeshService
Destroy ==
    /\ at[Main] = "returned"
    /\ DisconnectAll
    /\ Goes(Main, "over")
    /\ UNCHANGED <<setup, object, made, peer, watched, connector, mine,
                   stuck, faults>>

\* Each of these returns, StopServer unless others connect to the program.
Ends == StopWeb \/ Close \/ Return \/ Destroy \/ (~ setup.server /\ StopServer)

-----------------------------------------------------------------------------
(* The main loop *)

\* e is the last of the events q that the headless loop acts on.
Decides(q, e) ==
    \E i \in DOMAIN q : /\ q[i] = e
                        /\ \A j \in i + 1 .. Len(q) : q[j] \notin {"connected", "disconnected"}

\* All events that have arrived.  The terminal UI does not stop watching when
\* it hears EvConnected.
Drain ==
    /\ at[Main] \in {"drain", "ready"}
    /\ at[Main] = "drain" \/ queue # <<>>
    /\ queue' = <<>>
    /\ Goes(Main, "ready")
    /\ watched' =
         IF Headless
         THEN CASE Decides(queue, "disconnected") ->
                       IF watched = Off THEN 0 ELSE watched
                [] Decides(queue, "connected") -> Off
                [] OTHER -> watched
         ELSE IF watched = Off /\ \E i \in DOMAIN queue : queue[i] = "disconnected"
              THEN 0 ELSE watched
    /\ UNCHANGED <<setup, key, object, made, link, peer, connector, mine,
                   stuck, faults>>

\* Mutant: every device is due every five seconds.
DueAlways == at[Main] = "ready"

Due == at[Main] = "ready" /\ watched # Off /\ Unlocked

GivesUp(n) == n > MaxAttempts

\* Five seconds have passed.  The headless loop calls reconnect_device, if the
\* web server is enabled.  The terminal UI takes a device that devices_ lists
\* for reconnected; for one that is not listed it makes an attempt, whose lookup
\* fails, or gives up.
Tick ==
    /\ Due
    /\ Headless => WebEnabled
    /\ \/ /\ Headless /\ key = "id"
          /\ Goes(Main, "stop")
          /\ UNCHANGED watched
       \/ /\ Headless /\ key # "id"
          /\ Goes(Main, "drain")
          /\ UNCHANGED watched
       \/ /\ ~ Headless
          /\ Goes(Main, "drain")
          /\ watched' = IF key = "id" \/ GivesUp(watched + 1) THEN Off
                        ELSE watched + 1
    /\ UNCHANGED <<setup, key, object, made, link, peer, queue, connector, mine,
                   stuck, faults>>

-----------------------------------------------------------------------------
(* Users and the other end *)

\* disconnect_device, by a user of the terminal.
Disconnect ==
    /\ Free(Main) /\ ~ Headless
    /\ key = "id" /\ Unlocked
    /\ Count
    /\ key' = "gone"
    /\ queue' \in IF link = "up" THEN Ending(queue) ELSE {queue}
    /\ link' = "none"
    /\ UNCHANGED <<setup, object, made, peer, watched, at, connector,
                   mine, stuck>>

\* The radio has sent all of its configuration: the reading thread takes
\* devices_mu_ and goes on to initiate_sync, which locks it once more.
ConfigComplete ==
    /\ link = "up" /\ Unlocked
    /\ stuck' = TRUE
    /\ UNCHANGED <<setup, key, object, made, link, peer, queue, watched, at, connector,
                   mine, faults>>

\* The connection is lost, and the read loop ends.
Lose ==
    /\ link = "up" /\ Unlocked
    /\ Count
    /\ link' = "lost"
    /\ \E e \in LossEvents : queue' = Pushed(queue, e)
    /\ UNCHANGED <<setup, key, object, made, peer, watched, at, connector,
                   mine, stuck>>

PeerTurns ==
    /\ Count
    /\ peer' \in {"well", "refuses", "rejects"} \ {peer}
    /\ UNCHANGED <<setup, key, object, made, link, queue, watched, at, connector,
                   mine, stuck>>

Next ==
    \/ \E t \in Thread : Reconnecting(t) \/ Call(t)
    \/ Connecting \/ Begin
    \/ Disconnect \/ Drain \/ Tick
    \/ Quit \/ Ends \/ StopServer
    \/ ConfigComplete \/ Lose \/ PeerTurns

Spec == Init /\ [][Next]_vars

\* The 15 seconds of the headless loop without a web server are over.
TimeUp == Headless /\ ~ WebEnabled /\ Quit

\* The threads keep running, and time passes; nobody else needs to quit.
Fairness ==
    /\ \A t \in Thread : WF_vars(Reconnecting(t))
    /\ WF_vars(Connecting) /\ WF_vars(Begin)
    /\ WF_vars(Drain) /\ WF_vars(Tick)
    /\ WF_vars(TimeUp) /\ WF_vars(Ends)

FairSpec == Spec /\ Fairness

-----------------------------------------------------------------------------
(* Properties *)

Place == {"idle", "connect", "drain", "ready", "stop", "open", "start",
          "quit", "server", "close", "join", "returned", "over"}

TypeOK ==
    /\ setup \in Setups
    /\ key \in {"new", "id", "", "gone"}
    /\ made \in Nat /\ object \in 0 .. made
    /\ link \in {"up", "lost", "none", "sham"}
    /\ object = 0 => link = "none"
    /\ peer \in {"well", "refuses", "rejects"}
    /\ queue \in Seq({"connected", "disconnected", "error"})
    /\ watched \in Off .. MaxAttempts
    /\ at \in [Thread -> Place]
    /\ connector \in {"open", "start", "list", "done"}
    /\ mine \in [Thread -> 0 .. made]
    /\ stuck \in BOOLEAN
    /\ faults \in 0 .. MaxFaults

\* Auto-reconnect: a device that was lost, and not disconnected by its user, is
\* up again once the other end is, while the program runs and nobody waits for
\* itself.
SelfHeals ==
    <>[](peer = "well" /\ key # "gone" /\ Unlocked /\ ~ Stopped) => []<>(link = "up")

\* The same of the headless loop with a web server and a connection whose
\* start() cannot fail, unless the failure of another device has emptied the
\* queue.  Without a web server the loop never reconnects.
HeadlessHeals ==
    (Headless /\ WebEnabled /\ ~ WebUsers /\ ~ Tls /\ ~ setup.second) => SelfHeals

\* The calls of two threads have replaced one another's transports.
Torn == \E t \in Thread : at[t] = "start" /\ mine[t] # object

\* The headless program without a web server is asked to end by its clock.
AskedToEnd == at[Main] = "quit" \/ (Headless /\ ~ WebEnabled)

\* The program ends when it is asked to, with every device disconnected,
\* whatever was being connected or reconnected: unless stop_stream_server does
\* not return, or the reading thread waits for itself, which keeps disconnect_all
\* waiting, too.
QuitEnds ==
    \/ <>[](at[Main] = "server" /\ setup.server)
    \/ AskedToEnd ~> ((at[Main] = "over" /\ link = "none") \/ stuck \/ Torn)
=============================================================================
