# A verification project for fmesh-cli

fmesh-cli is a terminal and web client for Meshtastic radios. One program (an
*instance*) talks to radios over Bluetooth, TCP or a serial line, keeps what it
hears in an SQLite database, and exchanges it with other instances over TLS.
This directory holds TLA+ models of its concurrent and distributed parts, the
TLC configurations that check them on small instances, and TLAPS proofs.
Paths below are relative to `src/src/`.

## 1. The system

| Component | State | Operations | Interacts with |
|---|---|---|---|
| `DbSyncManager` (mesh/db_sync.cpp) | none of its own | `initiate_sync`, `push_*`, `handle_inventory / request / data / devices / send_raw` | called by `MeshService` in the reading threads; reads and writes `Database`; sends through `MeshService::send_db_sync` |
| `Database` (store/database.cpp) | SQLite tables, one connection for all threads | `open` (renames rows of earlier versions, fills the packet log), inserts, queries by packet id and by time stamp, `upsert_node`, `update_ack_state` | every thread, without a mutex of its own: SQLite serialises the statements (database.h:52), each commits by itself, and what belongs to two of them may be separated |
| `MeshService` (mesh/mesh_service.cpp) | `devices_`, `virtual_devices_` and `pending_acks` under `devices_mu_`; `seen_messages_` under nothing | `connect / reconnect / disconnect_device`, `send_text`, `set_config`, `handle_event` | the reading threads call `handle_event`; the UI and the web threads call the rest |
| `StreamClient` (stream/stream_client.cpp) | socket, TLS session, `connected_`, the parser's buffer and state | `start`, `stop`, `send_to_radio`, `read_loop` (a thread) | emits events into `MeshService` |
| `StreamServer` (stream/stream_server.cpp) | `clients_` under `clients_mu_`; per client `active`, `ssl`, `write_mu` | `accept_loop` (a thread), a thread per client, `broadcast`, `stop` | emits the clients' packets and payloads into `MeshService`, which broadcasts |
| `BluezClient` (ble/bluez_client.cpp), `WinBleClient` | D-Bus objects under `proxy_mu_`, `needs_drain_` and a condition variable under `drain_mu_` | `start`, `stop`, `send_to_radio`; threads for the connect flow, the event loop and draining | as `StreamClient` |
| `EventFd`, `ConcurrentQueue` (util/event_loop.h) | a queue and a counter | `push`, `notify`, `drain` | from all threads to the UI |
| `TuiApp`, `WindowManager`, `Window` (tui/) | windows, scrollback, reconnect attempts | key handling, commands, `on_event` | calls `MeshService` |
| `run_app` (app/app.cpp) | list of lost devices (headless) | start-up, headless loop, shut-down | calls everything |
| `HttpServer` (web/http_server.cpp) | `connections_` under `conn_mu_`; per connection a state, the request so far, and the output under `out_mu` | a worker thread; `broadcast_sse` from any thread; `stop` | runs the handlers of `WebService` in its worker |
| `WebService` (web/web_service.cpp) | `recent_packets_`, `links_`, each under a mutex | `on_mesh_event` (in the reading threads), request handlers | calls `MeshService`, `Database` and `HttpServer` |
| `NodeDb` (mesh/node_db.cpp) | a map of nodes, each field with or without a value, under `mu_` | `upsert_node` (a merge, field by field), look-ups | written by the reading threads and by the thread that connects a device |
| `MeshCodec`, `Config`, compression, log | none; settings | pure conversions; parsing once | used by the above |

What makes it hard: a reading thread runs the whole handler of what it reads,
so that a handler that waits stops the connection it serves; handlers of
different connections run at the same time over one database and check and
insert in separate statements; every sync payload is broadcast and echoed;
connections break with payloads in flight; a transport is replaced under the
threads that use it; a frame is written in parts and read in other parts; a
notification may come before anybody waits for it; state is read under one
mutex and written under another; and several mutexes are held across calls that
take them again.

What makes each part correct:

* synchronisation: a row is stored once (while a server has one thread for each
  neighbour), spreads only from where it is stored,
  reaches everybody that a push or a sync reaches, and the traffic ends;
* stream: what was sent arrives, in order, unmixed, however the bytes are cut;
* server: the list of clients is the clients, a broadcast goes to those who may
  hear it and returns, stop leaves nothing behind;
* acknowledgements: the state shown is the one the radio gave, and is final;
* virtual devices: what a neighbour offers is what there is, and a packet comes
  out of the radio it was addressed to, and out of no other;
* reconnection: a lost device comes back (in the headless mode with the web
  server), a disconnected one does not, a working one is left alone; a program
  asked to quit ends, unless one of its threads has locked itself out, and its
  connections with it;
* Bluetooth: what the radio has is read, once, and stop ends it all;
* persistence: renaming a device, interrupted anywhere, is completed by the next
  start, and a packet log that a start finds empty is filled by it unless it is
  interrupted too; what is known of a node survives restarts, updates that carry
  only a part of it, and the renaming of its device; and what is shown is the
  newest known;
* web: a stream of events is never torn, requests are answered, what is shown
  live is also in the lists.

## 2. Modules

| Module | Models | Kind |
|---|---|---|
| `Gossip` | what replication promises: rows appear at home, are copied from a neighbour that has them, never vanish | abstract specification |
| `DbSync` | `db_sync.cpp` and the calls around it | state machine; implements `Gossip` |
| `DbSyncTree` | the instances form a tree (`Toward`); `NearestFirst` | assumption and invariant for topologies without cycles |
| `DbSyncProofs` | theorems of `DbSyncTree` | proofs |
| `StreamFraming` | `frame` and the parser in `read_loop`; `Parsed`, what framing means | pure operators |
| `StreamLink` | threads in `send_to_radio`, the connection, the thread in `read_loop` | state machine over `StreamFraming` |
| `StreamLinkProofs` | theorems of `StreamLink` | proofs |
| `StreamServer` | accepting thread, client threads, `broadcast`, `stop` | state machine |
| `StreamServerProofs` | theorems of `StreamServer` | proofs |
| `Acknowledgements` | what sending promises about acknowledgements: a state shown is the one the radio gave, and final | properties |
| `Outbox` | `send_text`, the radio's answers, `pending_acks`, and who holds `devices_mu_` | state machine; keeps what `Acknowledgements` promises |
| `VirtualDevices` | advertisement of devices between instances, the table of virtual devices, the way of a packet to a radio | state machine |
| `MeshServiceProofs` | theorems of `VirtualDevices`, and of instances of `Outbox` and `Reconnect` | proofs |
| `Connections` | what reconnecting and the end of the program promise: what is disconnected stays so, what works is left alone, nothing outlives the program | properties |
| `Reconnect` | a stream device from the start of the program to its end: `connect_device`, `reconnect_device`, `disconnect_device`, the loops of the terminal and of the headless mode, a web thread, the shut-down | state machine; keeps what `Connections` promises |
| `BluezClient` | a Bluetooth connection: connect flow, handshake, notification, draining, `send_to_radio`, `stop` | state machine |
| `BluezProofs` | theorems of `BluezClient` | proofs |
| `Desk` | the events on their way to the terminal UI, its window list and scrollback, and the user's commands on them | state machine |
| `DeskProofs` | theorems of `Desk` | proofs |
| `Store` | `Database::open`, what the database and `NodeDb` keep of nodes, `connect_device`'s preload, `load_offline_history`, `find_node`, kills and refused statements | state machine |
| `StoreProofs` | theorems of `Store` | proofs |
| `HttpServer` | the web server's worker, the broadcasting threads, browsers, `stop` | state machine |
| `HttpServerProofs` | theorems of `HttpServer` | proofs |
| `MC...` | small instances of each | for TLC |

Operators marked `Mutant:` are plausible bugs of the operator they precede.
They are not used by any specification; each names a change to the code that the
run listed in `PROJECT.json` must detect.

### DbSync

`db[p][r]` counts the copies of row `r` in the database of instance `p`; the
tables have no uniqueness constraint, so more than one is possible. Each connection
of a link has a line and a reading thread of its own (`Line`), since a thread may
outlive its connection: `Break` ends one, and its readers go on with any beginning
of what has arrived (`Lose` is their end). A client joins its thread before it
connects again, a server joins nobody and serves the new connection at once
(`Connect`); `overtaken` records the links where it did so too early. A line
carries payloads in order; a payload is a set of rows (a page or a push) with
`more`, or an inventory or request with the newest time stamp per table.
`job[l]` is the work of the thread reading line `l`: the rows of the payload
still to do, and the row that was found missing and not inserted yet
(`CheckRow`, `InsertRow`: two critical sections of the database). `HandleInventory`
and `HandleRequest` are one step each: they only read the database, in three
queries, and what they read can only be too little. The radio's side
(`HearText`, `HearSample`, `SendText`) is one step per event: `handle_event`
runs in the radio's reading thread. A position or a sample is stored unless it
is there and pushed in either case. `Cut`, `Connect` and `Restart` are faults;
`Restart` keeps `db` and loses everything else. `Stored` is what `Gossip` sees of
the state, the rows each instance has at least once: `G == INSTANCE Gossip WITH
store <- Stored`, and `ImplementsGossip` is `G!GSpec`.

### VirtualDevices

A session joins a client, which has the server as a device in `devices_`
(`listed`), and a server, which knows the client only by a label. `table[p]` is
`virtual_devices_`. `initiate_sync` is one step that copies the list of devices
(`Snapshot`), one per device that looks its number up (`LookUp`), and one that
sends the list (`Publish`); threads `Syncer` do this at the same time. Sync
payloads go to all sessions (`Broadcast`), and `net[c]` carries them in order.
`AskStream`, `AskOriginal` and `SendText` are the three critical sections of
`send_text`; `SendTraceroute` looks once. `HandleRaw` and `HandleFrame` are
`handle_send_raw` and the stream server's handler. `aired` counts what each radio
has transmitted. Devices are lost, come back, are detached and attached, and
report their numbers late: a stream has the number of whichever radio behind it
answered last. `Number` is a constant, and `Above` the instances a stream may
speak for. A stream whose link is lost still counts as connected, since only `stop`
clears `connected_`: what is written to it may be refused or lost
(`Works`, `SendLocally`, `Route`).

### StreamFraming and StreamLink

`Pass` is one pass of the inner loop of `read_loop`, a composition of its five
stages. `FramesFrom` reads a whole byte string by the definition of the format, from
each place on; `Parsed` is what it finds from the first, and `ChunkingIsInvisible`
compares the two. `sent` is a history variable: the frames begun, in the order of the
calls, but for those that `frame` leaves out as too large. In `StreamLink` each
`Write` is one system call and each read takes any number of the bytes there
are, so that all cuts are explored. `tls` says whether the connection is a TLS
session: then a record is any prefix of what was written, the library hands on
at most `ReadMax` of it, and `poll` does not see the rest.

### StreamServer

`accept_loop` is split where it takes or releases `clients_mu_`; `broadcast`
where it has copied the list, tested a client, and written to it. The clean-up walks
`clients` by a position (`acc.it`, the iterator) and erases where it stands. The threads
`Talker` run handlers, which may broadcast. A write is held up while its client is
`stalled`: it stays connected, and reads no more (`Stuck`). That cannot happen
before the authentication, when the socket has a send timeout. `Close` is the
`SSL_shutdown` at the end of a client's thread, a write like the others.

### Outbox

Each call of `send_text` is a thread of five steps: look-up, radio, the insertion of
the row (`Insert`), the reading of its id (`TakeId`) and `pending_acks`.
`insert_message` asks the connection for the id of the row last inserted, and all
threads share the connection: an insertion by another call, or any other of the
program (`InsertElsewhere`), may come in between. Then `rowid` is a foreign row's,
and the message is `crossed`. The reading thread receives answers and handles them;
what it writes goes to the row with that id (`Updated`). `mu` is `devices_mu_` as
held across a step; `syncing` holds the threads that are inside `send_db_sync` and
want it. `runtime` numbers the device's `DeviceRuntime`s, since a call in progress
keeps the old one. `kind` is the kind of the device: only a stream device's
configuration ends with a sync. A thread that enters `send_db_sync` with the mutex
in its own hand `WaitsForItself`.

### Reconnect

`setup` says how the program was started: terminal or headless, a plain or a
TLS device, with or without the web server, users of it who reconnect, and others
that are connected to this program, and whether a second device is asked for
that cannot be had (its failure empties the queue). Without the web server the
headless loop never reconnects (`Tick`) and ends after 15 seconds (`TimeUp`), and if
nothing could be connected `run_app` returns at once (`Begin`). `stuck` says that the
reading thread has locked `devices_mu_` twice, which it does when the device's
configuration is complete (`ConfigComplete`, the case `Outbox` is about): it may
happen to any connection that is up, and whoever then wants the mutex, or joins
the thread, waits for ever. `connector` is how far
`connect_device` has come, in a thread of its own in the terminal, in `run_app`
itself otherwise. `key` is the name under which
`devices_` has the device, `object` the transport its runtime points to, `queue`
the events on their way to the main loop; `Decides` says which of them the headless
loop will act on, the last of its kind. `Web` is the thread that serves a web
user's requests to reconnect; only the terminal disconnects. `Quit`, `StopWeb`,
`StopServer`, `Close`, `Return` and `Destroy` are the end of `run_app` in its order: the web
server is joined, the stream server stopped (a step that need not come, see
`StreamServer`), the devices are disconnected, the connecting thread is joined,
the queue goes, and `~MeshService` disconnects what is still there.

### BluezClient

`at[t]` is where a thread is, `proxyMu` who is in a call to the radio, `hand[t]`
the packet a reader has taken and not emitted. The connect flow is five steps
that may fail, each standing for D-Bus calls made without `proxy_mu_`. A `StartNotify`
that fails is none of them: the connection comes up all the same, and the radio
announces nothing on it (`subscribed`). The wait
of the drain thread is split between looking at the predicate and blocking, with
`drain_mu_` held in between: `stop` notifies without that mutex and may be
missed, and then the five seconds of `wait_for` end the wait. `objects` tells
whether the connection and the proxies exist.

### HttpServer

`w` is the worker: the connections left in this round, what `poll` said of each, the
chunk being sent. A broadcast holds `conn_mu_` over all connections (`Lock`,
`Visit`, `AddFrame`), tests a connection's state without its `out_mu`, and adds a
frame of two halves, so that a torn one would be seen. The worker changes states
without `conn_mu_`. `Kept` is the `remove_if` that begins each of its rounds.
`FramesOf` gives the frames an event causes; what it records (`Recorded`) precedes
what it broadcasts. A handler that sends a message broadcasts from the worker.
`listeners_mu_`, which serialises the reading threads that broadcast, is left out:
that allows more interleavings, and no holder of it waits for a mutex whose holder
wants it.

### Desk

A device's reading thread is three steps per message: it stores the row and has
the event in `hand`, pushes it (`Push`), and writes to the eventfd (`Notify`).
The UI thread empties the eventfd (`PollWakes`), then the queue (`Take`), handles
the events of `batch` one by one (`HandleText`, `HandleConnected`, ...), and takes
the user's commands in between. `wm` is the window manager: a sequence of windows,
the current one, and `by_key_`, which maps a device and a talk to a window's
number; the operators from `AddWindow` to `SelectWindow` are its methods, each
from one state of it to the next. A line of a window is a message or the mark of
an acknowledgement. `handled`, `seen`, `passed` and `cleared` are history
variables: what the UI has handled, what the user has had before him, what was
marked read on the way to another window, what he cleared away. `Start` is the
constructor and the start of `run()`; devices in `Linked` were connected before
it, by the connecting thread, in any order.

`run()` and the handling of an `EvConnected` end with a loop that opens a window for
every stored conversation, each reading the database anew, while the reading threads
go on storing. `opening` is what is left of that loop: the device and its talks, and
for `run()` the devices to follow. Each turn of it is a step (`OpenStored`,
`NextDevice`), and the UI thread does nothing else meanwhile (`~Opening`).
`LinesOf` is what a window makes of the rows it reads, row by row through
`append_line`.

A message may answer another (a reply or a reaction). `handle_event` and `send_text`
store it with the one it answers, if that is in the database (`StoredIn`), and
`append_text` shows it in the conversation it was sent to (`ShownIn`). What is typed
in the terminal answers nothing; `Post` is a web request that sends a message, with
`want_ack` false, on a thread of its own (`Web`).

### Store

`rows[s][n]` is the row the table `nodes` has of node `n` under spelling `s` of
the device's id; earlier versions wrote D-Bus paths or their last part, the code
writes the address (`Mac`). Of a node two fields stand for the two groups that
come in different packets: names and readings; a value is the number of times
the field has been given one, so that "older" can be said: `k` for a value heard, `-k`
for the zero of a reading that an entry of the radio's node list does not have
(mesh_codec.cpp:310-316 looks at no `has_*`, `Frames`). `Open` to `Backfill` are
the statements of `Database::open`, each of which commits alone; `Refuse` is a
statement that fails, which the code does not look at. `Stop` ends a run in any
stage. `Connect`, `List`, `LoadRow`, `StoreRow` and `Loaded` are the thread that
connects the device; from `Connect` on the reading threads run `Hear`, `Merge`,
`Remember` and `Save`, the accesses `handle_event` makes to memory and disk one
by one. `Disconnect` and `Joined` are `disconnect_device`: the device leaves
`devices_`, its threads are joined, and what it knew is gone but for
`offline_dbs_` and the disk. `NamesShown` is `find_node` with any devices before and
after this one in `devices_` (`first`, `later`). `raced` has the nodes of which an
event came before the node's row was loaded or while another of the node was
handled; `moved` says whether the `UPDATE` before a `DELETE` was carried out, `gone`
whether the device was disconnected in this run. These are history variables: the
properties except what they name, and section 6 says what happens then.

## 3. Runs

Runs that pass:

| Run | Instance | What it shows |
|---|---|---|
| `sync_chain` | three instances in a chain; a message that two radios of one end hear, a position at the middle; a sync, a break or restart | no row is stored twice but over a link that was connected again too early, rows arrive over the neighbour nearer to their home, and `DbSync` implements `Gossip` (`INSTANCE ... WITH store <- Stored`) |
| `sync_live` | the same chain, two messages, pages of one row, a sync, no faults | the echoes end, pushes reach everyone, a sync delivers what its inventory lacks over several pages |
| `link` | noise, a frame that looks like a header, one too large, a short one; plain and TLS | the parser equals the definition of the format however bytes are cut; order; nothing is lost at a close; all that was sent is handed on, and what may stay held back for good |
| `server` | three connections, a limit of two, a client that talks, one that may stop reading, a broadcast of a client and one of a radio, `stop` | the list of clients and its limit; `stop` leaves nothing; a client that reads no more holds up broadcasts, but not `stop`, and nothing else does unless `accept_loop` joins a blocked thread |
| `virtual` | three instances in a chain with radios of one name at both ends, two syncs that may overlap, one loss or change and what repairs it, one packet through any device; a lost link may take a packet or refuse it | a packet is transmitted once, by a radio it was addressed to, and in the end it is; what an instance offers is what its neighbour published last |
| `outbox` | two messages, a stream or Bluetooth device, insertions of other threads, one fault | acknowledgements, but for a message that was told another row's id; every call returns unless a thread locks `devices_mu_` twice, which it does in two places (section 6) |
| `again` | both main loops, plain and TLS, with and without the web server, a web user, clients of the stream server, a second device that fails; five faults; quitting at any time | a disconnected device stays so; the headless loop repairs only what is broken, and, with the web server, does; a program asked to quit ends without a connection, unless a reading thread has locked itself out, the stream server does not stop or two calls have replaced one another's transports; only a connection that was still being made outlives `run_app` |
| `radio` | two packets, announced or not, with or without a subscription, a sender, `stop`, a radio that falls silent once | no packet is lost or emitted twice, none is left at the radio, nobody uses destroyed objects, `stop` and sends return |
| `http` | a listener beside a sender of a message, or a page beside an endless request; one event or keepalive; a browser that stalls, goes or talks; `stop` | streams are never torn, what is shown is recorded, frames arrive, requests are answered, `stop` closes everything |
| `desk` | two devices, one connected at the start, one of them with a message of an earlier run; a message heard by one, an answer posted over the other, one typed; two commands | a conversation has one window, found under the right key; the window shows what was handled and nothing else, and is marked until looked at, answers excepted that are stored elsewhere than shown; no event is left lying with the UI asleep |
| `store` | rows of two nodes, one of them under all three spellings; a kill, a refused statement or a disconnection anywhere; two values heard or zeroed | a renaming is completed however it was interrupted, and a backfill by the start that began it; rows are lost only after a refused statement, an update keeps what it does not carry, and the newest name is shown but where another device, or an offline copy after a disconnection, comes first |

A run that finds a violation of something the repository says of itself:

| Run | What happens |
|---|---|
| `sync_telemetry_echo` | two instances send one telemetry sample back and forth for ever: a merged row counts as inserted |

**Bounds.** `PageSize` is 1 where the code has 20: two rows already need a second
page. Their time stamps differ: two rows of one time stamp that a page splits
violate `InventoryAnswered` (section 6). `MaxCopies = 2` means "two or more".
`MaxHears`, `MaxSyncs`, `MaxFaults`, `MaxConfigs`, `MaxBroadcasts`, `MaxEvents`,
`MaxKeys`, `MaxHeard`, `MaxTurns`, `MaxPackets`, `MaxChanges` bound how often the
environment acts; they are guards of the environment's actions only. `MaxPolls`
stands for the 30 seconds of the Bluetooth handshake, which may also end earlier.
Three instances are the smallest chain in which a row is forwarded. Payloads of up
to six bytes, on a line that holds six and in reads of at most five, let every frame
be cut at every byte and leave a rest of a TLS record. `MaxRetries = 2` (the code:
10), `MaxAttempts = 2` (6 in `Reconnect`, 3 in `BluezClient`), `MaxErrors = 1` (3)
and `MaxResidual = 1` (50) allow one failure that is not the last. Three connections
and a limit of two let a third be rejected and let it in after one has left; one
broadcast for each thread lets a client be found gone while its own handler is
broadcasting. In `http` a stream's output is full at four units: the header and one
frame fit, a second frame finds the buffer below the limit and goes over it, the
next is dropped; one piece fills a header, and one packet is remembered. In `desk`
two events of the devices (a connection, a message, an acknowledgement, a channel)
and two commands of the user fall in any order; a history of 200 rows and a
scrollback of 5000 lines are out of reach, and the copies of one message are taken
to come within two seconds of each other. In `store` one fault is enough to
interrupt every statement once, and two heard values let a part of a node be
followed by the other part or by a newer one; one reading thread, as a stream device
has, suffices for what is claimed of events of a node handled one at a time, and the
theorems are for any number of them. In `outbox` one fault is any one of a loss, a
replaced runtime and a restart; insertions of other threads are not bounded, and one
of them between a row and its id is enough (`InsertElsewhere`). In `again` a stream
server and a second device are tried alone, and the terminal has the web server only
for its users. In `virtual` the chain is the smallest in which a list could travel
further than it should, the two ends have radios of one name, and the middle has
none, so that its lists name streams only. `MaxChanges` bounds what is lost,
detached or renumbered; what comes back after that is not bounded, and there is
nothing more to come back after three steps each. No symmetry is used.

**Fairness.** Threads that can run do run: every reading thread, every call in
progress, the accepting thread, `stop`, the main loops with their timers (the 15
seconds of the headless loop without the web server among them, `TimeUp`), the
Bluetooth threads with theirs (a D-Bus call ends by its answer or its timeout), the
web worker, the UI thread (`UiTurn`, which wakes whenever the eventfd is written and
handles its whole batch, and `OpenTurn`, its loop over the stored talks). Nothing is
assumed of users, radios, other ends, browsers or faults: they may stop at any time.
Nor is anything assumed of `stop_stream_server`, if others connect to the program.
Weak fairness is enough but for `proxy_mu_`: the drain thread takes it again every
five seconds and sleeps in between, so that whoever waits for it gets it (strong
fairness of `Calls`, `SendLocks` and `Reset`).

**Deadlock** is not checked: every model may stop when its environment has
nothing more to do, and the properties of form `~>` say what must not be stuck.

## 4. Proofs

`DbSyncProofs` proves for every set of instances connected as a tree, every set
of rows, and all bounds:

* `TypesKept`: the state stays well typed;
* `NoDuplicates`: no row that can be recognised is stored twice at an instance, unless
  the neighbour towards the row's origin has connected again while the thread of its
  earlier connection was not done (`overtaken`);
* `SpreadsOutward`: a row is stored at an instance only if the neighbour towards
  its origin has it too;
* `BackedByStore`: what is in flight is stored where it came from;
* `Refinement`: `DbSync` implements `Gossip`: the initial states map to initial
  states of `Gossip`, and each step to one of its steps or to none (`]_Stored`).

`NoDuplicateCopies` is not inductive. Why is a row not stored twice although
looking it up and inserting it are two steps? In a tree all copies of a row
first come over one link, the one towards its origin, and of the reading threads of
one link only the last has anything to do, unless the link is `overtaken`
(`Alone`). The invariant `IInv` says this: `NearestFirst` (a copy at `p`
implies one at the neighbour towards the origin), `SentIsStored` (a payload in
flight or being worked through is stored at its sender), hence a row found
missing at `p` cannot be in flight from anywhere but the neighbour towards its
origin; `HeardFirst` (nothing exists before its origin has heard it); and
`FreshIsAbsent` (a row between `CheckRow` and `InsertRow` is absent, and only
the thread of that one link can be there). On an overtaken link two threads can
be there, and the code does store the row twice. `TreeAssumption` is needed: in a ring
of four a row comes from two sides at once, both reading threads find it missing,
and it is stored twice.

`MeshServiceProofs` of `Outbox`, for every set of messages and either kind of device:

* `OutboxTypesKept`;
* `AcknowledgementsAreHonest` (`AckIsHonest`): what is shown acknowledged or refused the
  radio has acknowledged or refused, and `pending_acks` names only stored messages
  that wait;
* `AnswersAreFinal` (`AnswerIsFinal`): no step and no restart takes a shown answer back.

Both except a message whose row another message was told to be its own
(`TakesRowOf`): the answer to that one is shown for it.

The invariant adds to `AckIsHonest` that a call in progress has come no further
than what it has left in the database (`Staged`), and that answers on their way are
ones the radio gave (`AnswersAreTrue`). `OwnRows` says that only a message whose id was
crossed has a foreign one, so that an answer goes to the message's own row (`Shown`,
`Waiting`) in every other case. An answer is given once, so that no second
one of another sense can follow. `Outbox` is instantiated there (`O`), and what it
assumes of its constants (`Legal`) is the hypothesis of these theorems.

`MeshServiceProofs` of `VirtualDevices`, for every set of instances, sessions and
radios, any number of packets, and all bounds:

* `AirsInPlaceHolds`: a packet comes out only where it was addressed, over any
  topology, rings included;
* `AirsWhereAddressedHolds` (`AirsWhereAddressed`): and out of no radio twice, if no
  server is reached over two streams of one instance and none over its own
  (`OneWay`), as in the stars and daisy chains of README.md:19 and :206.

What a packet in flight may still do is `Reach`: a raw payload comes out at the one
device it names, a frame at all devices of the server it comes to and of those above
that. `Places` says that this lies within what the packet was addressed to
(`Addressed`), `UnsentQuiet` that nothing is in flight of a packet that was not sent.
A raw payload goes to all neighbours and names a device and not an instance, so that
what it names must be the neighbour's: `Known` says that whatever a table, a list in
flight, a synchronisation or a call in progress names was a device of the instance it
came from, although that may have lost it since and the tables of stream and original
may have changed between the look-ups. `Once`: what may still come out at a
place is in flight once, and not at all if it has come out there. In a ring
a frame meets itself again, hence `OneWay`, which the code does nothing to ensure. The
third part of `TypeOK`, a bound on `changes`, holds because whatever is lost or
unknown counts as a debt, which repairing pays (`ChangesBound`).

`MeshServiceProofs` of `Reconnect`, for every way to start the program and any number
of faults; as for `Outbox`, `Reconnect` is instantiated (`R`), and what it assumes of
its constants (`R!Legal`) is the hypothesis:

* `ReconnectTypesKept`;
* `DisconnectedStaysDown` (`DisconnectedStays`);
* `NothingOutlivesTheProgram`: when the program is over the device has no
  connection.

`Orderly` is why: whoever is between `open` and `start` has a transport
(`HasTransport`); a device that is gone has ended its connection or has a thread
that will see it gone (`GoneIsOver`); a device that is connected and not listed yet
will be (`ListedAtLast`); and after the web server has been joined and the
connecting thread with it, nobody is left to make another (`EndsInOrder`). The
second pass of `disconnect_all`, in `~MeshService`, is needed: without it
`Destroy` leaves the late connection up, which is a mutant of `QuitEnds`. Besides:

* `OnlyTheBrokenIsRepaired` (`RepairsOnlyTheBroken`), from `Steady`: while a connection
  is up, the headless loop neither watches for its return nor will when it has read
  its queue, since the new connection's `EvConnected` stands behind the end of the old
  one (`UpIsKnown`);
* `OnlyTheLateOutlive` (`OnlyLateOutlives`), an action property: once the devices have
  been disconnected and nobody is connecting (`Closing`), that stays so.

`StoreProofs`, for every file, every set of nodes and of reading threads, and any
number of runs, kills and refused statements:

* `TypesKept`;
* `OpensComplete` (`OpenCompletes`) and `NoRowsLost` (`LossOnlyAfterRefusal`), from
  `OpenInv`: `OpenSoFar` says which renamings are complete at each stage of
  `open`, and `DropIsSafe` that before each `DELETE` every row it takes has one
  under the new spelling, unless the `UPDATE` was refused;
* `NothingIsForgotten` (`NothingForgotten`), from `MemInv`: no stored, remembered or
  handled value is newer than what was heard (`Bounded`), the stages of loading and
  handling follow each other (`InOrder`), and of a node that has not `raced` memory
  is never older than the disk once its row is loaded (`NothingOlder`), which is not
  true of others;
* `NewestNameShown` (`ShowsNewestName`), from both and from where names are taken
  (`NamesFit`): as long as the device has not been disconnected, the offline copy of a
  node is not older than its row until the device has it itself.

`BluezProofs`, for every set of sending threads and all bounds:

* `TypesKept`;
* `PacketsKept` (`NothingLost`): a packet is in one place, at the radio, with the
  reader that took it, or emitted, and only the test read drops one;
* `ObjectsSafe` (`ObjectsOutliveCalls`).

`Use` says who is where: which places each thread can be in (`Places`), that no
thread of the connection runs before `start` has returned an id or after `stop` has
joined it, and that the objects exist in between (`Lifetimes`), and that whoever
holds `proxy_mu_` is in a call, with nothing in hand if that is a read (`InCall`).
The last is why the two readers cannot lose a packet to each other. `TestedOnce`
adds that the test read comes once. Copies of a packet are counted: a read moves
one from the radio's queue to a hand (`CopiesTail`, `HoldingOneMore`), emitting it
from there to the output (`CopiesAppend`).

`StreamServerProofs`, for every set of connections, every limit and any number of
broadcasts:

* `ListKept` (`ListIsRight`) and `StopIsComplete` (`StopLeavesNothing`).

`Room` is why the limit holds although `accept_loop` tests it in one critical section
and adds in another: in between, only it could add. `Members` says that a client is
listed once, from when its thread starts until that has ended; the clean-up erases
the place it stands at (`RemoveAtIs`), and everything that is not in the list has no
thread. `Walk`: the accepting thread has ended before `stop` goes on to the clients.

`HttpServerProofs`, for every set of browsers, reading threads and events, and all
limits:

* `StreamsStayWhole` (`StreamIntact`), `ShownIsRecorded` (`RecordedBeforeShown`) and
  `StopLeavesNoneOpen` (`StopCloses`).

`Casts` says what a broadcast has in hand: the last frame its thread made, and
connections it has not visited yet, each once, all of them streams. `Serving`
says that the chunk the worker sends is what comes next of the output, although
frames may have been added behind it since it was copied; hence what a browser has,
followed by what is left of its output, stays the header and whole frames
(`StreamsWhole`) whatever part of the chunk was taken. `Ages`: a connection that a
broadcast has still to visit has only older frames of that thread, so that frames
come in order and once. `Records`: what is in any output or about to be is in the
lists already. `Opened` and `Ends`: an open connection is listed until the worker has
closed it, and the worker has ended before `stop` closes the rest.

`StreamLinkProofs`, for every set of sending threads, all scripts, noise and limits:

* `CutsDoNotMatter` (`ChunkingIsInvisible`): what the parser hands on is what a
  reading of all bytes finds, whatever the cuts, and whether the bytes are frames,
  noise, mixed frames or halves of frames.

What has been read does not say what the format makes of it, since that may depend on
what follows. The invariant (`Understands`) therefore speaks of every continuation
`b` of the bytes read: the parser's buffer is what is left of `b` at its place, the
fields it has read are those of a header there (`Reads`), and the frames of `b` are
those handed on followed by those from the parser's place on. Reading more
narrows the continuations (`UnderstandsMore`); each stage of `Pass` moves the place
over bytes that begin no frame, or over a frame it hands on (`FindStartReads` to
`TakePayloadReads`). `Waits` bounds what is held back. What `FramesFrom` computes is
proved by induction over places, from the last backwards (`FramesExist`,
`FramesFromIs`, `Skipped`): the library's induction theorem cannot be instantiated, so
`AllNumbers` states induction for a set of numbers, from the well-foundedness of `<`.

Two more theorems have hypotheses: there is one sending thread, and the noise does not
look like a header (`QuietNoise`). Both are needed: two threads mix their frames, and
noise with a header in it swallows what follows (section 6).

* `FramesArriveInOrder` (`SentInOrder`) and `ClosingLosesNothing`
  (`NothingLostAtClose`).

`Orderly` says that as long as no send failed there are bytes `B` whose frames are
those sent (`Whole`), which begin with what has been written, and which, unless the
connection broke, are that and the rest of the current frame. `B` is one of the
continuations `Understands` speaks of, so that the frames handed on are the first of
those sent. `Closing`: at the end of `read_loop` nothing is left unread.

`DeskProofs`, for every set of devices, channels, peers and messages, all rows of
earlier runs, and any number of events and commands:

* `TypesKept`;
* `KeysMatch` (`WindowsAndKeysMatch`), `WindowsShowTheirTalks` (`WindowShowsItsTalk`)
  and `UnreadMarked` (`UnreadIsMarked`).

`Orderly` says that `by_key_` has the keys of the windows and no others, each with
its window's number, and that no two windows are of one talk. Every method of the
window manager is shown to keep this, and to be one of four things: windows are
changed in place (`Changes`), one is opened or retargeted (`Opens`), one is closed
and those behind it move down (`Closes`), or another becomes current (`Goes`). No
two windows of a talk is why retargeting may erase only the key of the window it
finds: there is no other that had it.

`Fine` is what the windows show. `TalkRight`: a line is of its window's talk in
every row that has it. `Complete`: a window of a talk that one device has rows of
shows whatever was handled and not cleared away; a window that is opened reads the
database, so that this needs handled messages to be stored (`RowsRight`). `Kept`:
what was handled and not seen is in a window of the conversation it was sent to, for
nothing that is marked unread is closed or cleared but the current window, which the
user has before him (`Seen`). `Marked` is `UnreadIsMarked`. What is handled is an
event that waited, so `Waiting` follows events from the hand of a reading thread
through the queue to the batch: each tells of a stored row (`Announced`). The talk
of the row and the one in which the event will be shown are chosen in two places,
`handle_event` (`StoredIn`) and `append_text` (`ShownIn`), and differ for answers
only (`RowsRight`): a row that is not where its message was sent to (`Astray`) is
one that answers another. `TalkRight` and `Complete` are about all lines, `Marked`
and `Kept` about those of the conversation they were sent to (`Meant`). What
`LinesOf` computes is proved by the same induction over numbers as for `StreamLink`
(`LinesExist`, `LinesOfIs`). `DeskAssumption` says of the rows of earlier runs that
a message has one talk in all of them.

The assumptions are those named `...Assumption` in the modules; TLC evaluates them
in every run. Theorems of one module use the same induction: `InitInvariant`, a
lemma per group of actions, and a temporal step.

Only model-checked: all liveness properties (`EchoesEnd`, `PushesReachEveryone`,
`InventoryAnswered`, `HeldBackAtMost`, `CallsReturnOrJoin`,
`CallsReturnUnlessLockedTwice`, `HeadlessHeals`, `QuitEnds`, `OffersFollow`,
`SentIsAired`, `WaitingIsRead`, `StopAndSendReturn`, `FramesAndAnswersArrive`,
`EventsHandled`), which are out of the prover's reach. Every safety property of the
passing runs is proved.

## 5. Plan

Every module of the plan is written: `DbSync`, `Gossip`, `DbSyncTree`,
`StreamFraming`, `StreamLink`, `StreamServer`, `Outbox`, `Reconnect` (with the start
and the end of `run_app`), `VirtualDevices`, `HttpServer`, `BluezClient`, `Desk`,
`Store`; and the proofs of `DbSync`, `Outbox`, `Reconnect`, `Store`, `BluezClient`,
`StreamServer`, `HttpServer`, `StreamLink`, `VirtualDevices` and `Desk`, each with all
the safety properties its runs check.

A run is one question; two runs of one module (`sync_chain`, `sync_live`) ask about
safety under faults and about progress without them.

## 6. What is not modelled, and known limits

Not modelled:

* Data races below the level of a field: `seen_messages_` and `write_count_`
  without a lock, concurrent use of one `SSL` object. Their outcome is undefined.
* The contents of packets, protobuf, JSON, compression, SQL: payloads are model
  values, and a conversion is assumed to be inverted by its counterpart.
* Drawing, key handling, command parsing, configuration, and the commands that
  touch neither windows nor connections: sequential and without
  shared state.
* Windows-specific code, and scanning for Bluetooth devices.

Limits of the code that the models show when an instance or a bound is changed,
and that no run above is about:

* `DbSync`: two messages of different senders with one packet id are taken for
  copies (the comment at db_sync.cpp:259 says "same sender"). Rows lost with a
  connection are never asked for again once a newer row has come. Rows that share
  the last time stamp of a page are skipped: with two of them `InventoryAnswered` is
  violated. A server does not wait for the thread of a client's earlier connection
  (stream_server.cpp:253): if the client connects again while that thread still has
  rows to handle, two threads test for a row and both insert it (`overtaken`, the
  exception of `NoDuplicateCopies`).
* `StreamLink`: two threads that send at once mix their frames, since `write_mu_` is
  taken per write. A send that gives up leaves half a frame on the line, which
  swallows the next; so does log output that happens to look like a header. A
  payload of fewer than four bytes waits in the buffer for the next frame; the rest
  of a TLS record waits for the next record. A reset plain connection is reported as
  `EvError` only.
* `StreamServer`: a client that leaves during its own broadcast deadlocks the
  server: `accept_loop` joins its thread with `clients_mu_` held, and that thread
  waits for the mutex. So does a client that leaves while its handler writes to
  another that reads no more, or whose thread ends while it reads no more itself:
  then `stop()` waits as well, which joins the accepting thread before it shuts the
  connections down (`JoinsABlocked`, the exception of `CallsReturnOrJoin`). The send
  timeout is removed after the authentication (stream/stream_server.cpp:350), so
  that a client that reads no more holds up all broadcasts, and the radios' reading
  threads with them, until it leaves or `stop()` is called. A broadcast may use a
  session that is not authenticated yet or has just been freed.
* `Outbox`: an answer that comes before `pending_acks` knows of the message is lost.
  `insert_message` reads `sqlite3_last_insert_rowid` (database.cpp:687) from the
  connection that all threads share: if another thread inserts a row in between, the
  answer is shown for another message, also for one that has its answer, or for none
  (`TakesRowOf`, the exception of `AckIsHonest` and `AnswerIsFinal`). Two calls lock
  `devices_mu_` twice in one thread and never return, nor does any later call:
  `handle_event` starts a sync when a stream device has sent its configuration
  (mesh_service.cpp:1033), and `set_config` for a virtual device sends to the
  neighbours, each with the mutex held. mesh_service.h:61-62 says that "All public
  methods are safe to call from the UI thread". `WaitsForItself` is the exception of
  `CallsReturnUnlessLockedTwice`.
* `VirtualDevices`: a server refuses texts to the radios its clients offer, since
  their label `meshserver:<address>` is no key of `devices_` (README.md:204 of the
  repository promises it of the radios of "a server or client"); clients at one
  address share a label, and each takes the other's offers away. A raw packet names
  a device and not an instance, so that every neighbour with a device of that name
  transmits it. A traceroute to a virtual device, and a change of its configuration,
  names the virtual id, which no neighbour has: it is reported sent and never
  transmitted. When a device goes between `virtual_stream_for` and
  `virtual_original_for`, the text is sent to nobody and reported sent. `db_for`
  answers for a device that has just gone with the only one left, whose number is
  then advertised under the wrong name. Of two overlapping syncs the older list may
  be sent last. An empty list is never sent (db_sync.cpp:398), so that a neighbour
  goes on offering the last device of all.
* `Reconnect`: the terminal never reconnects on its own, although the repository's
  README.md:29 promises it: `maybe_reconnect` takes a device that is listed for a
  reconnected one (tui.cpp:192), and a lost device stays listed. With `Setups`
  reduced to the terminal, `SelfHeals` (the terminal's counterpart of
  `HeadlessHeals`) is violated. A second device that cannot be connected empties the
  queue (app.cpp:100), with the `EvDisconnected` of the first in it, which the
  headless loop then never repairs. A device that is listed after `disconnect_all`
  pushes its events into a queue that is gone, until `~MeshService` (the exception
  of `OnlyLateOutlives`). A rejected TLS handshake lists the device under an empty
  name; a transport may be replaced while another thread uses it, whose step is then
  undefined (`Torn`). Without the web server the headless loop never reconnects
  (app.cpp:188). A reading thread that has locked `devices_mu_` twice keeps the
  program from ending: `disconnect_all` waits for the mutex, and `stop` for the
  thread. So does a stream server that does not stop. Each is an exception of
  `QuitEnds`.
* `Desk`: an answer is stored with the message it answers and shown in the
  conversation it was sent to, so that a direct reply to a message of a channel
  appears in the peer's window, and after that window was made anew in the channel's
  only; the mark of an unread answer is likewise the window's it was sent to.
  `/query` goes to the last window, which is not the peer's when that was open
  before (command.cpp:219; README.md:160 of the repository promises the peer's), so
  that what is typed next goes to someone else. `/close` selects the window before
  the closed one, not the previously active one. Leaving an empty direct
  conversation marks the window before it read. `/clear` is undone by the next
  message, which reloads the history. A message that `send_text` refused is shown
  like a sent one. A message is shown twice when a copy, the history or the echo of
  an own one is not the last line; the windows two devices have of one channel are
  one window, which belongs to whichever heard it last. A new window reads the
  history of one device, and of the others only if that one has none.
* `Store`: an event that is handled before the device's rows are loaded overwrites
  the whole row of its node, so that fields known before are lost from the disk
  (README.md:33 promises that nodes survive restarts), and loading may put an older
  row over what was just heard. An entry of the radio's node list that has some
  device metrics sets the others to zero, over what was heard
  (mesh_codec.cpp:310-316). After a device was disconnected, `find_node` answers
  from `offline_dbs_`, loaded perhaps long before; with several devices the first
  that knows the node is asked, whatever the others have heard since. Two threads
  that handle events of one device at once (a Bluetooth device has two readers) may
  each lose what the other merged. A Bluetooth device asked for by its name loads
  nothing, since its rows are under its address. A backfill killed between its three
  `INSERT`s is never completed: the next start finds the log not empty. An `UPDATE
  OR IGNORE` that was refused is followed by its `DELETE` and the rows are gone.
* `BluezClient`: when `StartNotify` fails the connection is up all the same, and
  what the radio has is read every five seconds only. When the connect flow has
  failed, the handshake still polls for 30 seconds; the test read drops a packet;
  the two readers may emit out of order; `connected_` stays set and no
  `EvDisconnected` is emitted when the radio goes out of range; `EvConnected` is
  emitted before the characteristics are found, and not taken back when they are
  not.
* `HttpServer`: a connection with an incomplete request is kept for ever, and a
  handler that waits stops every stream.
