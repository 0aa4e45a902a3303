------------------------------- MODULE Store -------------------------------
(***************************************************************************)
(* What the database remembers of a device from one start of the program   *)
(* to the next (src/src/store/database.cpp, mesh_service.cpp, node_db.cpp). *)
(* Opening it renames the rows earlier versions wrote under other          *)
(* spellings of the device's id and fills the packet log, in statements    *)
(* that commit one by one: the program may be killed between any two, and  *)
(* a statement may be refused (another process holds the file for more     *)
(* than the five seconds of the busy timeout, or the disk is full), which  *)
(* nobody looks at.  Once the device is connected its reading threads      *)
(* handle what the radio says of the nodes, in memory and on disk, while   *)
(* the connecting thread loads what the disk remembers into the same       *)
(* memory.                                                                 *)
(*                                                                         *)
(* Of a node two fields are kept: "name" stands for what node information  *)
(* says, "reading" for a device metric.  A value tells which time the      *)
(* field was given one: k if it was heard the k-th time, -k if the k-th    *)
(* time it was set to zero for want of one in the packet; 0 is a field     *)
(* without a value.                                                        *)
(***************************************************************************)
EXTENDS Integers, FiniteSetsExt

CONSTANTS
    Node,
    Reader,      \* the threads that handle the device's events
    Path, Short, \* "/org/bluez/hci0/dev_XX_..." and "dev_XX_..."
    Mac,         \* "XX:...", the spelling in use
    None,
    Old,         \* files of earlier versions: old[s] are the nodes with a row under s
    MaxHeard,    \* bound: events heard
    MaxFaults    \* bound: kills, refused statements and disconnections

Spelling == {Path, Short, Mac}
Field == {"name", "reading"}
Table == {"messages", "telemetry_history", "location_history"}
Values == [Field -> Int]

ASSUME StoreAssumption ==
    /\ Path # Short /\ Path # Mac /\ Short # Mac
    /\ None \notin Spelling \cup Node
    /\ None \notin Values /\ None \notin [node : Node, vals : Values]
    /\ Old \subseteq [Spelling -> SUBSET Node]
    /\ {MaxHeard, MaxFaults} \subseteq Nat

VARIABLES
    way,       \* "id": the device is asked for by its id; "name": by its name
    \* the file
    history,   \* history[t]: the spelling of the device in the rows of table t
    rows,      \* rows[s][n]: the row of node n under s, or None
    log,       \* the tables whose rows are in packet_log
    \* opening it
    pc,        \* "down", a stage of open, or "up"
    todo,      \* the renames the SELECT DISTINCT has found
    cur,       \* the one whose rows are to be deleted
    moved,     \* the last UPDATE OR IGNORE was carried out
    refused,   \* a statement of this open was not
    filled,    \* this open found the log empty
    \* the running program
    mem,       \* mem[n]: node n in the device's NodeDb
    offline,   \* offline[n]: node n in offline_dbs_; or None
    pre,       \* connect_device: "no", "started", "loading", "done";
               \* disconnect_device: "leaving" until the threads are joined
    left,      \* nodes whose rows load_nodes has yet to step to
    hand,      \* the row it has read and not yet stored
    ev,        \* ev[r]: the event thread r handles, and how far it is
    faults,
    \* history
    gone,      \* the device has been disconnected in this run
    raced,     \* the nodes of which an event came, since the device was connected,
               \* while another of it was handled or before its row was loaded
    heard      \* heard[n][f]: how often field f of node n was given a value

fileVars == <<history, rows, log>>
openVars == <<todo, cur, moved, refused, filled>>
memVars == <<mem, offline>>
preVars == <<pre, left, hand>>
pastVars == <<gone, raced, heard>>
vars == <<way, fileVars, pc, openVars, memVars, preVars, ev, faults, pastVars>>

Blank == [f \in Field |-> 0]
Known == [f \in Field |-> 1]
Idle == [at |-> "idle", node |-> None, vals |-> Blank]

\* The fields a has, and those of b for the rest.
Over(a, b) == [f \in Field |-> IF a[f] # 0 THEN a[f] ELSE b[f]]

RowOf(s, n) == IF rows[s][n] = None THEN Blank ELSE rows[s][n]

Nothing == [n \in Node |-> Blank]

\* A file that an earlier version has left.
Init ==
    /\ way \in {"id", "name"}
    /\ history = [t \in Table |-> Path]
    /\ \E old \in Old :
          rows = [s \in Spelling |-> [n \in Node |-> IF n \in old[s] THEN Known ELSE None]]
    /\ log = {}
    /\ pc = "down" /\ todo = {} /\ cur = None
    /\ moved = TRUE /\ refused = FALSE /\ filled = FALSE
    /\ mem = Nothing /\ offline = None
    /\ pre = "no" /\ left = {} /\ hand = None
    /\ ev = [r \in Reader |-> Idle]
    /\ gone = FALSE /\ raced = {}
    /\ heard = [n \in Node |-> Known]
    /\ faults = 0

-----------------------------------------------------------------------------
(* Database::open *)

\* Mutant: only D-Bus paths are looked for.
ToRenamePaths == {Path}

\* normalize_db_device, for the devices LIKE '%dev_%' selects.
ToRename == {Path, Short}

Refuse ==
    /\ faults < MaxFaults
    /\ faults' = faults + 1
    /\ refused' = TRUE

Open ==
    /\ pc = "down"
    /\ pc' = "history"
    /\ todo' = {<<t, history[t]>> : t \in {u \in Table : history[u] \in ToRename}}
    /\ UNCHANGED <<way, fileVars, cur, moved, refused, filled, memVars, preVars, ev,
                   faults, pastVars>>

Turn == [messages |-> 1, location_history |-> 2, telemetry_history |-> 3]

RenameHistory ==
    /\ pc = "history"
    /\ \E p \in todo :
          /\ \A q \in todo : Turn[p[1]] <= Turn[q[1]]
          /\ todo' = todo \ {p}
          /\ \/ history' = [history EXCEPT ![p[1]] = Mac] /\ UNCHANGED <<refused, faults>>
             \/ Refuse /\ UNCHANGED history
    /\ UNCHANGED <<way, rows, log, pc, cur, moved, filled, memVars, preVars, ev,
                   pastVars>>

HistoryRenamed ==
    /\ pc = "history" /\ todo = {}
    /\ pc' = "nodes"
    /\ todo' = {s \in ToRename : \E n \in Node : rows[s][n] # None}
    /\ UNCHANGED <<way, fileVars, cur, moved, refused, filled, memVars, preVars, ev,
                   faults, pastVars>>

\* Mutant: a plain UPDATE, which one such row undoes.
MovedAllOrNone(s) ==
    IF \E n \in Node : rows[s][n] # None /\ rows[Mac][n] # None
    THEN rows
    ELSE [rows EXCEPT ![Mac] = [n \in Node |-> IF rows[s][n] # None THEN rows[s][n] ELSE @[n]],
                      ![s] = [n \in Node |-> None]]

\* UPDATE OR IGNORE: a row stays where its node has a row under Mac already.
Moved(s) ==
    LET moves == {n \in Node : rows[s][n] # None /\ rows[Mac][n] = None}
    IN  [rows EXCEPT ![Mac] = [n \in Node |-> IF n \in moves THEN rows[s][n] ELSE @[n]],
                     ![s] = [n \in Node |-> IF n \in moves THEN None ELSE @[n]]]

MoveRows ==
    /\ pc = "nodes"
    /\ \E s \in todo :
          /\ todo' = todo \ {s}
          /\ cur' = s
          /\ \/ rows' = Moved(s) /\ moved' = TRUE /\ UNCHANGED <<refused, faults>>
             \/ Refuse /\ moved' = FALSE /\ UNCHANGED rows
    /\ pc' = "drop"
    /\ UNCHANGED <<way, history, log, filled, memVars, preVars, ev,
                   pastVars>>

\* The DELETE follows whatever became of the UPDATE.
DropRows ==
    /\ pc = "drop"
    /\ \/ rows' = [rows EXCEPT ![cur] = [n \in Node |-> None]] /\ UNCHANGED <<refused, faults>>
       \/ Refuse /\ UNCHANGED rows
    /\ pc' = "nodes" /\ cur' = None
    /\ UNCHANGED <<way, history, log, todo, moved, filled, memVars, preVars, ev,
                   pastVars>>

RowsRenamed ==
    /\ pc = "nodes" /\ todo = {}
    /\ filled' = (log = {})
    /\ pc' = IF log = {} THEN "messages" ELSE "up"
    /\ UNCHANGED <<way, fileVars, todo, cur, moved, refused, memVars, preVars, ev,
                   faults, pastVars>>

AfterTable == [messages |-> "telemetry_history", telemetry_history |-> "location_history",
               location_history |-> "up"]

\* One INSERT ... SELECT for each table.
Backfill ==
    /\ pc \in Table
    /\ \/ log' = log \cup {pc} /\ UNCHANGED <<refused, faults>>
       \/ Refuse /\ UNCHANGED log
    /\ pc' = AfterTable[pc]
    /\ UNCHANGED <<way, history, rows, todo, cur, moved, filled, memVars, preVars, ev,
                   pastVars>>

-----------------------------------------------------------------------------
(* The end of a run: closed or killed. *)

Stop ==
    /\ \/ pc = "up" /\ UNCHANGED faults
       \/ pc # "down" /\ faults < MaxFaults /\ faults' = faults + 1
    /\ pc' = "down" /\ todo' = {} /\ cur' = None
    /\ mem' = Nothing /\ offline' = None
    /\ pre' = "no" /\ left' = {} /\ hand' = None
    /\ ev' = [r \in Reader |-> Idle]
    /\ moved' = TRUE /\ refused' = FALSE /\ filled' = FALSE
    /\ gone' = FALSE /\ raced' = {}
    /\ UNCHANGED <<way, fileVars, heard>>

-----------------------------------------------------------------------------
(* load_offline_history and find_node *)

\* get_all_devices
Devices == {s \in Spelling : history["messages"] = s \/ \E n \in Node : rows[s][n] # None}

\* The device is in devices_.
Listed == pre \in {"loading", "done"}

\* SQL promises no order of them, and the first spelling ends the matter.  A
\* device in devices_ is not loaded if its id is known to be this one.
LoadOffline ==
    /\ pc = "up" /\ pre # "loading"
    /\ ~(Listed /\ way = "id")
    /\ offline = None
    /\ \E s \in Devices :
          offline' = [n \in Node |-> Over(RowOf(Mac, n), RowOf(s, n))]
    /\ UNCHANGED <<way, fileVars, pc, openVars, mem, preVars, ev, faults, pastVars>>

Named(v) == v["name"] # 0
IsOffline(n) == offline # None /\ Named(offline[n])

\* What get_node_any_device may answer: it takes the row heard of last, which
\* may be any.
NamesOnDisk(n) ==
    LET named == {s \in Spelling : Named(RowOf(s, n))}
    IN  IF named = {} THEN {0} ELSE {RowOf(s, n)["name"] : s \in named}

\* Mutant: the offline copy comes first.
NamesShownOffline(n, first, later) ==
    IF IsOffline(n) THEN {offline[n]["name"]}
    ELSE IF first # 0 THEN {first}
    ELSE IF Listed /\ Named(mem[n]) THEN {mem[n]["name"]}
    ELSE IF later # 0 THEN {later}
    ELSE NamesOnDisk(n)

\* The names find_node may give node n, and 0 for none, where the devices of
\* devices_ before this one and after it have the names first and later of n,
\* or 0 for none.
NamesShown(n, first, later) ==
    IF first # 0 THEN {first}
    ELSE IF Listed /\ Named(mem[n]) THEN {mem[n]["name"]}
    ELSE IF later # 0 THEN {later}
    ELSE IF IsOffline(n) THEN {offline[n]["name"]}
    ELSE NamesOnDisk(n)

-----------------------------------------------------------------------------
(* connect_device: from start() on the reading threads run. *)

Connect ==
    /\ pc = "up" /\ pre = "no"
    /\ pre' = "started"
    /\ UNCHANGED <<way, fileVars, pc, openVars, memVars, left, hand, ev, faults, pastVars>>

\* With devices_mu_.  A Bluetooth device asked for by its name is listed
\* under the name, and no row has that: its rows are under Mac.
List ==
    /\ pre = "started"
    /\ pre' = "loading"
    /\ left' = IF way = "id" THEN Node ELSE {}
    /\ UNCHANGED <<way, fileVars, pc, openVars, memVars, hand, ev, faults, pastVars>>

\* sqlite3_step gives the next row, if need be one inserted since ...
LoadRow ==
    /\ pre = "loading" /\ hand = None
    /\ \E n \in left :
          /\ left' = left \ {n}
          /\ hand' = IF rows[Mac][n] = None THEN None
                     ELSE [node |-> n, vals |-> rows[Mac][n]]
    /\ UNCHANGED <<way, fileVars, pc, openVars, memVars, pre, ev, faults, pastVars>>

\* ... and NodeDb::upsert_node.
StoreRow ==
    /\ hand # None
    /\ mem' = [mem EXCEPT ![hand.node] = Over(hand.vals, @)]
    /\ hand' = None
    /\ UNCHANGED <<way, fileVars, pc, openVars, offline, pre, left, ev, faults, pastVars>>

Loaded ==
    /\ pre = "loading" /\ left = {} /\ hand = None
    /\ pre' = "done"
    /\ UNCHANGED <<way, fileVars, pc, openVars, memVars, left, hand, ev, faults, pastVars>>

-----------------------------------------------------------------------------
(* disconnect_device takes the device off the list, and then joins its       *)
(* threads.                                                                  *)

Disconnect ==
    /\ pre = "done"
    /\ faults < MaxFaults /\ faults' = faults + 1
    /\ pre' = "leaving" /\ gone' = TRUE
    /\ UNCHANGED <<way, fileVars, pc, openVars, memVars, left, hand, ev, raced, heard>>

Joined ==
    /\ pre = "leaving" /\ \A r \in Reader : ev[r].at = "idle"
    /\ pre' = "no" /\ mem' = Nothing /\ raced' = {}
    /\ UNCHANGED <<way, fileVars, pc, openVars, offline, left, hand, ev, faults, gone, heard>>

-----------------------------------------------------------------------------
(* handle_event(EvNodeUpdated), without a lock *)

\* Of each field an event says something or nothing: telemetry has readings,
\* a user's packet has names, and an entry of the radio's own list of nodes
\* has both, one or neither.  The codec tests for each reading of a telemetry
\* packet; of an entry with device metrics it takes them all, and those the
\* entry lacks are zero.
Frames == {g \in [Field -> {"no", "yes", "zero"}] : g["name"] # "zero"}

\* Values given since the first start.
Total == MapThenSumSet(LAMBDA n : heard[n]["name"] + heard[n]["reading"] - 2, Node)

\* The row of node n is in memory, if it has one.
Settled(n) ==
    /\ way = "id" /\ pre \in {"loading", "done", "leaving"}
    /\ n \notin left /\ (hand # None => hand.node # n)

Busy(n) == \E r \in Reader : ev[r].at # "idle" /\ ev[r].node = n

\* Names the event does not give are taken from memory at once ...
Hear(r, n, given) ==
    /\ pre # "no" /\ ev[r].at = "idle"
    /\ Total < MaxHeard
    /\ heard' = [heard EXCEPT ![n] = [f \in Field |-> IF given[f] = "no" THEN @[f] ELSE @[f] + 1]]
    /\ LET vals == [f \in Field |-> CASE given[f] = "yes" -> heard'[n][f]
                                       [] given[f] = "zero" -> -heard'[n][f]
                                       [] given[f] = "no" -> 0]
       IN  ev' = [ev EXCEPT ![r] =
                     [at |-> "named", node |-> n,
                      vals |-> [vals EXCEPT !["name"] = Over(vals, mem[n])["name"]]]]
    /\ raced' = IF Settled(n) /\ ~Busy(n) THEN raced ELSE raced \cup {n}
    /\ UNCHANGED <<way, fileVars, pc, openVars, memVars, preVars, faults, gone>>

\* Mutant: the event is stored as it came.
MergedNot(vals, n) == vals

\* ... the other fields with a second look ...
Merged(vals, n) == Over(vals, mem[n])

Merge(r) ==
    /\ ev[r].at = "named"
    /\ ev' = [ev EXCEPT ![r].at = "merged", ![r].vals = Merged(@, ev[r].node)]
    /\ UNCHANGED <<way, fileVars, pc, openVars, memVars, preVars, faults, pastVars>>

Remember(r) ==
    /\ ev[r].at = "merged"
    /\ mem' = [mem EXCEPT ![ev[r].node] = Over(ev[r].vals, @)]
    /\ ev' = [ev EXCEPT ![r].at = "remembered"]
    /\ UNCHANGED <<way, fileVars, pc, openVars, offline, preVars, faults, pastVars>>

\* Database::upsert_node: the whole row, the fields without a value included.
Save(r) ==
    /\ ev[r].at = "remembered"
    /\ \/ rows' = [rows EXCEPT ![Mac][ev[r].node] = ev[r].vals] /\ UNCHANGED faults
       \/ faults < MaxFaults /\ faults' = faults + 1 /\ UNCHANGED rows
    /\ ev' = [ev EXCEPT ![r] = Idle]
    /\ UNCHANGED <<way, history, log, pc, openVars, memVars, preVars, pastVars>>

-----------------------------------------------------------------------------
Next ==
    \/ Open \/ RenameHistory \/ HistoryRenamed \/ MoveRows \/ DropRows
    \/ RowsRenamed \/ Backfill \/ Stop
    \/ LoadOffline
    \/ Connect \/ List \/ LoadRow \/ StoreRow \/ Loaded
    \/ Disconnect \/ Joined
    \/ \E r \in Reader :
          \/ \E n \in Node, given \in Frames : Hear(r, n, given)
          \/ Merge(r) \/ Remember(r) \/ Save(r)

Spec == Init /\ [][Next]_vars

-----------------------------------------------------------------------------
TypeOK ==
    /\ way \in {"id", "name"}
    /\ history \in [Table -> Spelling]
    /\ rows \in [Spelling -> [Node -> Values \cup {None}]]
    /\ log \subseteq Table
    /\ pc \in {"down", "history", "nodes", "drop", "up"} \cup Table
    /\ todo \subseteq (Table \X ToRename) \cup ToRename
    /\ cur \in ToRename \cup {None}
    /\ {moved, refused, filled, gone} \subseteq BOOLEAN
    /\ mem \in [Node -> Values] /\ offline \in [Node -> Values] \cup {None}
    /\ pre \in {"no", "started", "loading", "done", "leaving"}
    /\ left \subseteq Node
    /\ hand \in [node : Node, vals : Values] \cup {None}
    /\ ev \in [Reader -> [at : {"idle", "named", "merged", "remembered"},
                          node : Node \cup {None}, vals : Values]]
    /\ heard \in [Node -> [Field -> Nat]] /\ raced \subseteq Node
    /\ faults \in 0..MaxFaults

\* What open() has done when it returns, however often earlier attempts were
\* killed on the way: no row has an old spelling, and if this attempt found
\* the packet log empty, all earlier rows are in it.
OpenCompletes ==
    /\ TypeOK
    /\ pc = "up" /\ ~refused =>
          /\ \A t \in Table : history[t] = Mac
          /\ \A s \in Spelling \ {Mac}, n \in Node : rows[s][n] = None
          /\ filled => log = Table

HasRow(n) == \E s \in Spelling : rows[s][n] # None

\* The renaming makes no node's rows vanish, whatever the collisions between
\* spellings and wherever it is killed, but by the DELETE that follows an
\* UPDATE OR IGNORE that was refused.
LossOnlyAfterRefusal == [][\A n \in Node : HasRow(n) => HasRow(n)' \/ ~moved]_vars

Age(value) == IF value < 0 THEN -value ELSE value

\* A node's row neither loses a field nor goes back to an older value, although
\* every event rewrites all of it and carries a part: but by an event that came
\* before the node's row was loaded or while another of the node was handled.
\* The events of other nodes do no harm, nor does what is still being loaded.
\* (A reading is newer than the last also when it is a zero that the entry did
\* not carry: Frames.)
NothingForgotten ==
    [][\A n \in Node, f \in Field :
          n \in raced' \/ Age(RowOf(Mac, n)[f]) <= Age(RowOf(Mac, n)'[f])]_vars

\* For such nodes, when no statement was refused, find_node shows a name at
\* least as new as the one the device's row has, before and after the device
\* connects and when it is gone; unless it shows the name of another device in
\* devices_, or, once the device has been disconnected and while it is not
\* listed under its id, the one offline_dbs_ has; either may be older.
ShowsNewestName ==
    (pc = "up" /\ pre # "loading" /\ ~refused) =>
        \A n \in Node \ raced : \A first, later \in 0..heard[n]["name"] :
            \A name \in NamesShown(n, first, later) :
                \/ Age(RowOf(Mac, n)["name"]) <= Age(name)
                \/ name # 0 /\ name \in {first, later}
                \/ gone /\ ~(Listed /\ way = "id") /\ IsOffline(n) /\ name = offline[n]["name"]
=============================================================================
