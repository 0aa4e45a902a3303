------------------------------- MODULE Outbox -------------------------------
(***************************************************************************)
(* Outgoing messages and their acknowledgements                            *)
(* (src/src/mesh/mesh_service.cpp: send_text, set_config and handle_event  *)
(* for EvAckReceived and EvConfigComplete), for one device.                *)
(*                                                                         *)
(* send_text runs in the thread of the terminal UI or of a web request;    *)
(* handle_event in the reading thread of the device.  devices_mu_ is a     *)
(* std::mutex: a thread that holds it and locks it again waits for itself. *)
(* Every sync payload goes out through send_db_sync, which locks it.       *)
(*                                                                         *)
(* insert_message stores a row and then asks the connection for the id of  *)
(* the row it last inserted.  All threads insert over the one connection,  *)
(* so that the id may be of a row another thread has inserted since, in    *)
(* whatever table.                                                         *)
(*                                                                         *)
(* Messages here are those sent with want_ack.  A packet id names one      *)
(* message.  reconnect_device keeps the device's runtime and with it       *)
(* pending_acks; disconnecting and connecting again makes a new runtime.   *)
(***************************************************************************)
EXTENDS Integers, Sequences, FiniteSets, Acknowledgements

CONSTANTS
    Kinds,       \* what the device may be: "stream" (tcp:, mesh:), "bluetooth"
    Reader,      \* the device's reading thread
    User,        \* a thread that calls set_config for a virtual device
    None,        \* nobody
    MaxConfigs,  \* bound: configuration downloads, set_config calls, received texts
    MaxFaults    \* bound: lost connections, new runtimes, restarts, in all

Legal ==
    /\ Kinds \subseteq {"stream", "bluetooth"}
    /\ Reader # User /\ None \notin {Reader, User}
    /\ None \notin Texts
    /\ MaxConfigs \in Nat /\ MaxFaults \in Nat

ASSUME OutboxAssumption == Legal

VARIABLES
    kind,      \* what the device is
    mu,        \* who holds devices_mu_ across a call
    up,        \* the transport is connected
    runtime,   \* which DeviceRuntime devices_ holds, counted from 0
    stage,     \* stage[m]: how far send_text(m) has come
    queue,     \* answers of the radio on their way: <<message, success>>
    reading,   \* the answer the reading thread is working on
    syncing,   \* the threads inside send_db_sync, or on their way there
    configs,   \* configuration downloads, set_config calls, received texts
    faults     \* faults so far

dbVars == <<row, rowid, crossed>>
vars == <<kind, mu, up, runtime, stage, using, dbVars, pending, queue, said,
          reading, syncing, configs, faults>>

IsStream == kind = "stream"

Init ==
    /\ kind \in Kinds
    /\ mu = None
    /\ up = TRUE
    /\ runtime = 0
    /\ stage = [m \in Texts |-> "idle"]
    /\ using = [m \in Texts |-> 0]
    /\ row = [m \in Texts |-> "none"]
    /\ rowid = [m \in Texts |-> None] /\ crossed = {}
    /\ pending = {}
    /\ queue = <<>>
    /\ said = [m \in Texts |-> "nothing"]
    /\ reading = [pc |-> "idle", msg |-> None, ok |-> FALSE]
    /\ syncing = {}
    /\ configs = 0
    /\ faults = 0

Unlocked == mu = None
Goes(m, to) == stage' = [stage EXCEPT ![m] = to]

-----------------------------------------------------------------------------
(* send_text(m) *)

\* Mutant: a message may be sent again under its old packet id.
LookupAgain(m) ==
    /\ stage[m] \in {"idle", "returned"} /\ Unlocked
    /\ using' = [using EXCEPT ![m] = runtime]
    /\ Goes(m, IF up THEN "radio" ELSE "failed")
    /\ UNCHANGED <<kind, mu, up, runtime, dbVars, pending, queue, said, reading,
                   syncing, configs, faults>>

\* Find the device, and give up unless it is connected.
Lookup(m) ==
    /\ stage[m] = "idle" /\ Unlocked
    /\ using' = [using EXCEPT ![m] = runtime]
    /\ Goes(m, IF up THEN "radio" ELSE "failed")
    /\ UNCHANGED <<kind, mu, up, runtime, dbVars, pending, queue, said, reading,
                   syncing, configs, faults>>

\* Write it to the radio: from here on the radio may answer.
ToRadio(m) ==
    /\ stage[m] = "radio"
    /\ Goes(m, IF up /\ using[m] = runtime THEN "store" ELSE "failed")
    /\ UNCHANGED <<kind, mu, up, runtime, using, dbVars, pending, queue, said,
                   reading, syncing, configs, faults>>

Taking == {m \in Texts : stage[m] = "taking"}

\* A thread inserts the row with this id: those that are between their own
\* insertion and sqlite3_last_insert_rowid will be told it.
Inserted(id, ids) ==
    /\ rowid' = [m \in Texts |-> IF stage[m] = "taking" THEN id ELSE ids[m]]
    /\ crossed' = crossed \cup {m \in Texts : stage[m] = "taking"}

\* Store it, as pending, ...
Insert(m) ==
    /\ stage[m] = "store"
    /\ row' = [row EXCEPT ![m] = "pending"]
    /\ Inserted(m, [rowid EXCEPT ![m] = m])
    /\ Goes(m, "taking")
    /\ UNCHANGED <<kind, mu, up, runtime, using, pending, queue, said, reading,
                   syncing, configs, faults>>

\* ... and take the id of the row last inserted.
TakeId(m) ==
    /\ stage[m] = "taking"
    /\ Goes(m, "track")
    /\ UNCHANGED <<kind, mu, up, runtime, using, dbVars, pending, queue, said,
                   reading, syncing, configs, faults>>

\* Any other insertion of the program.  Ids of different tables coincide.  It
\* matters where it comes between a message's insertion and TakeId, and once.
InsertElsewhere ==
    /\ \E m \in Texts : stage[m] = "taking" /\ m \notin crossed
    /\ \E id \in Texts \cup {None} : Inserted(id, rowid)
    /\ UNCHANGED <<kind, mu, up, runtime, stage, using, row, pending, queue, said,
                   reading, syncing, configs, faults>>

\* Mutant: the lock is not released.
TrackHolding(m) ==
    /\ stage[m] = "track" /\ Unlocked
    /\ pending' = pending \cup {<<using[m], m>>}
    /\ Goes(m, "returned")
    /\ mu' = User
    /\ UNCHANGED <<kind, up, runtime, using, dbVars, queue, said, reading,
                   syncing, configs, faults>>

\* Remember which row the answer belongs to.
Track(m) ==
    /\ stage[m] = "track" /\ Unlocked
    /\ pending' = pending \cup {<<using[m], m>>}
    /\ Goes(m, "returned")
    /\ UNCHANGED <<kind, mu, up, runtime, using, dbVars, queue, said, reading,
                   syncing, configs, faults>>

SendText(m) == Lookup(m) \/ ToRadio(m) \/ Insert(m) \/ TakeId(m) \/ Track(m)

-----------------------------------------------------------------------------
(* The reading thread: handle_event *)

Answer(m, ok) ==
    /\ stage[m] \in {"store", "taking", "track", "returned"}
    /\ up /\ using[m] = runtime
    /\ said[m] = "nothing"
    /\ said' = [said EXCEPT ![m] = IF ok THEN "acked" ELSE "naked"]
    /\ queue' = Append(queue, <<m, ok>>)
    /\ UNCHANGED <<kind, mu, up, runtime, stage, using, dbVars, pending, reading,
                   syncing, configs, faults>>

ReaderIdle == reading.pc = "idle" /\ Reader \notin syncing

ReadAnswer ==
    /\ ReaderIdle /\ queue # <<>>
    /\ reading' = [pc |-> "answer", msg |-> Head(queue)[1], ok |-> Head(queue)[2]]
    /\ queue' = Tail(queue)
    /\ UNCHANGED <<kind, mu, up, runtime, stage, using, dbVars, pending, said,
                   syncing, configs, faults>>

AckState(ok) == IF ok THEN "acked" ELSE "naked"

\* update_ack_state
Updated(id, ok) ==
    [m \in Texts |-> IF m = id /\ row[m] # "none" THEN AckState(ok) ELSE row[m]]

\* Mutant: the entry stays.
HandleAnswerKeeping ==
    /\ reading.pc = "answer" /\ Unlocked
    /\ row' = IF <<runtime, reading.msg>> \in pending
              THEN Updated(rowid[reading.msg], reading.ok) ELSE row
    /\ reading' = [reading EXCEPT !.pc = "idle", !.msg = None]
    /\ UNCHANGED <<kind, mu, up, runtime, stage, using, rowid, crossed, pending,
                   queue, said, syncing, configs, faults>>

\* EvAckReceived: an answer nobody waits for is ignored.
HandleAnswer ==
    /\ reading.pc = "answer" /\ Unlocked
    /\ LET m == reading.msg
       IN  IF <<runtime, m>> \in pending
           THEN /\ row' = Updated(rowid[m], reading.ok)
                /\ pending' = pending \ {<<runtime, m>>}
           ELSE UNCHANGED <<row, pending>>
    /\ reading' = [reading EXCEPT !.pc = "idle", !.msg = None]
    /\ UNCHANGED <<kind, mu, up, runtime, stage, using, rowid, crossed, queue,
                   said, syncing, configs, faults>>

\* EvConfigComplete, under the lock; for a stream device it goes on, under the
\* lock, to initiate_sync and so to send_db_sync.
ConfigComplete ==
    /\ ReaderIdle /\ up /\ Unlocked
    /\ configs < MaxConfigs
    /\ configs' = configs + 1
    /\ IF IsStream
       THEN mu' = Reader /\ syncing' = syncing \cup {Reader}
       ELSE UNCHANGED <<mu, syncing>>
    /\ UNCHANGED <<kind, up, runtime, stage, using, dbVars, pending, queue, said,
                   reading, faults>>

ReadingThread == ReadAnswer \/ HandleAnswer

-----------------------------------------------------------------------------
(* The other ways to send_db_sync *)

\* set_config for a virtual device, which only streams have: the lock is held
\* across send_raw_to_device, which ends in send_db_sync.
SetConfig ==
    /\ IsStream /\ User \notin syncing /\ Unlocked
    /\ configs < MaxConfigs
    /\ configs' = configs + 1
    /\ mu' = User
    /\ syncing' = syncing \cup {User}
    /\ UNCHANGED <<kind, up, runtime, stage, using, dbVars, pending, queue, said,
                   reading, faults>>

\* A received message is pushed without the lock (EvTextReceived).
PushText ==
    /\ ReaderIdle /\ up
    /\ configs < MaxConfigs
    /\ configs' = configs + 1
    /\ syncing' = syncing \cup {Reader}
    /\ UNCHANGED <<kind, mu, up, runtime, stage, using, dbVars, pending, queue, said,
                   reading, faults>>

\* send_db_sync by thread t: it can lock only what nobody holds, t included.
SendDbSync(t) ==
    /\ t \in syncing /\ Unlocked
    /\ syncing' = syncing \ {t}
    /\ UNCHANGED <<kind, mu, up, runtime, stage, using, dbVars, pending, queue, said,
                   reading, configs, faults>>

-----------------------------------------------------------------------------
(* Faults *)

Lose ==
    /\ up /\ faults < MaxFaults
    /\ faults' = faults + 1
    /\ up' = FALSE
    /\ queue' = <<>>
    /\ UNCHANGED <<kind, mu, runtime, stage, using, dbVars, pending, said, reading,
                   syncing, configs>>

\* reconnect_device, which first waits for the reading thread to end.
Reconnect ==
    /\ ~ up /\ ReaderIdle
    /\ up' = TRUE
    /\ UNCHANGED <<kind, mu, runtime, stage, using, dbVars, pending, queue, said,
                   reading, syncing, configs, faults>>

\* disconnect_device and connect_device: a new runtime with no pending_acks.
Replace ==
    /\ ReaderIdle /\ Unlocked /\ faults < MaxFaults
    /\ faults' = faults + 1
    /\ runtime' = runtime + 1
    /\ up' = TRUE
    /\ queue' = <<>>
    /\ UNCHANGED <<kind, mu, stage, using, dbVars, pending, said, reading, syncing, configs>>

\* The program dies and is started again.
Restart ==
    /\ faults < MaxFaults
    /\ faults' = faults + 1
    /\ mu' = None
    /\ up' = TRUE
    /\ runtime' = runtime + 1
    /\ stage' = [m \in Texts |-> IF stage[m] \in {"idle", "returned"} THEN stage[m]
                               ELSE "failed"]
    /\ pending' = {}
    /\ queue' = <<>>
    /\ reading' = [pc |-> "idle", msg |-> None, ok |-> FALSE]
    /\ syncing' = {}
    /\ UNCHANGED <<kind, using, dbVars, said, configs>>

Next ==
    \/ \E m \in Texts : SendText(m) \/ \E ok \in BOOLEAN : Answer(m, ok)
    \/ InsertElsewhere
    \/ ReadingThread \/ ConfigComplete
    \/ SetConfig \/ PushText
    \/ \E t \in {Reader, User} : SendDbSync(t)
    \/ Lose \/ Reconnect \/ Replace \/ Restart

Spec == Init /\ [][Next]_vars

\* The threads keep running; nobody owes a message, an answer or a fault.
Fairness ==
    /\ \A m \in Texts : WF_vars(ToRadio(m) \/ Insert(m) \/ TakeId(m) \/ Track(m))
    /\ WF_vars(ReadingThread)
    /\ \A t \in {Reader, User} : WF_vars(SendDbSync(t))

FairSpec == Spec /\ Fairness

-----------------------------------------------------------------------------
(* Properties *)

TypeOK ==
    /\ kind \in Kinds
    /\ mu \in {None, Reader, User}
    /\ up \in BOOLEAN
    /\ runtime \in Nat
    /\ stage \in [Texts -> {"idle", "radio", "store", "taking", "track", "returned",
                          "failed"}]
    /\ using \in [Texts -> Nat]
    /\ row \in [Texts -> {"none", "pending", "acked", "naked"}]
    /\ rowid \in [Texts -> Texts \cup {None}] /\ crossed \subseteq Texts
    /\ pending \subseteq Nat \X Texts
    /\ queue \in Seq(Texts \X BOOLEAN)
    /\ said \in [Texts -> {"nothing", "acked", "naked"}]
    /\ reading \in [pc : {"idle", "answer"}, msg : Texts \cup {None}, ok : BOOLEAN]
    /\ reading.pc = "answer" => reading.msg # None
    /\ syncing \subseteq {Reader, User}
    /\ configs \in 0 .. MaxConfigs /\ faults \in 0 .. MaxFaults

\* A thread inside send_db_sync waits for devices_mu_, which it holds itself.
WaitsForItself == mu # None /\ mu \in syncing

\* Every call of send_text, every event handler and every sync returns, unless a
\* thread locks devices_mu_ twice: where initiate_sync or send_raw_to_device is
\* called with the lock held (a stream only).  Nothing else can stop them.
CallsReturnUnlessLockedTwice ==
    /\ \A m \in Texts : stage[m] = "radio" ~> (stage[m] \in {"returned", "failed"} \/ WaitsForItself)
    /\ reading.pc # "idle" ~> (reading.pc = "idle" \/ WaitsForItself)
    /\ \A t \in {Reader, User} : t \in syncing ~> (t \notin syncing \/ WaitsForItself)
    /\ [](WaitsForItself => IsStream)
=============================================================================
