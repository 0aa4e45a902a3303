---------------------------- MODULE BluezClient ----------------------------
(***************************************************************************)
(* A Bluetooth connection (src/src/ble/bluez_client.cpp).  Three threads   *)
(* of its own: InitThread connects and downloads the configuration,        *)
(* LoopThread hears the radio's notifications, DrainThread reads what they *)
(* announce.  Others call send_to_radio and stop.  proxy_mu_ is held for   *)
(* the length of a call to the radio; drain_mu_ guards the condition       *)
(* variable DrainThread waits for, and is held across steps only at        *)
(* "nodding": the predicate was false and the thread is about to block.    *)
(*                                                                         *)
(* The radio keeps a queue of packets; a read takes the first, and takes   *)
(* nothing when it fails.                                                  *)
(***************************************************************************)
EXTENDS Integers, FiniteSets, SequencesExt

CONSTANTS
    InitThread, LoopThread, DrainThread,
    Stopper,       \* the thread that calls stop
    Sender,        \* those that call send_to_radio
    NoOne,
    MaxErrors,     \* failed reads in a row a drain survives (3)
    MaxAttempts,   \* calls of Connect (3)
    MaxResidual,   \* reads after config_complete_id (50)
    MaxPolls,      \* bound: reads that wait for config_complete_id (30 s)
    MaxPackets,    \* bound: packets the radio queues
    MaxFaults      \* bound: times the radio falls silent or comes back

Own == {InitThread, LoopThread, DrainThread}

ASSUME BluezAssumption ==
    /\ InitThread \notin {LoopThread, DrainThread, Stopper, NoOne}
    /\ LoopThread \notin {DrainThread, Stopper, NoOne}
    /\ DrainThread \notin {Stopper, NoOne} /\ Stopper # NoOne
    /\ Sender \cap (Own \cup {Stopper, NoOne}) = {}
    /\ {MaxErrors, MaxPolls, MaxResidual, MaxPackets, MaxFaults} \subseteq Nat
    /\ MaxAttempts \in Nat \ {0}

VARIABLES
    running,     \* running_
    connected,   \* connected_
    objects,     \* conn_ and the proxies: "none", "bus", "all" (with proxies)
    proxyMu,     \* who holds proxy_mu_
    needsDrain,  \* needs_drain_
    woken,       \* DrainThread, blocked, has been notified
    at,          \* at[t]: where thread t is
    hand,        \* hand[t]: the packet t has read and not yet emitted; 0 is none
    tries,       \* tries[t]: attempts, reads or errors of t's present loop
    returned,    \* what start() returned: "not" yet, "id", or ""
    asked,       \* want_config_id has been written
    radio,       \* the radio's queue
    born,        \* packets it has queued: 1 .. born
    config,      \* the one with config_complete_id, or 0
    subscribed,  \* StartNotify has succeeded
    announced,   \* a notification is on its way
    reachable,   \* the radio answers
    out,         \* packets emitted
    tested,      \* packets the test read has taken
    faults

conVars == <<running, connected, objects>>
drainVars == <<needsDrain, woken>>
flowVars == <<returned, asked>>
radioVars == <<born, config, subscribed, announced, reachable, faults>>
packetVars == <<radio, hand, out, tested>>
vars == <<conVars, proxyMu, drainVars, at, packetVars, tries, flowVars, radioVars>>

Thread == Own \cup {Stopper} \cup Sender
Reader == {InitThread, DrainThread}

Init ==
    /\ running = FALSE /\ connected = FALSE /\ objects = "none"
    /\ proxyMu = NoOne
    /\ needsDrain = FALSE /\ woken = FALSE
    /\ at = [t \in Thread |-> "none"]
    /\ hand = [t \in Reader |-> 0] /\ tries = [t \in Reader |-> 0]
    /\ returned = "not" /\ asked = FALSE
    /\ radio = <<>> /\ born = 0 /\ config = 0
    /\ subscribed = FALSE /\ announced = FALSE /\ reachable = TRUE
    /\ out = <<>> /\ tested = {} /\ faults = 0

Goes(t, where) == at' = [at EXCEPT ![t] = where]
Begins(t, loop) == Goes(t, loop) /\ tries' = [tries EXCEPT ![t] = 0]
Again(t) == tries' = [tries EXCEPT ![t] = @ + 1] /\ UNCHANGED at
Joined(t) == at[t] \in {"none", "end"}

-----------------------------------------------------------------------------
(* start *)

\* Without a system bus start returns "", and running_ stays set.
Start ==
    /\ returned = "not"
    /\ running' = TRUE
    /\ \/ /\ objects' = "bus" /\ returned' = "id"
          /\ at' = [at EXCEPT ![InitThread] = "find", ![LoopThread] = "loop",
                              ![DrainThread] = "check"]
       \/ returned' = "" /\ UNCHANGED <<objects, at>>
    /\ UNCHANGED <<connected, proxyMu, drainVars, packetVars, tries, asked, radioVars>>

-----------------------------------------------------------------------------
(* run_connect_flow.  These calls do not take proxy_mu_.  The handshake    *)
(* follows also when the flow has failed: device_id_ is set by then.       *)

\* find_adapter and scan_for_device, which ends early when stop() is called.
Find ==
    /\ at[InitThread] = "find"
    /\ \/ running /\ reachable /\ Begins(InitThread, "connect")
       \/ Begins(InitThread, "test")
    /\ UNCHANGED <<conVars, proxyMu, drainVars, packetVars, flowVars, radioVars>>

\* An attempt of ensure_paired_and_connected; the last failure ends the flow.
Connect ==
    /\ at[InitThread] = "connect"
    /\ \/ reachable /\ Begins(InitThread, "subscribe")
       \/ ~ reachable /\ tries[InitThread] + 1 < MaxAttempts /\ Again(InitThread)
       \/ ~ reachable /\ tries[InitThread] + 1 = MaxAttempts /\ Begins(InitThread, "test")
    /\ UNCHANGED <<conVars, proxyMu, drainVars, packetVars, flowVars, radioVars>>

\* discover_gatt, which may end the flow, and subscribe_notifications, which may
\* not: when StartNotify fails connected_ is set all the same, and no
\* notification will come.
Subscribe ==
    /\ at[InitThread] = "subscribe"
    /\ \/ /\ reachable
          /\ objects' = "all" /\ subscribed' \in BOOLEAN
          /\ Begins(InitThread, "up")
       \/ Begins(InitThread, "test") /\ UNCHANGED <<objects, subscribed>>
    /\ UNCHANGED <<running, connected, proxyMu, drainVars, packetVars, flowVars,
                   born, config, announced, reachable, faults>>

Up ==
    /\ at[InitThread] = "up"
    /\ connected' = TRUE
    /\ Begins(InitThread, "test")
    /\ UNCHANGED <<running, objects, proxyMu, drainVars, packetVars, flowVars,
                   radioVars>>

-----------------------------------------------------------------------------
(* Calls to the radio, and emit *)

\* The reads a loop makes while running_ is set; the others it makes anyway.
GoesOn(t) ==
    CASE at[t] \in {"test", "ask"} -> TRUE
      [] at[t] = "poll"     -> running /\ tries[t] < MaxPolls
      [] at[t] = "residual" -> running /\ tries[t] < MaxResidual
      [] at[t] = "drain"    -> running
      [] OTHER              -> FALSE

\* Lock proxy_mu_ and call.
Calls(t) ==
    /\ proxyMu = NoOne /\ hand[t] = 0 /\ GoesOn(t)
    /\ proxyMu' = t
    /\ UNCHANGED <<conVars, drainVars, at, packetVars, tries, flowVars, radioVars>>

\* The loop of the handshake ends; the deadline may pass at any time.
LoopEnds ==
    /\ proxyMu # InitThread /\ hand[InitThread] = 0
    /\ \/ at[InitThread] = "poll"
       \/ at[InitThread] = "residual" /\ ~ GoesOn(InitThread)
    /\ Goes(InitThread, "end")
    /\ UNCHANGED <<conVars, proxyMu, drainVars, packetVars, tries, flowVars, radioVars>>

Answers == objects = "all" /\ reachable

\* read_char throws, or finds nothing, or takes the first packet.
Read(t) ==
    \/ ~ Answers /\ UNCHANGED <<radio, hand>>
    \/ Answers /\ radio = <<>> /\ UNCHANGED <<radio, hand>>
    \/ /\ Answers /\ radio # <<>>
       /\ radio' = Tail(radio) /\ hand' = [hand EXCEPT ![t] = Head(radio)]

\* The test read of initial_handshake: what it reads is dropped.
Test ==
    /\ at[InitThread] = "test" /\ proxyMu = InitThread
    /\ \/ Answers /\ radio # <<>> /\ tested' = tested \cup {Head(radio)} /\ radio' = Tail(radio)
       \/ ~ (Answers /\ radio # <<>>) /\ UNCHANGED <<tested, radio>>
    /\ Goes(InitThread, "ask")
    /\ proxyMu' = NoOne
    /\ UNCHANGED <<conVars, drainVars, hand, out, tries, flowVars, radioVars>>

\* want_config_id; a write that fails is only logged.
Ask ==
    /\ at[InitThread] = "ask" /\ proxyMu = InitThread
    /\ asked' = (asked \/ Answers)
    /\ Begins(InitThread, "poll")
    /\ proxyMu' = NoOne
    /\ UNCHANGED <<conVars, drainVars, packetVars, returned, radioVars>>

\* A read of the two loops of the handshake, which outlive errors.
Poll ==
    /\ at[InitThread] \in {"poll", "residual"} /\ proxyMu = InitThread
    /\ Read(InitThread) /\ Again(InitThread)
    /\ proxyMu' = NoOne
    /\ UNCHANGED <<conVars, drainVars, out, tested, flowVars, radioVars>>

\* Mutant: what was read when stop is called is dropped.
EmitRunning(t) ==
    /\ hand[t] # 0 /\ proxyMu # t
    /\ out' = IF running THEN Append(out, hand[t]) ELSE out
    /\ hand' = [hand EXCEPT ![t] = 0]
    /\ IF t = InitThread /\ at[t] = "poll" /\ hand[t] = config
       THEN Begins(t, "residual") ELSE UNCHANGED <<at, tries>>
    /\ UNCHANGED <<conVars, proxyMu, drainVars, radio, tested, flowVars, radioVars>>

\* emit_raw and emit, without proxy_mu_.  config_complete_id ends the polls.
Emit(t) ==
    /\ hand[t] # 0 /\ proxyMu # t
    /\ out' = Append(out, hand[t])
    /\ hand' = [hand EXCEPT ![t] = 0]
    /\ IF t = InitThread /\ at[t] = "poll" /\ hand[t] = config
       THEN Begins(t, "residual") ELSE UNCHANGED <<at, tries>>
    /\ UNCHANGED <<conVars, proxyMu, drainVars, radio, tested, flowVars, radioVars>>

-----------------------------------------------------------------------------
(* The drain thread *)

\* Past the wait: give up if running_ is cleared, drain if connected_ is set.
Proceeds ==
    IF ~ running THEN Goes(DrainThread, "end") /\ UNCHANGED <<needsDrain, tries>>
    ELSE /\ needsDrain' = FALSE
         /\ IF connected THEN Begins(DrainThread, "drain")
                         ELSE Goes(DrainThread, "check") /\ UNCHANGED tries

\* Top of the loop, and the first look at the predicate of the wait.
Look ==
    /\ at[DrainThread] = "check"
    /\ \/ (needsDrain \/ ~ running) /\ Proceeds
       \/ ~ needsDrain /\ running /\ Goes(DrainThread, "nodding") /\ UNCHANGED <<needsDrain, tries>>
    /\ UNCHANGED <<conVars, proxyMu, woken, packetVars, flowVars, radioVars>>

\* Block, and release drain_mu_: only from here on a notify is heard.
Block ==
    /\ at[DrainThread] = "nodding"
    /\ Goes(DrainThread, "blocked")
    /\ woken' = FALSE
    /\ UNCHANGED <<conVars, proxyMu, needsDrain, packetVars, tries, flowVars, radioVars>>

\* Mutant: no timeout.
WakeNotified ==
    /\ at[DrainThread] = "blocked" /\ woken
    /\ \/ (needsDrain \/ ~ running) /\ Proceeds
       \/ ~ needsDrain /\ running /\ Goes(DrainThread, "nodding") /\ UNCHANGED <<needsDrain, tries>>
    /\ UNCHANGED <<conVars, proxyMu, woken, packetVars, flowVars, radioVars>>

\* Notified, look again.  After five seconds proceed whatever the predicate says.
Wake ==
    /\ at[DrainThread] = "blocked"
    /\ \/ woken /\ ~ needsDrain /\ running
          /\ Goes(DrainThread, "nodding") /\ UNCHANGED <<needsDrain, tries>>
       \/ Proceeds
    /\ UNCHANGED <<conVars, proxyMu, woken, packetVars, flowVars, radioVars>>

TooMany(n) == n > MaxErrors

\* A read of drain_from_radio: on with the next, until the queue is empty or
\* too many reads in a row have failed.
DrainRead ==
    /\ at[DrainThread] = "drain" /\ proxyMu = DrainThread
    /\ proxyMu' = NoOne
    /\ Read(DrainThread)
    /\ IF hand'[DrainThread] # 0 THEN Begins(DrainThread, "drain")
       ELSE IF ~ Answers /\ ~ TooMany(tries[DrainThread] + 1) THEN Again(DrainThread)
       ELSE Begins(DrainThread, "check")
    /\ UNCHANGED <<conVars, drainVars, out, tested, flowVars, radioVars>>

DrainStopped ==
    /\ at[DrainThread] = "drain" /\ hand[DrainThread] = 0 /\ proxyMu # DrainThread
    /\ ~ running
    /\ Goes(DrainThread, "check")
    /\ UNCHANGED <<conVars, proxyMu, drainVars, packetVars, tries, flowVars, radioVars>>

-----------------------------------------------------------------------------
(* The event loop, send_to_radio and stop *)

\* FROMNUM: set needs_drain_ under drain_mu_, then notify.
Notified ==
    /\ at[LoopThread] = "loop" /\ running
    /\ announced /\ at[DrainThread] # "nodding"
    /\ announced' = FALSE
    /\ needsDrain' = TRUE
    /\ woken' = (at[DrainThread] = "blocked")
    /\ UNCHANGED <<conVars, proxyMu, at, packetVars, tries, flowVars, born, config,
                   subscribed, reachable, faults>>

LoopLeaves ==
    /\ at[LoopThread] = "loop" /\ ~ running
    /\ Goes(LoopThread, "end")
    /\ UNCHANGED <<conVars, proxyMu, drainVars, packetVars, tries, flowVars, radioVars>>

SendBegins(s) ==
    /\ at[s] = "none" /\ returned = "id"
    /\ Goes(s, "send")
    /\ UNCHANGED <<conVars, proxyMu, drainVars, packetVars, tries, flowVars, radioVars>>

\* Lock proxy_mu_, and return false at once unless connected.
SendLocks(s) ==
    /\ at[s] = "send" /\ proxyMu = NoOne
    /\ \/ connected /\ objects = "all" /\ proxyMu' = s /\ Goes(s, "writing")
       \/ ~ (connected /\ objects = "all") /\ Goes(s, "none") /\ UNCHANGED proxyMu
    /\ UNCHANGED <<conVars, drainVars, packetVars, tries, flowVars, radioVars>>

\* Written, or refused: the error is emitted with proxy_mu_ held.
SendReturns(s) ==
    /\ at[s] = "writing"
    /\ proxyMu' = NoOne
    /\ Goes(s, "none")
    /\ UNCHANGED <<conVars, drainVars, packetVars, tries, flowVars, radioVars>>

\* Mutant: proxy_mu_ is taken first, and held for the whole call.
StopHolding ==
    /\ at[Stopper] = "none" /\ returned # "not" /\ proxyMu = NoOne
    /\ proxyMu' = Stopper
    /\ running' = FALSE
    /\ Goes(Stopper, "joinInit")
    /\ UNCHANGED <<connected, objects, drainVars, packetVars, tries, flowVars, radioVars>>

Stop ==
    /\ at[Stopper] = "none" /\ returned # "not"
    /\ running' = FALSE
    /\ Goes(Stopper, "joinInit")
    /\ UNCHANGED <<connected, objects, proxyMu, drainVars, packetVars, tries, flowVars,
                   radioVars>>

\* Join the three, and notify the last without drain_mu_: it may be nodding.
Join ==
    /\ \/ /\ at[Stopper] = "joinInit" /\ Joined(InitThread)
          /\ Goes(Stopper, "joinLoop") /\ UNCHANGED woken
       \/ /\ at[Stopper] = "joinLoop" /\ Joined(LoopThread)
          /\ Goes(Stopper, "joinDrain") /\ woken' = (at[DrainThread] = "blocked")
       \/ /\ at[Stopper] = "joinDrain" /\ Joined(DrainThread)
          /\ Goes(Stopper, "reset") /\ UNCHANGED woken
    /\ UNCHANGED <<conVars, proxyMu, needsDrain, packetVars, tries, flowVars, radioVars>>

\* Mutant: without proxy_mu_.
ResetUnlocked ==
    /\ at[Stopper] = "reset"
    /\ objects' = "none" /\ connected' = FALSE
    /\ Goes(Stopper, "end")
    /\ UNCHANGED <<running, proxyMu, drainVars, packetVars, tries, flowVars, radioVars>>

\* Under proxy_mu_; connected_ is cleared after, which no caller can tell.
Reset ==
    /\ at[Stopper] = "reset" /\ proxyMu = NoOne
    /\ objects' = "none" /\ connected' = FALSE
    /\ Goes(Stopper, "end")
    /\ UNCHANGED <<running, proxyMu, drainVars, packetVars, tries, flowVars, radioVars>>

-----------------------------------------------------------------------------
(* The radio *)

\* A packet is queued, and announced to a subscriber, unless that gets lost.
Queues ==
    /\ born < MaxPackets
    /\ born' = born + 1
    /\ radio' = Append(radio, born + 1)
    /\ config' \in {config} \cup IF asked /\ config = 0 THEN {born + 1} ELSE {}
    /\ announced' \in {announced} \cup IF Answers /\ subscribed THEN {TRUE} ELSE {}
    /\ UNCHANGED <<conVars, proxyMu, drainVars, at, hand, out, tested, tries, flowVars,
                   subscribed, reachable, faults>>

Turns ==
    /\ faults < MaxFaults /\ faults' = faults + 1
    /\ reachable' = ~ reachable
    /\ UNCHANGED <<conVars, proxyMu, drainVars, at, packetVars, tries, flowVars,
                   born, config, subscribed, announced>>

-----------------------------------------------------------------------------
InitSteps ==
    \/ Find \/ Connect \/ Subscribe \/ Up \/ LoopEnds
    \/ Test \/ Ask \/ Poll \/ Emit(InitThread)
DrainSteps == Look \/ Block \/ Wake \/ DrainRead \/ DrainStopped \/ Emit(DrainThread)
LoopSteps == Notified \/ LoopLeaves
SendSteps(s) == SendLocks(s) \/ SendReturns(s)
StopSteps == Join \/ Reset

Next ==
    \/ Start \/ Stop \/ InitSteps \/ DrainSteps \/ LoopSteps \/ StopSteps
    \/ \E t \in Reader : Calls(t)
    \/ \E s \in Sender : SendBegins(s) \/ SendSteps(s)
    \/ Queues \/ Turns

Spec == Init /\ [][Next]_vars

\* Threads take their steps and calls to the radio return, by answer or D-Bus
\* timeout.  Every holder of proxy_mu_ sleeps or stops between its calls, so
\* whoever waits for it gets it.
FairSpec ==
    /\ Spec
    /\ WF_vars(InitSteps) /\ WF_vars(DrainSteps) /\ WF_vars(LoopSteps)
    /\ WF_vars(Join) /\ SF_vars(Reset)
    /\ \A t \in Reader : SF_vars(Calls(t))
    /\ \A s \in Sender : SF_vars(SendLocks(s)) /\ WF_vars(SendReturns(s))

-----------------------------------------------------------------------------
(* Properties *)

Place == {"none", "find", "connect", "subscribe", "up", "test", "ask", "poll",
          "residual", "end", "check", "nodding", "blocked", "drain", "loop",
          "send", "writing", "joinInit", "joinLoop", "joinDrain", "reset"}

\* Who is where, and what is set.
Control ==
    /\ running \in BOOLEAN /\ connected \in BOOLEAN /\ needsDrain \in BOOLEAN
    /\ woken \in BOOLEAN /\ asked \in BOOLEAN /\ announced \in BOOLEAN
    /\ reachable \in BOOLEAN /\ subscribed \in BOOLEAN
    /\ objects \in {"none", "bus", "all"} /\ returned \in {"not", "id", ""}
    /\ proxyMu \in Thread \cup {NoOne}
    /\ at \in [Thread -> Place]

\* Where the packets are, and what is counted.  A drain makes at most MaxErrors
\* failed reads and one.
Counts ==
    /\ born \in 0 .. MaxPackets /\ config \in 0 .. born /\ faults \in 0 .. MaxFaults
    /\ hand \in [Reader -> 0 .. born]
    /\ tries \in [Reader -> Nat] /\ tries[DrainThread] <= MaxErrors
    /\ radio \in Seq(1 .. born) /\ out \in Seq(1 .. born) /\ tested \subseteq 1 .. born

\* The type invariant.
TypeOK == Control /\ Counts

\* How often packet p is anywhere: at the radio, read and not yet emitted,
\* emitted, or dropped by the test read.
Copies(seq, p) == {i \in DOMAIN seq : seq[i] = p}
HowOften(p) ==
    Cardinality(Copies(radio, p)) + Cardinality({t \in Reader : hand[t] = p})
    + Cardinality(Copies(out, p)) + Cardinality(tested \cap {p})

\* A packet read from the radio is emitted, once, whichever of the two readers
\* took it and whenever stop is called.  Only the test read of
\* initial_handshake drops one.
NothingLost ==
    /\ Cardinality(tested) <= 1
    /\ \A p \in 1 .. born : HowOften(p) = 1

\* In well-typed states nobody uses the D-Bus objects while stop destroys them,
\* or after: who holds proxy_mu_ for a call has them, and once stop has returned
\* no thread of the connection is left.
ObjectsOutliveCalls ==
    /\ TypeOK
    /\ proxyMu # NoOne => objects # "none"
    /\ proxyMu \in Sender => objects = "all"
    /\ at[Stopper] \in {"reset", "end"} => \A t \in Own : Joined(t)

\* A packet that waits at the radio is read, although StartNotify may have failed,
\* and a notification be lost, come before connected_ is set, or while the thread
\* is about to block.
WaitingIsRead ==
    \A p \in 1 .. MaxPackets :
        p \in ToSet(radio) ~> \/ p \notin ToSet(radio)
                              \/ ~ (running /\ connected /\ reachable)

\* stop returns, although its notify may be lost, and so does send_to_radio.
StopAndSendReturn ==
    /\ at[Stopper] = "joinInit" ~> at[Stopper] = "end"
    /\ \A s \in Sender : at[s] = "send" ~> at[s] = "none"

=============================================================================
