---------------------------- MODULE BluezProofs ----------------------------
(***************************************************************************)
(* Theorems of BluezClient, for every set of sending threads and all       *)
(* bounds.                                                                 *)
(***************************************************************************)
EXTENDS BluezClient, FiniteSetTheorems, FunctionTheorems, SequenceTheorems, TLAPS

\* The places of each kind of thread.
InitPlaces == {"none", "find", "connect", "subscribe", "up", "test", "ask", "poll",
               "residual", "end"}
DrainPlaces == {"none", "check", "nodding", "blocked", "drain", "end"}
StopPlaces == {"none", "joinInit", "joinLoop", "joinDrain", "reset", "end"}

Places ==
    /\ at[InitThread] \in InitPlaces
    /\ at[LoopThread] \in {"none", "loop", "end"}
    /\ at[DrainThread] \in DrainPlaces
    /\ at[Stopper] \in StopPlaces
    /\ \A s \in Sender : at[s] \in {"none", "send", "writing"}

\* Threads run once start has returned an id, and those of the connection have
\* ended before stop destroys the objects they use.
Lifetimes ==
    /\ returned # "id" => objects = "none" /\ \A t \in Own : at[t] = "none"
    /\ returned = "not" => at[Stopper] = "none"
    /\ returned = "id" /\ at[Stopper] # "end" => objects # "none"
    /\ at[Stopper] \in {"joinLoop", "joinDrain", "reset", "end"} => Joined(InitThread)
    /\ at[Stopper] \in {"joinDrain", "reset", "end"} => Joined(LoopThread)
    /\ at[Stopper] \in {"reset", "end"} => Joined(DrainThread)

\* Who holds proxy_mu_ is in a call, with nothing in hand if that is a read;
\* what has been read is emitted before the reader goes on.
InCall ==
    /\ proxyMu # NoOne => objects # "none"
    /\ proxyMu \in Sender => objects = "all"
    /\ proxyMu \notin {Stopper, LoopThread}
    /\ proxyMu \in Reader => hand[proxyMu] = 0
    /\ proxyMu = InitThread => at[InitThread] \in {"test", "ask", "poll", "residual"}
    /\ proxyMu = DrainThread => at[DrainThread] = "drain"
    /\ hand[InitThread] # 0 => at[InitThread] \in {"poll", "residual"}
    /\ hand[DrainThread] # 0 => at[DrainThread] = "drain"

-----------------------------------------------------------------------------
LEMMA Threads ==
    /\ Own \subseteq Thread /\ Reader \subseteq Own /\ Sender \subseteq Thread /\ Stopper \in Thread
    /\ InitThread \in Reader /\ DrainThread \in Reader /\ LoopThread \in Thread
    /\ NoOne \notin Thread /\ Stopper \notin Own /\ Sender \cap (Own \cup {Stopper}) = {}
    /\ InitThread # LoopThread /\ InitThread # DrainThread /\ LoopThread # DrainThread
    /\ InitThread # Stopper /\ LoopThread # Stopper /\ DrainThread # Stopper
  BY BluezAssumption DEF BluezAssumption, Own, Thread, Reader

LEMMA InitTypes == Init => Control /\ Counts
<1> SUFFICES ASSUME Init PROVE Control /\ Counts
  OBVIOUS
<1>1. Control
  <2>1. /\ running \in BOOLEAN /\ connected \in BOOLEAN /\ needsDrain \in BOOLEAN
        /\ woken \in BOOLEAN /\ asked \in BOOLEAN /\ announced \in BOOLEAN
        /\ reachable \in BOOLEAN /\ subscribed \in BOOLEAN
    BY Zenon DEF Init
  <2> QED
    BY <2>1 DEF Init, Control, Place
<1>2. Counts
  BY Threads, BluezAssumption DEF Init, Counts, BluezAssumption
<1> QED
  BY <1>1, <1>2

\* A thread goes to another place, and begins a loop there or goes on with it.
LEMMA GoesTypes ==
    ASSUME Control, NEW t \in Thread, NEW where \in Place, Goes(t, where)
    PROVE  at' \in [Thread -> Place]
  BY DEF Goes, Control

LEMMA BeginsTypes ==
    ASSUME Counts, NEW t \in Reader, NEW where, Begins(t, where)
    PROVE  tries' \in [Reader -> Nat] /\ tries'[DrainThread] <= MaxErrors
  BY Threads, BluezAssumption DEF Begins, Counts, BluezAssumption

LEMMA AgainTypes ==
    ASSUME Counts, Again(InitThread)
    PROVE  tries' \in [Reader -> Nat] /\ tries'[DrainThread] <= MaxErrors
  BY Threads DEF Again, Counts

\* What a read takes is a packet of the radio.
LEMMA ReadTypes ==
    ASSUME Counts, NEW t \in Reader, Read(t)
    PROVE  radio' \in Seq(1 .. born) /\ hand' \in [Reader -> 0 .. born]
<1>1. CASE UNCHANGED <<radio, hand>>
  BY <1>1 DEF Counts
<1>2. CASE radio # <<>> /\ radio' = Tail(radio) /\ hand' = [hand EXCEPT ![t] = Head(radio)]
  <2>1. Head(radio) \in 1 .. born /\ Tail(radio) \in Seq(1 .. born)
    BY <1>2, HeadTailProperties DEF Counts
  <2>2. Head(radio) \in 0 .. born
    BY <2>1 DEF Counts
  <2> QED
    BY <1>2, <2>1, <2>2 DEF Counts
<1> QED
  BY <1>1, <1>2 DEF Read

\* Every step keeps the types: one step of the proof per action, but for those
\* that change nothing of what it is about.
LEMMA StepControl == Control /\ [Next]_vars => Control'
<1> SUFFICES ASSUME Control, [Next]_vars PROVE Control'
  OBVIOUS
<1> USE Threads
<1> USE DEF conVars, drainVars, flowVars, radioVars, packetVars, Begins, Again
<1>0. ASSUME UNCHANGED at \/ \E u \in Thread, where \in Place : Goes(u, where)
      PROVE  at' \in [Thread -> Place]
  BY <1>0, GoesTypes DEF Control
<1>1. CASE Start
  <2>1. UNCHANGED at \/ at' = [at EXCEPT ![InitThread] = "find", ![LoopThread] = "loop",
                                         ![DrainThread] = "check"]
    BY <1>1, Zenon DEF Start
  <2>2. at' \in [Thread -> Place]
    BY <2>1 DEF Control, Place
  <2>3. objects' \in {objects, "bus"} /\ returned' \in {"id", ""} /\ running' = TRUE
    BY <1>1 DEF Start
  <2>4. UNCHANGED <<connected, proxyMu, needsDrain, woken, asked, subscribed, announced,
                 reachable>>
    BY <1>1, Zenon DEF Start
  <2> QED
    BY <2>2, <2>3, <2>4 DEF Control
<1>2. CASE Find
  <2>1. at' \in [Thread -> Place]
    <3>1. UNCHANGED at \/ \E u \in Thread, where \in Place : Goes(u, where)
      BY <1>2, Zenon DEF Find, Place, Reader
    <3> QED
      BY <1>0, <3>1
  <2>2. UNCHANGED <<running, connected, objects, proxyMu, needsDrain, woken, returned, asked,
                 subscribed, announced, reachable>>
    BY <1>2, Zenon DEF Find
  <2> QED
    BY <2>1, <2>2 DEF Control
<1>3. CASE Connect
  <2>1. at' \in [Thread -> Place]
    <3>1. UNCHANGED at \/ \E u \in Thread, where \in Place : Goes(u, where)
      BY <1>3, Zenon DEF Connect, Place, Reader
    <3> QED
      BY <1>0, <3>1
  <2>2. UNCHANGED <<running, connected, objects, proxyMu, needsDrain, woken, returned, asked,
                 subscribed, announced, reachable>>
    BY <1>3, Zenon DEF Connect
  <2> QED
    BY <2>1, <2>2 DEF Control
<1>4. CASE Subscribe
  <2>1. at' \in [Thread -> Place]
    <3>1. UNCHANGED at \/ \E u \in Thread, where \in Place : Goes(u, where)
      BY <1>4, Zenon DEF Subscribe, Place, Reader
    <3> QED
      BY <1>0, <3>1
  <2>2. objects' \in {"none", "bus", "all"}
    BY <1>4 DEF Subscribe, Control
  <2> QED
    <3>1. UNCHANGED <<running, connected, proxyMu, needsDrain, woken, returned, asked,
                   announced, reachable>>
      BY <1>4, Zenon DEF Subscribe
    <3>2. subscribed' \in BOOLEAN
      BY <1>4, Zenon DEF Subscribe, Control
    <3> QED
      BY <2>1, <2>2, <3>1, <3>2 DEF Control
<1>5. CASE Up
  <2>1. at' \in [Thread -> Place]
    <3>1. UNCHANGED at \/ \E u \in Thread, where \in Place : Goes(u, where)
      BY <1>5, Zenon DEF Up, Place, Reader
    <3> QED
      BY <1>0, <3>1
  <2> QED
    BY <1>5, <2>1 DEF Control, Up
<1>6. ASSUME NEW t \in Reader, Calls(t) PROVE Control'
  BY <1>6, Zenon DEF Control, Calls, Own, Thread
<1>7. CASE LoopEnds
  <2>1. at' \in [Thread -> Place]
    <3>1. UNCHANGED at \/ \E u \in Thread, where \in Place : Goes(u, where)
      BY <1>7, Zenon DEF LoopEnds, Place, Reader
    <3> QED
      BY <1>0, <3>1
  <2>2. UNCHANGED <<running, connected, objects, proxyMu, needsDrain, woken, returned, asked,
                 subscribed, announced, reachable>>
    BY <1>7, Zenon DEF LoopEnds
  <2> QED
    BY <2>1, <2>2 DEF Control
<1>8. CASE Test
  <2>1. at' \in [Thread -> Place]
    <3>1. UNCHANGED at \/ \E u \in Thread, where \in Place : Goes(u, where)
      BY <1>8, Zenon DEF Test, Place, Reader
    <3> QED
      BY <1>0, <3>1
  <2> QED
    BY <1>8, <2>1, Zenon DEF Control, Test
<1>9. CASE Ask
  <2>1. at' \in [Thread -> Place]
    <3>1. UNCHANGED at \/ \E u \in Thread, where \in Place : Goes(u, where)
      BY <1>9, Zenon DEF Ask, Place, Reader
    <3> QED
      BY <1>0, <3>1
  <2> QED
    BY <1>9, <2>1 DEF Control, Ask
<1>10. CASE Poll
  <2>1. UNCHANGED <<running, connected, objects, needsDrain, woken, at, returned, asked,
                 subscribed, announced, reachable>> /\ proxyMu' = NoOne
    BY <1>10, Zenon DEF Poll
  <2> QED
    BY <2>1 DEF Control
<1>11. ASSUME NEW t \in Reader, Emit(t) PROVE Control'
  <2>1. at' \in [Thread -> Place]
    <3>1. UNCHANGED at \/ \E u \in Thread, where \in Place : Goes(u, where)
      BY <1>11, Zenon DEF Emit, Place, Reader
    <3> QED
      BY <1>0, <3>1
  <2>2. UNCHANGED <<running, connected, objects, proxyMu, needsDrain, woken, returned, asked,
                 subscribed, announced, reachable>>
    BY <1>11, Zenon DEF Emit
  <2> QED
    BY <2>1, <2>2 DEF Control
<1>12. CASE Look
  <2>1. at' \in [Thread -> Place]
    <3>1. UNCHANGED at \/ \E u \in Thread, where \in Place : Goes(u, where)
      BY <1>12, Zenon DEF Look, Proceeds, Place, Reader
    <3> QED
      BY <1>0, <3>1
  <2>2. needsDrain' \in BOOLEAN
    BY <1>12, Zenon DEF Look, Proceeds, Control
  <2> QED
    BY <1>12, <2>1, <2>2 DEF Control, Look
<1>13. CASE Block
  <2>1. at' \in [Thread -> Place]
    <3>1. UNCHANGED at \/ \E u \in Thread, where \in Place : Goes(u, where)
      BY <1>13, Zenon DEF Block, Place, Reader
    <3> QED
      BY <1>0, <3>1
  <2> QED
    BY <1>13, <2>1 DEF Control, Block
<1>14. CASE Wake
  <2>1. at' \in [Thread -> Place]
    <3>1. UNCHANGED at \/ \E u \in Thread, where \in Place : Goes(u, where)
      BY <1>14, Zenon DEF Wake, Proceeds, Place, Reader
    <3> QED
      BY <1>0, <3>1
  <2>2. needsDrain' \in BOOLEAN
    BY <1>14, Zenon DEF Wake, Proceeds, Control
  <2> QED
    BY <1>14, <2>1, <2>2 DEF Control, Wake
<1>15. CASE DrainRead
  <2>1. at' \in [Thread -> Place]
    <3>1. UNCHANGED at \/ \E u \in Thread, where \in Place : Goes(u, where)
      BY <1>15, Zenon DEF DrainRead, Place, Reader
    <3> QED
      BY <1>0, <3>1
  <2> QED
    BY <1>15, <2>1 DEF Control, DrainRead
<1>16. CASE DrainStopped
  <2>1. at' \in [Thread -> Place]
    <3>1. UNCHANGED at \/ \E u \in Thread, where \in Place : Goes(u, where)
      BY <1>16, Zenon DEF DrainStopped, Place, Reader
    <3> QED
      BY <1>0, <3>1
  <2> QED
    BY <1>16, <2>1 DEF Control, DrainStopped
<1>17. CASE Notified
  BY <1>17 DEF Control, Notified
<1>18. CASE LoopLeaves
  <2>1. at' \in [Thread -> Place]
    <3>1. UNCHANGED at \/ \E u \in Thread, where \in Place : Goes(u, where)
      BY <1>18, Zenon DEF LoopLeaves, Place, Reader
    <3> QED
      BY <1>0, <3>1
  <2> QED
    BY <1>18, <2>1 DEF Control, LoopLeaves
<1>19. ASSUME NEW s \in Sender, SendBegins(s) \/ SendLocks(s) \/ SendReturns(s) PROVE Control'
  <2>1. at' \in [Thread -> Place]
    <3>1. UNCHANGED at \/ \E u \in Thread, where \in Place : Goes(u, where)
      BY <1>19, Zenon DEF SendBegins, SendLocks, SendReturns, Place
    <3> QED
      BY <1>0, <3>1
  <2>2. proxyMu' \in Thread \cup {NoOne}
    <3>1. proxyMu' \in {proxyMu, s, NoOne}
      BY <1>19 DEF SendBegins, SendLocks, SendReturns
    <3> QED
      BY <3>1 DEF Control
  <2>3. UNCHANGED <<conVars, drainVars, flowVars, radioVars>>
    BY <1>19, Zenon DEF SendBegins, SendLocks, SendReturns
  <2> QED
    BY <2>1, <2>2, <2>3 DEF Control
<1>20. CASE Stop
  <2>1. at' \in [Thread -> Place]
    <3>1. UNCHANGED at \/ \E u \in Thread, where \in Place : Goes(u, where)
      BY <1>20, Zenon DEF Stop, Place, Reader
    <3> QED
      BY <1>0, <3>1
  <2> QED
    BY <1>20, <2>1 DEF Control, Stop
<1>21. CASE Join
  <2>1. at' \in [Thread -> Place]
    <3>1. UNCHANGED at \/ \E u \in Thread, where \in Place : Goes(u, where)
      BY <1>21, Zenon DEF Join, Place
    <3> QED
      BY <1>0, <3>1
  <2>2. woken' \in BOOLEAN
    BY <1>21 DEF Join, Control
  <2> QED
    BY <1>21, <2>1, <2>2 DEF Control, Join
<1>22. CASE Reset
  <2>1. at' \in [Thread -> Place]
    <3>1. UNCHANGED at \/ \E u \in Thread, where \in Place : Goes(u, where)
      BY <1>22, Zenon DEF Reset, Place, Reader
    <3> QED
      BY <1>0, <3>1
  <2> QED
    BY <1>22, <2>1 DEF Control, Reset
<1>23. CASE Queues
  <2>1. announced' \in BOOLEAN
    BY <1>23, Zenon DEF Queues, Control
  <2>2. UNCHANGED <<conVars, proxyMu, drainVars, at, flowVars, subscribed, reachable>>
    BY <1>23, Zenon DEF Queues
  <2> QED
    BY <2>1, <2>2 DEF Control
<1>24. CASE Turns
  BY <1>24, Zenon DEF Control, Turns
<1>25. CASE UNCHANGED vars
  <2>1. UNCHANGED <<running, connected, objects, proxyMu, needsDrain, woken, returned, asked,
                 subscribed, announced, reachable>> /\ UNCHANGED at
    BY <1>25, Zenon DEF vars
  <2> QED
    BY <2>1 DEF Control
<1> QED
  BY <1>1, <1>2, <1>3, <1>4, <1>5, <1>6, <1>7, <1>8, <1>9, <1>10, <1>11, <1>12,
     <1>13, <1>14, <1>15, <1>16, <1>17, <1>18, <1>19, <1>20, <1>21, <1>22, <1>23,
     <1>24, <1>25
     DEF Next, InitSteps, DrainSteps, LoopSteps, SendSteps, StopSteps, Reader

LEMMA StepCounts == Counts /\ [Next]_vars => Counts'
<1> SUFFICES ASSUME Counts, [Next]_vars PROVE Counts'
  OBVIOUS
<1> USE Threads
<1> USE DEF conVars, drainVars, flowVars, radioVars, packetVars
<1>1. CASE UNCHANGED <<born, config, faults, hand, tries, radio, out, tested>>
  BY <1>1 DEF Counts
<1>2. ASSUME NEW t \in Reader, NEW where, Begins(t, where),
             UNCHANGED <<born, config, faults, hand, radio, out, tested>>
      PROVE  Counts'
  BY <1>2, BeginsTypes DEF Counts
<1>3. CASE Connect
  <2>1. CASE Again(InitThread)
    BY <1>3, <2>1, AgainTypes DEF Counts, Connect
  <2> QED
    BY <1>2, <1>3, <2>1 DEF Connect
<1>4. CASE Test
  <2>1. tested' \subseteq 1 .. born /\ radio' \in Seq(1 .. born)
    <3>1. CASE radio # <<>> /\ tested' = tested \cup {Head(radio)} /\ radio' = Tail(radio)
      <4>1. Head(radio) \in 1 .. born /\ Tail(radio) \in Seq(1 .. born)
        BY <3>1, HeadTailProperties DEF Counts
      <4> QED
        BY <3>1, <4>1 DEF Counts
    <3> QED
      BY <1>4, <3>1 DEF Test, Counts
  <2> QED
    BY <1>4, <2>1 DEF Test, Counts
<1>5. CASE Poll
  BY <1>5, AgainTypes, ReadTypes DEF Poll, Counts
<1>6. ASSUME NEW t \in Reader, Emit(t) PROVE Counts'
  <2>1. /\ hand[t] # 0
        /\ out' = Append(out, hand[t]) /\ hand' = [hand EXCEPT ![t] = 0]
        /\ UNCHANGED tries \/ \E where : Begins(t, where)
        /\ UNCHANGED <<born, config, faults, radio, tested>>
    BY <1>6 DEF Emit
  <2>2. hand[t] \in 1 .. born /\ hand' \in [Reader -> 0 .. born]
    BY <2>1 DEF Counts
  <2>3. out' \in Seq(1 .. born)
    BY <2>1, <2>2, AppendProperties DEF Counts
  <2> QED
    BY <2>1, <2>2, <2>3, BeginsTypes DEF Counts
<1>7. CASE DrainRead
  <2>1. UNCHANGED <<born, config, faults, out, tested>> /\ Read(DrainThread)
    BY <1>7 DEF DrainRead
  <2>2. tries' \in [Reader -> Nat] /\ tries'[DrainThread] <= MaxErrors
    <3>1. CASE Again(DrainThread) /\ ~ TooMany(tries[DrainThread] + 1)
      <4>1. MaxErrors \in Nat /\ tries \in [Reader -> Nat] /\ DrainThread \in Reader
        BY BluezAssumption, Threads DEF BluezAssumption, Counts
      <4>2. tries' = [tries EXCEPT ![DrainThread] = tries[DrainThread] + 1]
        BY <3>1 DEF Again
      <4>3. tries[DrainThread] + 1 <= MaxErrors
        BY <3>1, <4>1 DEF TooMany
      <4> QED
        BY <4>1, <4>2, <4>3
    <3> QED
      BY <1>7, <3>1, BeginsTypes DEF DrainRead
  <2> QED
    BY <2>1, <2>2, ReadTypes DEF Counts
<1>8. CASE Queues
  <2>1. born \in Nat /\ born + 1 \in 0 .. MaxPackets /\ born' = born + 1
    BY <1>8, BluezAssumption DEF Queues, Counts, BluezAssumption
  <2>2. \A n \in 0 .. born : n \in 0 .. born'
    BY <2>1
  <2>3. \A n \in 1 .. born : n \in 1 .. born'
    BY <2>1
  <2>4. config' \in 0 .. born'
    BY <1>8, <2>1 DEF Queues, Counts
  <2>5. hand' \in [Reader -> 0 .. born'] /\ tested' \subseteq 1 .. born'
    BY <1>8, <2>2, <2>3 DEF Queues, Counts
  <2>6. radio \in Seq(1 .. born') /\ out' \in Seq(1 .. born')
    BY <1>8, <2>3 DEF Queues, Counts
  <2>7. radio' \in Seq(1 .. born')
    BY <1>8, <2>1, <2>6, AppendProperties DEF Queues
  <2> QED
    BY <1>8, <2>1, <2>4, <2>5, <2>6, <2>7 DEF Queues, Counts
<1>9. CASE Turns
  BY <1>9, BluezAssumption DEF Turns, Counts, BluezAssumption
<1>10. CASE Find
  BY <1>2, <1>10 DEF Find
<1>11. CASE Subscribe \/ Up \/ Ask
  BY <1>2, <1>11 DEF Subscribe, Up, Ask
<1>12. CASE Look \/ Wake
  BY <1>1, <1>2, <1>12 DEF Look, Wake, Proceeds
<1>13. CASE Start \/ Stop \/ LoopEnds \/ Block \/ DrainStopped \/ LoopSteps \/ StopSteps
  BY <1>1, <1>13 DEF Start, Stop, LoopEnds, Block, DrainStopped, LoopSteps, StopSteps,
     Notified, LoopLeaves, Join, Reset
<1>14. CASE (\E t \in Reader : Calls(t)) \/ \E s \in Sender : SendBegins(s) \/ SendSteps(s)
  BY <1>1, <1>14 DEF Calls, SendBegins, SendSteps, SendLocks, SendReturns
<1>15. CASE UNCHANGED vars
  BY <1>1, <1>15 DEF vars
<1> QED
  BY <1>3, <1>4, <1>5, <1>6, <1>7, <1>8, <1>9, <1>10, <1>11, <1>12, <1>13, <1>14, <1>15
     DEF Next, InitSteps, DrainSteps

-----------------------------------------------------------------------------
(* Who uses the D-Bus objects, and when *)

LEMMA InitUse == Init => Places /\ Lifetimes /\ InCall
  BY Threads, Zenon
     DEF Init, Places, Lifetimes, InCall, InitPlaces, DrainPlaces, StopPlaces, Joined, Own

\* Where the threads are after one of them goes on.
LEMMA OthersStay ==
    ASSUME Control, NEW t \in Thread, NEW where, Goes(t, where)
    PROVE  at'[t] = where /\ \A u \in Thread \ {t} : at'[u] = at[u]
  BY DEF Control, Goes

Use == Places /\ Lifetimes /\ InCall

\* A step of one thread of the connection after which that thread does not
\* hold proxy_mu_, and which leaves what others have alone.
LEMMA StepKeepsUse ==
    ASSUME Use, NEW t \in Own, at[t] \notin {"none", "end"}, at'[t] # "none",
           t = InitThread => at'[t] \in InitPlaces,
           t = LoopThread => at'[t] \in {"loop", "end"},
           t = DrainThread => at'[t] \in DrainPlaces,
           \A u \in Thread \ {t} : at'[u] = at[u],
           proxyMu' \in {proxyMu, NoOne} \ {t},
           objects' \in {objects, "all"}, UNCHANGED returned,
           \A r \in Reader \ {t} : hand'[r] = hand[r],
           t = InitThread => hand'[t] = 0 \/ at'[t] \in {"poll", "residual"},
           t = DrainThread => hand'[t] = 0 \/ at'[t] = "drain"
    PROVE  Use'
<1>1. t \in {InitThread, LoopThread, DrainThread}
  BY DEF Own
<1>2. Places'
  BY <1>1, Threads DEF Use, Places
<1>3. Lifetimes'
  BY <1>1, Threads DEF Use, Lifetimes, Joined, Own
<1>4. InCall'
  BY <1>1, Threads DEF Use, InCall, Reader
<1> QED
  BY <1>2, <1>3, <1>4 DEF Use

\* One step of the proof per action, but for those that Use does not see.
LEMMA StepUse == Control /\ Counts /\ Use /\ [Next]_vars => Use'
<1> SUFFICES ASSUME Control, Counts, Use, [Next]_vars PROVE Use'
  OBVIOUS
<1> USE Threads
<1> USE DEF conVars, drainVars, flowVars, radioVars, packetVars
<1>0. ASSUME NEW t \in Own, NEW where, Goes(t, where)
      PROVE  at'[t] = where /\ \A u \in Thread \ {t} : at'[u] = at[u]
  BY <1>0, OthersStay
<1>1. CASE Start
  BY <1>1 DEF Use, Places, Lifetimes, InCall, Joined, Own, Start, Control, InitPlaces, DrainPlaces
<1>2. CASE Find \/ Connect \/ Subscribe \/ Up \/ LoopEnds \/ Test \/ Ask \/ Poll
           \/ Emit(InitThread)
  <2>1. /\ at[InitThread] \in {"find", "connect", "subscribe", "up"}
           \/ proxyMu # InitThread \/ proxyMu' = NoOne
        /\ proxyMu' \in {proxyMu, NoOne}
    BY <1>2, Zenon DEF Find, Connect, Subscribe, Up, LoopEnds, Test, Ask, Poll, Emit
  <2>2. proxyMu' \in {proxyMu, NoOne} \ {InitThread}
    BY <2>1 DEF Use, InCall
  <2>3. \/ UNCHANGED at
        \/ \E where \in InitPlaces \ {"none"} : Goes(InitThread, where)
    BY <1>2, Zenon DEF Find, Connect, Subscribe, Up, LoopEnds, Test, Ask, Poll, Emit,
       Begins, Again, InitPlaces
  <2>4. at[InitThread] \notin {"none", "end"}
    BY <1>2, Zenon DEF Find, Connect, Subscribe, Up, LoopEnds, Test, Ask, Poll, Emit,
       Use, InCall
  <2>5. objects' \in {objects, "all"} /\ UNCHANGED returned
    BY <1>2, Zenon DEF Find, Connect, Subscribe, Up, LoopEnds, Test, Ask, Poll, Emit
  <2>6. /\ \A r \in Reader \ {InitThread} : hand'[r] = hand[r]
        /\ hand'[InitThread] = 0 \/ at'[InitThread] \in {"poll", "residual"}
    <3>1. CASE Poll
      BY <1>0, <3>1 DEF Poll, Read, Again, Counts, Reader
    <3>2. CASE Emit(InitThread)
      BY <1>0, <3>2 DEF Emit, Counts, Reader
    <3>3. CASE LoopEnds
      BY <3>3 DEF LoopEnds
    <3>4. CASE Find \/ Connect \/ Subscribe \/ Up \/ Test \/ Ask
      <4>1. at[InitThread] \notin {"poll", "residual"} /\ UNCHANGED hand
        BY <3>4, Zenon DEF Find, Connect, Subscribe, Up, Test, Ask
      <4> QED
        BY <4>1 DEF Use, InCall
    <3> QED
      BY <1>2, <3>1, <3>2, <3>3, <3>4
  <2> QED
    BY <1>0, <2>2, <2>3, <2>4, <2>5, <2>6, StepKeepsUse DEF Own, Use, Places
<1>3. CASE DrainSteps
  <2>1. /\ at[DrainThread] \in {"check", "nodding", "blocked"}
           \/ proxyMu # DrainThread \/ proxyMu' = NoOne
        /\ proxyMu' \in {proxyMu, NoOne}
    BY <1>3, Zenon DEF DrainSteps, Look, Block, Wake, DrainRead, DrainStopped, Emit
  <2>2. proxyMu' \in {proxyMu, NoOne} \ {DrainThread}
    BY <2>1 DEF Use, InCall
  <2>3. \/ UNCHANGED at
        \/ \E where \in DrainPlaces \ {"none"} : Goes(DrainThread, where)
    BY <1>3, Zenon DEF DrainSteps, Look, Block, Wake, Proceeds, DrainRead, DrainStopped,
       Emit, Begins, Again, DrainPlaces
  <2>4. at[DrainThread] \notin {"none", "end"}
    BY <1>3, Zenon DEF DrainSteps, Look, Block, Wake, DrainRead, DrainStopped, Emit,
       Use, InCall
  <2>5. UNCHANGED <<objects, returned>>
    BY <1>3, Zenon DEF DrainSteps, Look, Block, Wake, DrainRead, DrainStopped, Emit
  <2>6. /\ \A r \in Reader \ {DrainThread} : hand'[r] = hand[r]
        /\ hand'[DrainThread] = 0 \/ at'[DrainThread] = "drain"
    <3>1. CASE DrainRead
      BY <1>0, <3>1 DEF DrainRead, Read, Begins, Counts, Reader, Own
    <3>2. CASE Emit(DrainThread)
      BY <1>0, <3>2 DEF Emit, Counts, Reader
    <3>3. CASE DrainStopped
      BY <3>3 DEF DrainStopped
    <3>4. CASE Look \/ Block \/ Wake
      <4>1. at[DrainThread] # "drain" /\ UNCHANGED hand
        BY <3>4, Zenon DEF Look, Block, Wake
      <4> QED
        BY <4>1 DEF Use, InCall
    <3> QED
      BY <1>3, <3>1, <3>2, <3>3, <3>4 DEF DrainSteps
  <2> QED
    BY <1>0, <2>2, <2>3, <2>4, <2>5, <2>6, StepKeepsUse DEF Own, Use, Places
<1>4. CASE LoopLeaves
  <2>1. /\ at[LoopThread] = "loop" /\ Goes(LoopThread, "end")
        /\ UNCHANGED <<objects, returned, proxyMu, hand>>
    BY <1>4 DEF LoopLeaves
  <2>2. LoopThread \in Own /\ LoopThread \notin Reader
    BY DEF Own, Reader
  <2>3. proxyMu \in {proxyMu, NoOne} \ {LoopThread}
    BY <2>1 DEF Use, InCall
  <2> QED
    BY <1>0, <2>1, <2>2, <2>3, StepKeepsUse
<1>5. ASSUME NEW t \in Reader, Calls(t) PROVE Use'
  <2>1. /\ proxyMu' = t /\ hand[t] = 0 /\ GoesOn(t)
        /\ UNCHANGED <<at, objects, returned, hand>>
    BY <1>5 DEF Calls
  <2>2. /\ t = InitThread => at[t] \in {"test", "ask", "poll", "residual"}
        /\ t = DrainThread => at[t] = "drain"
    BY <2>1 DEF GoesOn, Use, Places, InitPlaces, DrainPlaces
  <2>3. objects # "none"
    BY <2>2 DEF Use, Lifetimes, Joined, Reader, Own, Control
  <2> QED
    BY <2>1, <2>2, <2>3 DEF Use, Places, Lifetimes, InCall, Joined, Reader
<1>6. ASSUME NEW s \in Sender, SendBegins(s) \/ SendSteps(s) PROVE Use'
  <2>1. /\ \E where \in {"none", "send", "writing"} : Goes(s, where)
        /\ UNCHANGED <<objects, returned, hand>>
        /\ \/ proxyMu' \in {proxyMu, NoOne}
           \/ objects = "all" /\ proxyMu' = s
    BY <1>6, Zenon DEF SendBegins, SendSteps, SendLocks, SendReturns
  <2>2. s \in Thread /\ s \notin Own /\ s # Stopper
    OBVIOUS
  <2>3. at'[s] \in {"none", "send", "writing"} /\ \A u \in Thread \ {s} : at'[u] = at[u]
    BY <2>1, <2>2, OthersStay
  <2> QED
    BY <2>1, <2>2, <2>3 DEF Use, Places, Lifetimes, InCall, Joined, Own, Reader
<1>7. CASE Stop \/ Join
  <2>1. /\ \/ at[Stopper] = "none" /\ returned # "not" /\ Goes(Stopper, "joinInit")
           \/ at[Stopper] = "joinInit" /\ Joined(InitThread) /\ Goes(Stopper, "joinLoop")
           \/ at[Stopper] = "joinLoop" /\ Joined(LoopThread) /\ Goes(Stopper, "joinDrain")
           \/ at[Stopper] = "joinDrain" /\ Joined(DrainThread) /\ Goes(Stopper, "reset")
        /\ UNCHANGED <<objects, returned, hand, proxyMu>>
    BY <1>7, Zenon DEF Stop, Join
  <2>2. \A u \in Thread \ {Stopper} : at'[u] = at[u]
    BY <2>1, OthersStay
  <2>3. at'[Stopper] \in StopPlaces
    BY <2>1, OthersStay DEF StopPlaces
  <2>4. Lifetimes'
    BY <2>1, <2>2, OthersStay DEF Use, Lifetimes, Joined, Own
  <2> QED
    BY <2>1, <2>2, <2>3, <2>4 DEF Use, Places, InCall, Reader
<1>8. CASE Reset
  <2>1. /\ at[Stopper] = "reset" /\ proxyMu = NoOne /\ objects' = "none"
        /\ Goes(Stopper, "end") /\ UNCHANGED <<returned, hand, proxyMu>>
    BY <1>8, Zenon DEF Reset
  <2>2. at'[Stopper] = "end" /\ \A u \in Thread \ {Stopper} : at'[u] = at[u]
    BY <2>1, OthersStay
  <2> QED
    BY <2>1, <2>2 DEF Use, Places, Lifetimes, InCall, Joined, Own, Reader, StopPlaces
<1>9. CASE Notified \/ Queues \/ Turns \/ UNCHANGED vars
  <2>1. UNCHANGED <<objects, returned, proxyMu, at, hand>>
    BY <1>9 DEF Notified, Queues, Turns, vars
  <2> QED
    BY <2>1 DEF Use, Places, Lifetimes, InCall, Joined
<1> QED
  BY <1>1, <1>2, <1>3, <1>4, <1>5, <1>6, <1>7, <1>8, <1>9
     DEF Next, InitSteps, LoopSteps, StopSteps

-----------------------------------------------------------------------------
(* Where the packets are *)

\* The elements of a sequence over S are in S.
LEMMA ElementsIn == \A S : \A seq \in Seq(S) : \A i \in DOMAIN seq : seq[i] \in S
<1> SUFFICES ASSUME NEW S, NEW seq \in Seq(S), NEW i \in 1 .. Len(seq) PROVE seq[i] \in S
  BY LenProperties
<1> QED
  BY ElementOfSeq

\* The positions of a packet in a queue are finite; one more or one fewer
\* copy counts one more or one less.
LEMMA CopiesFinite ==
    ASSUME NEW S, NEW q \in Seq(S), NEW p
    PROVE  IsFiniteSet(Copies(q, p)) /\ Cardinality(Copies(q, p)) \in Nat
<1>1. Copies(q, p) \in SUBSET (1 .. Len(q)) /\ Len(q) \in Nat
  BY LenProperties DEF Copies
<1>2. IsFiniteSet(Copies(q, p))
  <2>1. IsFiniteSet(1 .. Len(q))
    BY <1>1, FS_Interval
  <2> QED
    BY <1>1, <2>1, FS_Subset
<1> QED
  BY <1>2, FS_CardinalityType

LEMMA CopiesAppend ==
    ASSUME NEW S, NEW q \in Seq(S), NEW e \in S, NEW p
    PROVE  Cardinality(Copies(Append(q, e), p)) =
               Cardinality(Copies(q, p)) + IF e = p THEN 1 ELSE 0
<1>1. /\ Len(q) \in Nat /\ DOMAIN q = 1 .. Len(q)
      /\ DOMAIN Append(q, e) = 1 .. Len(q) + 1
      /\ Append(q, e)[Len(q) + 1] = e
      /\ \A i \in 1 .. Len(q) : Append(q, e)[i] = q[i]
  BY LenProperties, AppendProperties
<1>2. CASE e = p
  <2>1. Copies(Append(q, e), p) = Copies(q, p) \cup {Len(q) + 1}
    BY <1>1, <1>2 DEF Copies
  <2>2. Len(q) + 1 \notin Copies(q, p)
    BY <1>1 DEF Copies
  <2> QED
    BY <1>2, <2>1, <2>2, CopiesFinite, FS_AddElement
<1>3. CASE e # p
  <2>1. Copies(Append(q, e), p) = Copies(q, p)
    BY <1>1, <1>3 DEF Copies
  <2> QED
    BY <1>3, <2>1, CopiesFinite
<1> QED
  BY <1>2, <1>3

LEMMA CopiesTail ==
    ASSUME NEW S, NEW q \in Seq(S), q # <<>>, NEW p
    PROVE  Cardinality(Copies(q, p)) =
               Cardinality(Copies(Tail(q), p)) + IF Head(q) = p THEN 1 ELSE 0
<1> DEFINE A == Copies(Tail(q), p)
           B == Copies(q, p) \ {1}
           f == [i \in A |-> i + 1]
<1>1. /\ Len(q) \in Nat \ {0} /\ DOMAIN q = 1 .. Len(q) /\ Head(q) = q[1]
      /\ Tail(q) \in Seq(S) /\ DOMAIN Tail(q) = 1 .. Len(q) - 1
      /\ \A i \in 1 .. Len(q) - 1 : Tail(q)[i] = q[i + 1]
  BY LenProperties, EmptySeq, HeadTailProperties
<1>2. \A i \in A : i \in 1 .. Len(q) - 1 /\ q[i + 1] = p
  BY <1>1 DEF Copies
<1>3. \A j \in B : j - 1 \in A /\ j \in Int
  BY <1>1 DEF Copies
<1>4. f \in Bijection(A, B)
  <2>1. f \in [A -> B]
    BY <1>1, <1>2 DEF Copies
  <2>2. \A i, k \in A : f[i] = f[k] => i = k
    BY <1>2
  <2>3. \A j \in B : \E i \in A : f[i] = j
    <3> SUFFICES ASSUME NEW j \in B PROVE j - 1 \in A /\ f[j - 1] = j
      OBVIOUS
    <3> QED
      BY <1>3
  <2> QED
    BY <2>1, <2>2, <2>3, Fun_IsBij
<1>5. IsFiniteSet(A) /\ IsFiniteSet(Copies(q, p)) /\ Cardinality(A) \in Nat
  BY <1>1, CopiesFinite
<1>6. Cardinality(B) = Cardinality(A)
  BY <1>4, <1>5, FS_Bijection DEF ExistsBijection
<1>7. 1 \in Copies(q, p) <=> Head(q) = p
  BY <1>1 DEF Copies
<1>8. /\ Cardinality(Copies(q, p)) \in Nat
      /\ Cardinality(B) = IF 1 \in Copies(q, p) THEN Cardinality(Copies(q, p)) - 1
                                                ELSE Cardinality(Copies(q, p))
  BY <1>5, CopiesFinite, FS_RemoveElement
<1> QED
  BY <1>5, <1>6, <1>7, <1>8

\* The same of what the readers have in hand.
Holding(h, p) == {t \in Reader : h[t] = p}

LEMMA HoldingFinite ==
    ASSUME NEW h, NEW p
    PROVE  IsFiniteSet(Holding(h, p)) /\ Cardinality(Holding(h, p)) \in Nat
<1>1. IsFiniteSet(Reader)
  <2>1. Reader = {InitThread} \cup {DrainThread}
    BY DEF Reader
  <2> QED
    BY <2>1, FS_Singleton, FS_AddElement
<1>2. IsFiniteSet(Holding(h, p))
  BY <1>1, FS_Subset DEF Holding
<1> QED
  BY <1>2, FS_CardinalityType

LEMMA HoldingOneMore ==
    \A h, k \in [Reader -> Nat] : \A t \in Reader : \A p \in Nat \ {0} :
        h[t] = 0 /\ k = [h EXCEPT ![t] = k[t]] =>
            Cardinality(Holding(k, p)) = Cardinality(Holding(h, p)) + IF k[t] = p THEN 1 ELSE 0
<1> SUFFICES ASSUME NEW h \in [Reader -> Nat], NEW k \in [Reader -> Nat], NEW t \in Reader,
                    NEW p \in Nat \ {0}, h[t] = 0, k = [h EXCEPT ![t] = k[t]]
             PROVE  Cardinality(Holding(k, p)) =
                        Cardinality(Holding(h, p)) + IF k[t] = p THEN 1 ELSE 0
  OBVIOUS
<1>1. CASE k[t] = p
  <2>1. Holding(k, p) = Holding(h, p) \cup {t} /\ t \notin Holding(h, p)
    BY <1>1 DEF Holding
  <2>2. IsFiniteSet(Holding(h, p)) /\ Cardinality(Holding(h, p)) \in Nat
    BY HoldingFinite
  <2>3. Cardinality(Holding(h, p) \cup {t}) = Cardinality(Holding(h, p)) + 1
    BY <2>1, <2>2, FS_AddElement
  <2> QED
    BY <1>1, <2>1, <2>3
<1>2. CASE k[t] # p
  <2>1. Holding(k, p) = Holding(h, p)
    BY <1>2 DEF Holding
  <2> QED
    BY <1>2, <2>1, HoldingFinite
<1> QED
  BY <1>1, <1>2

\* The test read is made once.
Early == {"none", "find", "connect", "subscribe", "up", "test"}
TestedOnce == at[InitThread] \in Early => tested = {}

\* Nobody comes back to the steps before it.
LEMMA EarlyStays ==
    ASSUME Control, Use, [Next]_vars, at'[InitThread] \in Early
    PROVE  at[InitThread] \in Early
<1> USE Threads
<1> USE DEF conVars, drainVars, flowVars, radioVars, packetVars
<1>1. CASE at'[InitThread] = at[InitThread]
  BY <1>1
<1>2. ASSUME NEW t \in Thread \ {InitThread}, NEW where, Goes(t, where)
      PROVE  at[InitThread] \in Early
  BY <1>2, OthersStay
<1>3. ASSUME NEW where, where \notin Early, Goes(InitThread, where)
      PROVE  FALSE
  BY <1>3, OthersStay
<1>4. CASE Find \/ Connect \/ Subscribe \/ Up \/ Test
  BY <1>4 DEF Early, Find, Connect, Subscribe, Up, Test
<1>5. CASE Start
  <2>1. at[InitThread] = "none"
    BY <1>5, Zenon DEF Start, Use, Lifetimes, Own
  <2> QED
    BY <2>1 DEF Early
<1>6. CASE Ask \/ Poll \/ LoopEnds \/ Emit(InitThread)
  <2>1. UNCHANGED at \/ \E where \in {"poll", "residual", "end"} : Goes(InitThread, where)
    BY <1>6, Zenon DEF Ask, Poll, LoopEnds, Emit, Begins, Again
  <2> QED
    BY <1>1, <1>3, <2>1 DEF Early
<1>7. CASE DrainSteps
  <2>1. UNCHANGED at \/ \E where : Goes(DrainThread, where)
    BY <1>7, Zenon DEF DrainSteps, Look, Block, Wake, Proceeds, DrainRead, DrainStopped, Emit,
       Begins, Again
  <2> QED
    BY <1>1, <1>2, <2>1
<1>8. CASE LoopSteps \/ StopSteps \/ Stop
  <2>1. UNCHANGED at \/ \E t \in {LoopThread, Stopper} : \E where : Goes(t, where)
    BY <1>8, Zenon DEF LoopSteps, StopSteps, Notified, LoopLeaves, Join, Reset, Stop
  <2> QED
    BY <1>1, <1>2, <2>1
<1>9. ASSUME NEW s \in Sender, SendBegins(s) \/ SendSteps(s) PROVE at[InitThread] \in Early
  <2>1. UNCHANGED at \/ \E where : Goes(s, where)
    BY <1>9, Zenon DEF SendBegins, SendSteps, SendLocks, SendReturns
  <2> QED
    BY <1>1, <1>2, <2>1
<1>10. CASE (\E t \in Reader : Calls(t)) \/ Queues \/ Turns \/ UNCHANGED vars
  BY <1>1, <1>10 DEF Calls, Queues, Turns, vars
<1> QED
  BY <1>4, <1>5, <1>6, <1>7, <1>8, <1>9, <1>10 DEF Next, InitSteps

LEMMA HowOftenParts ==
    ASSUME Counts, NEW p
    PROVE  /\ Cardinality(Copies(radio, p)) \in Nat /\ Cardinality(Copies(out, p)) \in Nat
           /\ Cardinality(Holding(hand, p)) \in Nat
           /\ IsFiniteSet(tested \cap {p}) /\ Cardinality(tested \cap {p}) \in Nat
           /\ HowOften(p) = Cardinality(Copies(radio, p)) + Cardinality(Holding(hand, p))
                            + Cardinality(Copies(out, p)) + Cardinality(tested \cap {p})
<1>1. Cardinality(Copies(radio, p)) \in Nat /\ Cardinality(Copies(out, p)) \in Nat
  BY CopiesFinite DEF Counts
<1>2. IsFiniteSet(tested \cap {p}) /\ Cardinality(tested \cap {p}) \in Nat
  <2>1. IsFiniteSet({p}) /\ tested \cap {p} \in SUBSET {p}
    BY FS_Singleton
  <2>2. IsFiniteSet(tested \cap {p})
    BY <2>1, FS_Subset
  <2> QED
    BY <2>2, FS_CardinalityType
<1> QED
  BY <1>1, <1>2, HoldingFinite DEF HowOften, Holding

\* Every step leaves each packet in one place: at the radio until it is read,
\* then with the thread that has read it until that emits it.
LEMMA StepPackets ==
    TypeOK /\ Use /\ TestedOnce /\ NothingLost /\ [Next]_vars => TestedOnce' /\ NothingLost'
<1> SUFFICES ASSUME Control, Counts, Use, TestedOnce, NothingLost, [Next]_vars, Counts'
             PROVE  TestedOnce' /\ NothingLost'
  BY StepCounts DEF TypeOK
<1> USE Threads
<1> USE DEF conVars, drainVars, flowVars, radioVars, packetVars
<1>1. born \in Nat /\ hand \in [Reader -> Nat] /\ \A p \in 1 .. born : HowOften(p) = 1
  BY BluezAssumption DEF Counts, NothingLost, BluezAssumption
<1>2. ASSUME UNCHANGED <<born, radio, hand, out, tested>> PROVE NothingLost'
  <2>1. \A p : HowOften(p)' = HowOften(p)
    BY <1>2 DEF HowOften, Copies
  <2> QED
    BY <1>2, <2>1 DEF NothingLost
<1>3. CASE Test
  <2>1. at[InitThread] = "test" /\ tested = {} /\ at'[InitThread] = "ask"
        /\ UNCHANGED <<born, hand, out>>
    <3>1. at[InitThread] = "test" /\ Goes(InitThread, "ask") /\ UNCHANGED <<born, hand, out>>
      BY <1>3, Zenon DEF Test
    <3>2. at'[InitThread] = "ask"
      BY <3>1, OthersStay
    <3> QED
      BY <3>1, <3>2 DEF TestedOnce, Early
  <2>2. CASE UNCHANGED <<tested, radio>>
    BY <1>2, <2>1, <2>2 DEF TestedOnce
  <2>3. CASE radio # <<>> /\ tested' = tested \cup {Head(radio)} /\ radio' = Tail(radio)
    <3>1. tested' = {Head(radio)} /\ Cardinality(tested') = 1
      <4>1. tested' = {Head(radio)}
        BY <2>1, <2>3
      <4>2. Cardinality({Head(radio)}) = 1
        BY FS_Singleton, Zenon
      <4> QED
        BY <4>1, <4>2
    <3>2. ASSUME NEW p \in 1 .. born PROVE HowOften(p)' = 1
      <4>1. Cardinality(Copies(radio, p)) =
                Cardinality(Copies(radio', p)) + IF Head(radio) = p THEN 1 ELSE 0
        BY <2>3, CopiesTail DEF Counts
      <4>2. Cardinality(tested \cap {p}) = 0
        <5>1. tested \cap {p} = {}
          BY <2>1
        <5> QED
          BY <5>1, FS_EmptySet
      <4>3. Cardinality(tested' \cap {p}) = IF Head(radio) = p THEN 1 ELSE 0
        <5>1. tested' \cap {p} = IF Head(radio) = p THEN {p} ELSE {}
          BY <3>1
        <5> QED
          BY <5>1, FS_EmptySet, FS_Singleton
      <4>4. HowOften(p)' = Cardinality(Copies(radio', p)) + Cardinality(Holding(hand, p))
                            + Cardinality(Copies(out, p)) + Cardinality(tested' \cap {p})
        BY <2>1 DEF HowOften, Holding, Copies
      <4>5. Cardinality(Copies(radio', p)) \in Nat
        BY CopiesFinite DEF Counts
      <4> QED
        BY <1>1, <4>1, <4>2, <4>3, <4>4, <4>5, HowOftenParts
    <3> QED
      <4>1. NothingLost'
        BY <2>1, <3>1, <3>2 DEF NothingLost
      <4>2. TestedOnce'
        BY <2>1 DEF TestedOnce, Early
      <4> QED
        BY <4>1, <4>2
  <2> QED
    BY <1>3, <2>2, <2>3 DEF Test
<1>4. Test \/ (TestedOnce' /\ UNCHANGED tested)
  <2> SUFFICES ASSUME ~ Test PROVE TestedOnce' /\ UNCHANGED tested
    OBVIOUS
  <2>1. UNCHANGED tested
    BY DEF Next, InitSteps, DrainSteps, LoopSteps, StopSteps, SendSteps, Start, Stop, Find,
       Connect, Subscribe, Up, LoopEnds, Ask, Poll, Emit, Look, Block, Wake, Proceeds,
       DrainRead, DrainStopped, Notified, LoopLeaves, SendBegins, SendLocks,
       SendReturns, Join, Reset, Calls, Queues, Turns, vars
  <2>2. at'[InitThread] \in Early => at[InitThread] \in Early
    BY EarlyStays
  <2> QED
    BY <2>1, <2>2 DEF TestedOnce, Early
<1>5. ASSUME NEW t \in Reader, hand[t] = 0, Read(t), UNCHANGED <<born, out, tested>>
      PROVE  NothingLost'
  <2>1. CASE radio # <<>> /\ radio' = Tail(radio) /\ hand' = [hand EXCEPT ![t] = Head(radio)]
    <3>1. Head(radio) \in Nat \ {0}
      <4>1. Head(radio) \in 1 .. born
        BY <2>1, HeadTailProperties DEF Counts
      <4> QED
        BY <1>1, <4>1
    <3>2. ASSUME NEW p \in 1 .. born PROVE HowOften(p)' = 1
      <4>1. Cardinality(Copies(radio, p)) =
                Cardinality(Copies(radio', p)) + IF Head(radio) = p THEN 1 ELSE 0
        BY <2>1, CopiesTail DEF Counts
      <4>2. Cardinality(Holding(hand', p)) =
                Cardinality(Holding(hand, p)) + IF Head(radio) = p THEN 1 ELSE 0
        <5>1. p \in Nat \ {0}
          BY <1>1
        <5>2. /\ hand \in [Reader -> Nat] /\ hand' \in [Reader -> Nat] /\ hand[t] = 0
              /\ hand'[t] = Head(radio) /\ hand' = [hand EXCEPT ![t] = hand'[t]]
          BY <1>1, <1>5, <2>1, <3>1
        <5> QED
          BY <5>1, <5>2, HoldingOneMore
      <4>3. HowOften(p)' = Cardinality(Copies(radio', p)) + Cardinality(Holding(hand', p))
                            + Cardinality(Copies(out, p)) + Cardinality(tested \cap {p})
        BY <1>5 DEF HowOften, Holding, Copies
      <4>4. Cardinality(Copies(radio', p)) \in Nat
        BY CopiesFinite DEF Counts
      <4> QED
        BY <1>1, <4>1, <4>2, <4>3, <4>4, HowOftenParts
    <3> QED
      BY <1>5, <3>2 DEF NothingLost
  <2> QED
    BY <1>2, <1>5, <2>1 DEF Read
<1>6. ASSUME NEW t \in Reader, Emit(t) PROVE NothingLost'
  <2>1. /\ hand[t] # 0
        /\ out' = Append(out, hand[t]) /\ hand' = [hand EXCEPT ![t] = 0]
        /\ UNCHANGED <<born, radio, tested>>
    BY <1>6 DEF Emit
  <2>2. /\ hand[t] \in Nat \ {0} /\ hand[t] \in 1 .. born
        /\ hand' \in [Reader -> Nat] /\ hand'[t] = 0
        /\ hand = [hand' EXCEPT ![t] = hand[t]]
    <3>1. hand[t] \in 0 .. born
      BY DEF Counts
    <3>2. hand[t] \in Nat \ {0} /\ hand[t] \in 1 .. born
      BY <1>1, <2>1, <3>1
    <3>3. hand' \in [Reader -> Nat] /\ hand'[t] = 0 /\ hand = [hand' EXCEPT ![t] = hand[t]]
      BY <1>1, <2>1
    <3> QED
      BY <3>2, <3>3
  <2>3. ASSUME NEW p \in 1 .. born PROVE HowOften(p)' = 1
    <3>1. Cardinality(Copies(out', p)) =
              Cardinality(Copies(out, p)) + IF hand[t] = p THEN 1 ELSE 0
      BY <2>1, <2>2, CopiesAppend DEF Counts
    <3>2. Cardinality(Holding(hand, p)) =
              Cardinality(Holding(hand', p)) + IF hand[t] = p THEN 1 ELSE 0
      <4>1. p \in Nat \ {0}
        BY <1>1
      <4> QED
        BY <1>1, <2>2, <4>1, HoldingOneMore
    <3>3. HowOften(p)' = Cardinality(Copies(radio, p)) + Cardinality(Holding(hand', p))
                          + Cardinality(Copies(out', p)) + Cardinality(tested \cap {p})
      BY <2>1 DEF HowOften, Holding, Copies
    <3>4. Cardinality(Holding(hand', p)) \in Nat
      BY HoldingFinite
    <3> QED
      BY <1>1, <3>1, <3>2, <3>3, <3>4, HowOftenParts
  <2> QED
    BY <2>1, <2>3 DEF NothingLost
<1>7. ASSUME Queues PROVE NothingLost'
  <2>1. born' = born + 1 /\ radio' = Append(radio, born') /\ UNCHANGED <<hand, out, tested>>
    BY <1>7 DEF Queues
  <2>2. born' \in Nat \ {0} /\ radio \in Seq(1 .. born')
    BY <1>1, <2>1, SeqMonotonic DEF Counts
  <2>3. ASSUME NEW p \in 1 .. born'
        PROVE  HowOften(p)' = HowOften(p) + IF p = born' THEN 1 ELSE 0
    <3>1. Cardinality(Copies(radio', p)) =
              Cardinality(Copies(radio, p)) + IF p = born' THEN 1 ELSE 0
      BY <2>1, <2>2, CopiesAppend
    <3>2. HowOften(p)' = Cardinality(Copies(radio', p)) + Cardinality(Holding(hand, p))
                          + Cardinality(Copies(out, p)) + Cardinality(tested \cap {p})
      BY <2>1 DEF HowOften, Holding, Copies
    <3> QED
      BY <2>2, <3>1, <3>2, HowOftenParts
  <2>4. HowOften(born') = 0
    <3>1. born \in Nat /\ born' = born + 1
      BY <1>1, <2>1
    <3>2. Copies(radio, born') = {}
      <4>1. \A i \in DOMAIN radio : radio[i] \in 1 .. born
        BY ElementsIn DEF Counts
      <4> QED
        BY <3>1, <4>1 DEF Copies
    <3>3. Copies(out, born') = {}
      <4>1. \A i \in DOMAIN out : out[i] \in 1 .. born
        BY ElementsIn DEF Counts
      <4> QED
        BY <3>1, <4>1 DEF Copies
    <3>4. Holding(hand, born') = {}
      <4>1. \A u \in Reader : hand[u] \in 0 .. born
        BY DEF Counts
      <4> QED
        BY <3>1, <4>1 DEF Holding
    <3>5. tested \cap {born'} = {}
      <4>1. tested \subseteq 1 .. born
        BY DEF Counts
      <4> QED
        BY <3>1, <4>1
    <3> QED
      BY <3>2, <3>3, <3>4, <3>5, FS_EmptySet DEF HowOften, Holding
  <2>5. ASSUME NEW p \in 1 .. born' PROVE HowOften(p)' = 1
    BY <1>1, <2>1, <2>3, <2>4
  <2>6. Cardinality(tested') <= 1
    BY <2>1 DEF NothingLost
  <2> QED
    BY <2>5, <2>6 DEF NothingLost
<1>8. CASE Poll
  <2>1. InitThread \in Reader /\ hand[InitThread] = 0
    BY <1>8 DEF Poll, Use, InCall
  <2>2. Read(InitThread) /\ UNCHANGED <<born, out, tested>>
    BY <1>8 DEF Poll
  <2> QED
    BY <1>3, <1>4, <1>5, <2>1, <2>2
<1>9. CASE DrainRead
  <2>1. DrainThread \in Reader /\ hand[DrainThread] = 0
    BY <1>9 DEF DrainRead, Use, InCall
  <2>2. Read(DrainThread) /\ UNCHANGED <<born, out, tested>>
    BY <1>9 DEF DrainRead
  <2> QED
    BY <1>3, <1>4, <1>5, <2>1, <2>2
<1>10. ASSUME TestedOnce', UNCHANGED <<born, radio, hand, out, tested>>
       PROVE  TestedOnce' /\ NothingLost'
  BY <1>2, <1>10
<1>11. CASE Start \/ Stop \/ LoopSteps \/ StopSteps \/ Turns \/ UNCHANGED vars
            \/ (\E t \in Reader : Calls(t)) \/ \E s \in Sender : SendBegins(s) \/ SendSteps(s)
  <2>1. UNCHANGED <<born, radio, hand, out, tested>>
    BY <1>11, Zenon DEF Start, Stop, LoopSteps, Notified, LoopLeaves, StopSteps, Join, Reset,
       Turns, Calls, SendBegins, SendSteps, SendLocks, SendReturns, vars
  <2> QED
    BY <1>3, <1>4, <1>10, <2>1
<1>12. CASE Find \/ Connect \/ Subscribe \/ Up \/ LoopEnds \/ Ask
            \/ Look \/ Block \/ Wake \/ DrainStopped
  <2>1. UNCHANGED <<born, radio, hand, out, tested>>
    BY <1>12, Zenon DEF Find, Connect, Subscribe, Up, LoopEnds, Ask, Look, Block, Wake,
       Proceeds, DrainStopped
  <2> QED
    BY <1>3, <1>4, <1>10, <2>1
<1> QED
  BY <1>3, <1>4, <1>6, <1>7, <1>8, <1>9, <1>11, <1>12 DEF Next, InitSteps, DrainSteps

-----------------------------------------------------------------------------
LEMMA InitPackets == Init => TestedOnce /\ NothingLost
<1> SUFFICES ASSUME Init PROVE tested = {} /\ born = 0
  BY FS_EmptySet DEF TestedOnce, NothingLost
<1> QED
  BY DEF Init

Invariant == TypeOK /\ Use /\ TestedOnce /\ NothingLost

LEMMA InitInvariant == Init => Invariant
  BY InitTypes, InitUse, InitPackets DEF Invariant, TypeOK, Use

LEMMA StepInvariant == Invariant /\ [Next]_vars => Invariant'
  BY StepControl, StepCounts, StepUse, StepPackets DEF Invariant, TypeOK

LEMMA Invariance == Spec => []Invariant
  BY InitInvariant, StepInvariant, PTL DEF Spec

\* The state of the connection's threads and of those that call it is well
\* typed; a drain makes no more than MaxErrors + 1 failed reads in a row.
THEOREM TypesKept == Spec => []TypeOK
<1>1. Invariant => TypeOK
  BY DEF Invariant
<1> QED
  BY <1>1, Invariance, PTL

\* Each packet the radio has queued is in one place: at the radio, with the
\* thread that has read it, or emitted; only the test read may drop one.
THEOREM PacketsKept == Spec => []NothingLost
<1>1. Invariant => NothingLost
  BY DEF Invariant
<1> QED
  BY <1>1, Invariance, PTL

\* stop() destroys the D-Bus objects when no call to the radio is under way and
\* no thread of the connection is left to make one.
THEOREM ObjectsSafe == Spec => []ObjectsOutliveCalls
<1>1. Invariant => ObjectsOutliveCalls
  BY Threads DEF Invariant, ObjectsOutliveCalls, Use, InCall, Lifetimes, Own
<1> QED
  BY <1>1, Invariance, PTL
=============================================================================
