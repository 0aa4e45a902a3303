----------------------------- MODULE StoreProofs -----------------------------
(***************************************************************************)
(* Theorems of Store, for every file an earlier version may have left, any *)
(* number of nodes and reading threads, and all bounds.                    *)
(***************************************************************************)
EXTENDS Store, TLAPS

-----------------------------------------------------------------------------
(* open *)

\* What the statements of open have done so far, unless one was refused.
OpenSoFar ==
    /\ pc = "history" /\ ~ refused =>
          \A t \in Table : history[t] # Mac => <<t, history[t]>> \in todo
    /\ pc \notin {"down", "history"} /\ ~ refused =>
          \A t \in Table : history[t] = Mac
    /\ pc \in {"nodes", "drop"} /\ ~ refused =>
          \A s \in ToRename, n \in Node : rows[s][n] # None => s \in todo \/ (pc = "drop" /\ cur = s)
    /\ pc \in Table \cup {"up"} /\ ~ refused =>
          \A s \in ToRename, n \in Node : rows[s][n] = None
    /\ pc \in {"telemetry_history", "location_history"} /\ ~ refused => "messages" \in log
    /\ pc = "location_history" /\ ~ refused => "telemetry_history" \in log
    /\ pc = "up" /\ filled /\ ~ refused => log = Table

\* The rows about to be deleted have all been moved, or are there already.
DropIsSafe ==
    pc = "drop" /\ moved => \A n \in Node : rows[cur][n] # None => rows[Mac][n] # None

\* An event that is being handled is about a node.
EventHasNode == \A r \in Reader : ev[r].at # "idle" => ev[r].node \in Node

\* What is to be renamed is of the kind the stage of open renames.
TodoIsOfStage ==
    /\ pc = "history" => todo \subseteq Table \X ToRename
    /\ pc \in {"nodes", "drop"} => todo \subseteq ToRename
    /\ pc = "drop" => cur \in ToRename

Typed == TypeOK /\ EventHasNode /\ TodoIsOfStage

OpenInv == Typed /\ OpenSoFar /\ DropIsSafe

-----------------------------------------------------------------------------
LEMMA OverTypes ==
    ASSUME NEW a \in Values, NEW b \in Values
    PROVE  /\ Over(a, b) \in Values
           /\ \A f \in Field : Over(a, b)[f] = IF a[f] # 0 THEN a[f] ELSE b[f]
  BY DEF Over, Values

LEMMA Constants ==
    /\ Blank \in Values /\ Known \in Values /\ Nothing \in [Node -> Values]
    /\ \A f \in Field : Blank[f] = 0 /\ Known[f] = 1
    /\ None \notin Values /\ None \notin [node : Node, vals : Values]
    /\ Path # Short /\ Path # Mac /\ Short # Mac
    /\ Idle \in [at : {"idle", "named", "merged", "remembered"},
                 node : Node \cup {None}, vals : Values]
  BY StoreAssumption DEF Blank, Known, Nothing, Values, StoreAssumption, Idle

LEMMA RowTypes ==
    ASSUME rows \in [Spelling -> [Node -> Values \cup {None}]],
           NEW s \in Spelling, NEW n \in Node
    PROVE  RowOf(s, n) \in Values
  BY Constants DEF RowOf

\* What one UPDATE OR IGNORE does: nothing to third spellings, and no row of
\* a node is gone.
LEMMA MovedRows ==
    ASSUME rows \in [Spelling -> [Node -> Values \cup {None}]],
           NEW s \in ToRename
    PROVE  /\ Moved(s) \in [Spelling -> [Node -> Values \cup {None}]]
           /\ \A u \in Spelling \ {s, Mac} : Moved(s)[u] = rows[u]
           /\ \A n \in Node : rows[Mac][n] # None => Moved(s)[Mac][n] = rows[Mac][n]
           /\ \A n \in Node : rows[s][n] # None => Moved(s)[Mac][n] # None
           /\ \A n \in Node : Moved(s)[s][n] # None => rows[s][n] # None
<1>1. s \in Spelling /\ Mac \in Spelling /\ s # Mac
  BY Constants DEF ToRename, Spelling
<1> DEFINE moves == {n \in Node : rows[s][n] # None /\ rows[Mac][n] = None}
<1> DEFINE atMac == [n \in Node |-> IF n \in moves THEN rows[s][n] ELSE rows[Mac][n]]
<1> DEFINE atS == [n \in Node |-> IF n \in moves THEN None ELSE rows[s][n]]
<1>2. Moved(s) = [rows EXCEPT ![Mac] = atMac, ![s] = atS]
  BY <1>1 DEF Moved
<1>3. atMac \in [Node -> Values \cup {None}] /\ atS \in [Node -> Values \cup {None}]
  BY <1>1
<1> HIDE DEF atMac, atS
<1>4. /\ Moved(s) \in [Spelling -> [Node -> Values \cup {None}]]
      /\ \A u \in Spelling \ {s, Mac} : Moved(s)[u] = rows[u]
      /\ Moved(s)[Mac] = atMac /\ Moved(s)[s] = atS
  BY <1>1, <1>2, <1>3
<1>5. \A n \in Node : /\ rows[Mac][n] # None => atMac[n] = rows[Mac][n]
                      /\ rows[s][n] # None => atMac[n] # None
                      /\ atS[n] # None => rows[s][n] # None
  BY DEF atMac, atS
<1> QED
  BY <1>4, <1>5

\* Every row after an UPDATE OR IGNORE is one from before.
LEMMA MovedFrom ==
    ASSUME rows \in [Spelling -> [Node -> Values \cup {None}]],
           NEW s \in ToRename, NEW u \in Spelling, NEW n \in Node,
           Moved(s)[u][n] # None
    PROVE  \E v \in Spelling : rows[v][n] # None /\ Moved(s)[u][n] = rows[v][n]
<1>1. s \in Spelling /\ Mac \in Spelling /\ s # Mac
  BY Constants DEF ToRename, Spelling
<1> DEFINE moves == {m \in Node : rows[s][m] # None /\ rows[Mac][m] = None}
<1> DEFINE atMac == [m \in Node |-> IF m \in moves THEN rows[s][m] ELSE rows[Mac][m]]
<1> DEFINE atS == [m \in Node |-> IF m \in moves THEN None ELSE rows[s][m]]
<1>2. Moved(s) = [rows EXCEPT ![Mac] = atMac, ![s] = atS]
  BY <1>1 DEF Moved
<1>3. atMac[n] \in {rows[s][n], rows[Mac][n]} /\ atS[n] \in {None, rows[s][n]}
  OBVIOUS
<1> HIDE DEF atMac, atS
<1>4. Moved(s)[u] = IF u = s THEN atS ELSE IF u = Mac THEN atMac ELSE rows[u]
  BY <1>1, <1>2
<1> QED
  BY <1>1, <1>3, <1>4

\* What an event that Hear has taken up carries.
LEMMA HearTypes ==
    ASSUME Typed, NEW r \in Reader, NEW n \in Node, NEW given \in Frames, Hear(r, n, given)
    PROVE  /\ heard' \in [Node -> [Field -> Nat]]
           /\ \A m \in Node, f \in Field : heard[m][f] <= heard'[m][f]
           /\ \E vals \in Values :
                 /\ ev' = [ev EXCEPT ![r] = [at |-> "named", node |-> n, vals |-> vals]]
                 /\ \A f \in Field :
                       IF given[f] = "no" THEN vals[f] = IF f = "name" THEN mem[n][f] ELSE 0
                       ELSE /\ vals[f] \in {heard'[n][f], -heard'[n][f]}
                            /\ heard'[n][f] = heard[n][f] + 1
<1> DEFINE new == [f \in Field |-> IF given[f] = "no" THEN heard[n][f] ELSE heard[n][f] + 1]
<1>0. given \in [Field -> {"no", "yes", "zero"}]
  BY DEF Frames
<1>1. heard \in [Node -> [Field -> Nat]] /\ heard[n] \in [Field -> Nat] /\ mem[n] \in Values
  BY DEF Typed, TypeOK
<1>2. heard' = [heard EXCEPT ![n] = new]
  BY DEF Hear
<1>3. /\ new \in [Field -> Nat]
      /\ \A f \in Field : new[f] = IF given[f] = "no" THEN heard[n][f] ELSE heard[n][f] + 1
  BY <1>1
<1> HIDE DEF new
<1>4. /\ heard' \in [Node -> [Field -> Nat]]
      /\ heard'[n] = new /\ \A m \in Node \ {n} : heard'[m] = heard[m]
  BY <1>1, <1>2, <1>3
<1>5. \A m \in Node, f \in Field : heard[m][f] <= heard'[m][f]
  <2> SUFFICES ASSUME NEW m \in Node, NEW f \in Field PROVE heard[m][f] <= heard'[m][f]
    OBVIOUS
  <2>1. heard[m][f] \in Nat
    BY <1>1
  <2> QED
    BY <1>3, <1>4, <2>1
<1>6. \A f \in Field : given[f] # "no" => heard'[n][f] = heard[n][f] + 1
  BY <1>3, <1>4
<1> DEFINE v0 == [f \in Field |-> CASE given[f] = "yes" -> heard'[n][f]
                                    [] given[f] = "zero" -> -heard'[n][f]
                                    [] given[f] = "no" -> 0]
<1> DEFINE v1 == [v0 EXCEPT !["name"] = Over(v0, mem[n])["name"]]
<1>7. ev' = [ev EXCEPT ![r] = [at |-> "named", node |-> n, vals |-> v1]]
  BY DEF Hear
<1>8. \A f \in Field : /\ v0[f] \in Int
                       /\ given[f] = "no" => v0[f] = 0
                       /\ given[f] # "no" => v0[f] \in {heard'[n][f], -heard'[n][f]} /\ v0[f] # 0
  <2> SUFFICES ASSUME NEW f \in Field
               PROVE  /\ v0[f] \in Int
                      /\ given[f] = "no" => v0[f] = 0
                      /\ given[f] # "no" => v0[f] \in {heard'[n][f], -heard'[n][f]} /\ v0[f] # 0
    OBVIOUS
  <2>1. heard[n][f] \in Nat /\ heard'[n][f] \in Nat /\ given[f] \in {"no", "yes", "zero"}
    BY <1>0, <1>1, <1>4
  <2>2. v0[f] = CASE given[f] = "yes" -> heard'[n][f]
                  [] given[f] = "zero" -> -heard'[n][f]
                  [] given[f] = "no" -> 0
    OBVIOUS
  <2> HIDE DEF v0
  <2> QED
    BY <1>6, <2>1, <2>2
<1>9. v0 \in Values
  BY <1>8 DEF Values
<1>10. v1 \in Values /\ \A f \in Field :
           v1[f] = IF f = "name" /\ v0[f] = 0 THEN mem[n][f] ELSE v0[f]
  <2> HIDE DEF v0
  <2>1. Over(v0, mem[n])["name"] = IF v0["name"] # 0 THEN v0["name"] ELSE mem[n]["name"]
    BY <1>1, <1>9, OverTypes DEF Field
  <2>2. v0["name"] \in Int /\ mem[n]["name"] \in Int /\ "name" \in Field
    BY <1>1, <1>9 DEF Values, Field
  <2>3. v1 \in Values
    BY <1>9, <2>1, <2>2 DEF Values
  <2>4. v1["name"] = Over(v0, mem[n])["name"] /\ v1["reading"] = v0["reading"]
    BY <1>9 DEF Values, Field
  <2> QED
    BY <2>1, <2>3, <2>4 DEF Field
<1> HIDE DEF v0, v1
<1>11. \A f \in Field :
          IF given[f] = "no" THEN v1[f] = IF f = "name" THEN mem[n][f] ELSE 0
          ELSE /\ v1[f] \in {heard'[n][f], -heard'[n][f]}
               /\ heard'[n][f] = heard[n][f] + 1
  BY <1>6, <1>8, <1>10
<1> QED
  BY <1>4, <1>5, <1>7, <1>10, <1>11

LEMMA InitTyped == Init => Typed
<1> SUFFICES ASSUME Init PROVE Typed
  OBVIOUS
<1>1. history \in [Table -> Spelling] /\ heard \in [Node -> [Field -> Nat]]
  BY DEF Init, Spelling, Known
<1>2. rows \in [Spelling -> [Node -> Values \cup {None}]]
  BY Constants DEF Init
<1>3. ev \in [Reader -> [at : {"idle", "named", "merged", "remembered"},
                         node : Node \cup {None}, vals : Values]]
  BY Constants DEF Init
<1>4. faults \in 0 .. MaxFaults
  BY StoreAssumption DEF Init, StoreAssumption
<1>5. todo = {} /\ {moved, refused, filled, gone} \subseteq BOOLEAN
  BY DEF Init
<1>6. EventHasNode /\ TodoIsOfStage
  BY DEF Init, EventHasNode, TodoIsOfStage, Idle
<1> QED
  BY <1>1, <1>2, <1>3, <1>4, <1>5, <1>6, Constants DEF Init, Typed, TypeOK

\* A fault is counted.
LEMMA FaultTypes ==
    ASSUME TypeOK, faults < MaxFaults, faults' = faults + 1
    PROVE  faults' \in 0 .. MaxFaults
<1>1. MaxFaults \in Nat /\ faults \in 0 .. MaxFaults
  BY StoreAssumption DEF TypeOK, StoreAssumption
<1> QED
  BY <1>1

\* A statement is carried out or refused.
LEMMA RefuseTypes ==
    ASSUME TypeOK, Refuse \/ UNCHANGED <<refused, faults>>
    PROVE  refused' \in BOOLEAN /\ faults' \in 0 .. MaxFaults
<1>1. refused' \in BOOLEAN
  BY DEF TypeOK, Refuse
<1>2. faults' \in 0 .. MaxFaults
  BY FaultTypes DEF TypeOK, Refuse
<1> QED
  BY <1>1, <1>2

\* The steps of open and the end of a run.
LEMMA OpenTyped ==
    ASSUME Typed,
           \/ Open \/ RenameHistory \/ HistoryRenamed \/ MoveRows \/ DropRows
           \/ RowsRenamed \/ Backfill \/ Stop
    PROVE  Typed'
<1>0. TypeOK /\ EventHasNode /\ TodoIsOfStage
  BY DEF Typed
<1>1. CASE Open
  <2>1. todo' \subseteq Table \X ToRename
    BY <1>1 DEF Open
  <2> QED
    BY <1>0, <1>1, <2>1
    DEF Open, Typed, TypeOK, EventHasNode, TodoIsOfStage, fileVars, memVars, preVars, pastVars
<1>2. CASE RenameHistory
  <2>1. refused' \in BOOLEAN /\ faults' \in 0 .. MaxFaults
    BY <1>0, <1>2, RefuseTypes DEF RenameHistory
  <2>2. history' \in [Table -> Spelling]
    BY <1>0, <1>2 DEF RenameHistory, TypeOK, Spelling
  <2>3. todo' \subseteq Table \X ToRename
    BY <1>0, <1>2 DEF RenameHistory, TodoIsOfStage
  <2> QED
    BY <1>0, <1>2, <2>1, <2>2, <2>3
    DEF RenameHistory, Typed, TypeOK, EventHasNode, TodoIsOfStage, memVars, preVars, pastVars
<1>3. CASE HistoryRenamed
  <2>1. todo' \subseteq ToRename
    BY <1>3 DEF HistoryRenamed
  <2> QED
    BY <1>0, <1>3, <2>1
    DEF HistoryRenamed, Typed, TypeOK, EventHasNode, TodoIsOfStage, fileVars, memVars, preVars, pastVars
<1>4. CASE MoveRows
  <2>1. PICK s \in todo :
           /\ todo' = todo \ {s} /\ cur' = s
           /\ \/ rows' = Moved(s) /\ moved' = TRUE /\ UNCHANGED <<refused, faults>>
              \/ Refuse /\ moved' = FALSE /\ UNCHANGED rows
    BY <1>4 DEF MoveRows
  <2>2. s \in ToRename
    BY <1>0, <1>4, <2>1 DEF MoveRows, TodoIsOfStage
  <2>3. refused' \in BOOLEAN /\ faults' \in 0 .. MaxFaults
    BY <1>0, <2>1, RefuseTypes
  <2>4. rows' \in [Spelling -> [Node -> Values \cup {None}]]
    BY <1>0, <2>1, <2>2, MovedRows DEF TypeOK
  <2>5. moved' \in BOOLEAN /\ todo' \subseteq ToRename
    BY <1>0, <1>4, <2>1 DEF MoveRows, TodoIsOfStage
  <2> QED
    BY <1>0, <1>4, <2>1, <2>2, <2>3, <2>4, <2>5
    DEF MoveRows, Typed, TypeOK, EventHasNode, TodoIsOfStage, memVars, preVars, pastVars
<1>5. CASE DropRows
  <2>1. refused' \in BOOLEAN /\ faults' \in 0 .. MaxFaults
    BY <1>0, <1>5, RefuseTypes DEF DropRows
  <2>2. [n \in Node |-> None] \in [Node -> Values \cup {None}]
    OBVIOUS
  <2>3. rows' \in [Spelling -> [Node -> Values \cup {None}]]
    BY <1>0, <1>5, <2>2 DEF DropRows, TypeOK
  <2> QED
    BY <1>0, <1>5, <2>1, <2>3
    DEF DropRows, Typed, TypeOK, EventHasNode, TodoIsOfStage, memVars, preVars, pastVars
<1>6. CASE RowsRenamed
  <2>1. filled' \in BOOLEAN /\ pc' \in {"messages", "up"}
    BY <1>6 DEF RowsRenamed
  <2> QED
    BY <1>0, <1>6, <2>1
    DEF RowsRenamed, Typed, TypeOK, EventHasNode, TodoIsOfStage, Table, fileVars, memVars, preVars, pastVars
<1>7. CASE Backfill
  <2>1. refused' \in BOOLEAN /\ faults' \in 0 .. MaxFaults
    BY <1>0, <1>7, RefuseTypes DEF Backfill
  <2>2. log' \subseteq Table
    BY <1>0, <1>7 DEF Backfill, TypeOK
  <2>3. pc' \in {"telemetry_history", "location_history", "up"}
    BY <1>7 DEF Backfill, AfterTable, Table
  <2> QED
    BY <1>0, <1>7, <2>1, <2>2, <2>3
    DEF Backfill, Typed, TypeOK, EventHasNode, TodoIsOfStage, Table, memVars, preVars, pastVars
<1>8. CASE Stop
  <2>1. faults' \in 0 .. MaxFaults
    BY <1>0, <1>8, FaultTypes DEF Stop, TypeOK
  <2>2. ev' \in [Reader -> [at : {"idle", "named", "merged", "remembered"},
                            node : Node \cup {None}, vals : Values]]
    BY <1>8, Constants DEF Stop
  <2>3. EventHasNode'
    BY <1>8 DEF Stop, EventHasNode, Idle
  <2>4. {moved', refused', filled', gone'} \subseteq BOOLEAN
    BY <1>8 DEF Stop
  <2> QED
    BY <1>0, <1>8, <2>1, <2>2, <2>3, <2>4, Constants
    DEF Stop, Typed, TypeOK, TodoIsOfStage, fileVars
<1> QED
  BY <1>1, <1>2, <1>3, <1>4, <1>5, <1>6, <1>7, <1>8

\* The steps of a connecting thread and of load_offline_history.
LEMMA LoadTyped ==
    ASSUME Typed, LoadOffline \/ Connect \/ List \/ LoadRow \/ StoreRow \/ Loaded
           \/ Disconnect \/ Joined
    PROVE  Typed'
<1>0. TypeOK /\ EventHasNode /\ TodoIsOfStage
  BY DEF Typed
<1>1. CASE LoadOffline
  <2>1. offline' \in [Node -> Values]
    <3>1. PICK s \in Devices : offline' = [n \in Node |-> Over(RowOf(Mac, n), RowOf(s, n))]
      BY <1>1 DEF LoadOffline
    <3>2. \A n \in Node : Over(RowOf(Mac, n), RowOf(s, n)) \in Values
      BY <1>0, <3>1, RowTypes, OverTypes DEF TypeOK, Devices, Spelling
    <3> QED
      BY <3>1, <3>2
  <2> QED
    BY <1>0, <1>1, <2>1
    DEF LoadOffline, Typed, TypeOK, EventHasNode, TodoIsOfStage, fileVars, openVars, preVars, pastVars
<1>2. CASE Connect
  BY <1>0, <1>2
  DEF Connect, Typed, TypeOK, EventHasNode, TodoIsOfStage, fileVars, openVars, memVars, pastVars
<1>3. CASE List
  <2>1. left' \subseteq Node
    BY <1>3 DEF List
  <2> QED
    BY <1>0, <1>3, <2>1
    DEF List, Typed, TypeOK, EventHasNode, TodoIsOfStage, fileVars, openVars, memVars, pastVars
<1>4. CASE LoadRow
  <2>1. left' \subseteq Node
    BY <1>0, <1>4 DEF LoadRow, TypeOK
  <2>2. hand' \in [node : Node, vals : Values] \cup {None}
    BY <1>0, <1>4 DEF LoadRow, TypeOK, Spelling
  <2> QED
    BY <1>0, <1>4, <2>1, <2>2
    DEF LoadRow, Typed, TypeOK, EventHasNode, TodoIsOfStage, fileVars, openVars, memVars, pastVars
<1>5. CASE StoreRow
  <2>1. mem' \in [Node -> Values]
    <3>1. hand \in [node : Node, vals : Values]
      BY <1>0, <1>5 DEF StoreRow, TypeOK
    <3>2. Over(hand.vals, mem[hand.node]) \in Values
      BY <1>0, <3>1, OverTypes DEF TypeOK
    <3> QED
      BY <1>0, <1>5, <3>2 DEF StoreRow, TypeOK
  <2> QED
    BY <1>0, <1>5, <2>1
    DEF StoreRow, Typed, TypeOK, EventHasNode, TodoIsOfStage, fileVars, openVars, pastVars
<1>6. CASE Loaded
  BY <1>0, <1>6
  DEF Loaded, Typed, TypeOK, EventHasNode, TodoIsOfStage, fileVars, openVars, memVars, pastVars
<1>7. CASE Disconnect
  <2>1. faults' \in 0 .. MaxFaults
    BY <1>0, <1>7, FaultTypes DEF Disconnect
  <2> QED
    BY <1>0, <1>7, <2>1
    DEF Disconnect, Typed, TypeOK, EventHasNode, TodoIsOfStage, fileVars, openVars, memVars, pastVars
<1>8. CASE Joined
  BY <1>0, <1>8, Constants
  DEF Joined, Typed, TypeOK, EventHasNode, TodoIsOfStage, fileVars, openVars
<1> QED
  BY <1>1, <1>2, <1>3, <1>4, <1>5, <1>6, <1>7, <1>8

\* The steps of a reading thread.
LEMMA EventTyped ==
    ASSUME Typed, NEW r \in Reader,
           \/ \E n \in Node, given \in Frames : Hear(r, n, given)
           \/ Merge(r) \/ Remember(r) \/ Save(r)
    PROVE  Typed'
<1>0. TypeOK /\ EventHasNode /\ TodoIsOfStage
  BY DEF Typed
<1> DEFINE Handled == [at : {"idle", "named", "merged", "remembered"},
                       node : Node \cup {None}, vals : Values]
<1>1. ev \in [Reader -> Handled] /\ ev[r] \in Handled
  BY <1>0 DEF TypeOK
<1>2. ASSUME NEW n \in Node, NEW given \in Frames, Hear(r, n, given) PROVE Typed'
  <2>1. PICK vals \in Values :
           ev' = [ev EXCEPT ![r] = [at |-> "named", node |-> n, vals |-> vals]]
    BY <1>2, HearTypes
  <2>2. ev' \in [Reader -> Handled] /\ EventHasNode'
    BY <1>0, <1>1, <2>1 DEF EventHasNode
  <2>3. heard' \in [Node -> [Field -> Nat]]
    BY <1>2, HearTypes
  <2>4. raced' \subseteq Node
    BY <1>0, <1>2 DEF Hear, TypeOK
  <2>5. UNCHANGED <<way, fileVars, pc, openVars, memVars, preVars, faults, gone>>
    BY <1>2, Zenon DEF Hear
  <2> QED
    BY <1>0, <2>2, <2>3, <2>4, <2>5
    DEF Typed, TypeOK, TodoIsOfStage, fileVars, openVars, memVars, preVars, pastVars
<1>3. CASE Merge(r)
  <2>1. ev[r].node \in Node
    BY <1>0, <1>3 DEF Merge, EventHasNode
  <2>2. Merged(ev[r].vals, ev[r].node) \in Values
    BY <1>0, <1>1, <2>1, OverTypes DEF Merged, TypeOK
  <2>3. ev' \in [Reader -> Handled]
    BY <1>1, <1>3, <2>2 DEF Merge
  <2>4. EventHasNode'
    BY <1>0, <1>1, <1>3, <2>1 DEF Merge, EventHasNode
  <2> QED
    BY <1>0, <1>3, <2>3, <2>4
    DEF Merge, Typed, TypeOK, TodoIsOfStage, fileVars, openVars, memVars, preVars, pastVars
<1>4. CASE Remember(r)
  <2>1. ev[r].node \in Node
    BY <1>0, <1>4 DEF Remember, EventHasNode
  <2>2. Over(ev[r].vals, mem[ev[r].node]) \in Values
    BY <1>0, <1>1, <2>1, OverTypes DEF TypeOK
  <2>3. ev' \in [Reader -> Handled]
    BY <1>1, <1>4 DEF Remember
  <2>4. EventHasNode'
    BY <1>0, <1>1, <1>4, <2>1 DEF Remember, EventHasNode
  <2>5. mem' \in [Node -> Values]
    BY <1>0, <1>4, <2>2 DEF Remember, TypeOK
  <2> QED
    BY <1>0, <1>4, <2>3, <2>4, <2>5
    DEF Remember, Typed, TypeOK, TodoIsOfStage, fileVars, openVars, preVars, pastVars
<1>5. CASE Save(r)
  <2>0. ev' = [ev EXCEPT ![r] = Idle] /\ Idle.at = "idle"
    BY <1>5 DEF Save, Idle
  <2>1. ev' \in [Reader -> Handled] /\ EventHasNode'
    <3>1. Idle \in Handled
      BY Constants
    <3>2. ev' \in [Reader -> Handled]
      BY <1>1, <2>0, <3>1
    <3>3. \A q \in Reader : ev'[q] = IF q = r THEN Idle ELSE ev[q]
      BY <1>1, <2>0
    <3>4. EventHasNode'
      <4> SUFFICES ASSUME NEW q \in Reader, ev'[q].at # "idle" PROVE ev'[q].node \in Node
        BY DEF EventHasNode
      <4>1. q # r /\ ev'[q] = ev[q]
        BY <2>0, <3>3
      <4> QED
        BY <1>0, <4>1 DEF EventHasNode
    <3> QED
      BY <3>2, <3>4
  <2>2. rows' \in [Spelling -> [Node -> Values \cup {None}]]
    <3>1. ev[r].vals \in Values /\ rows \in [Spelling -> [Node -> Values \cup {None}]]
      BY <1>0, <1>1 DEF TypeOK
    <3>2. CASE rows' = [rows EXCEPT ![Mac][ev[r].node] = ev[r].vals]
      BY <3>1, <3>2
    <3>3. CASE UNCHANGED rows
      BY <3>1, <3>3
    <3> QED
      BY <1>5, <3>2, <3>3 DEF Save
  <2>3. faults' \in 0 .. MaxFaults
    BY <1>0, <1>5, FaultTypes DEF Save, TypeOK
  <2> QED
    BY <1>0, <1>5, <2>1, <2>2, <2>3
    DEF Save, Typed, TypeOK, TodoIsOfStage, openVars, memVars, preVars, pastVars
<1> QED
  BY <1>2, <1>3, <1>4, <1>5

LEMMA StepTyped == Typed /\ [Next]_vars => Typed'
<1> SUFFICES ASSUME Typed, [Next]_vars PROVE Typed'
  OBVIOUS
<1>1. CASE UNCHANGED vars
  BY <1>1 DEF vars, Typed, TypeOK, EventHasNode, TodoIsOfStage, fileVars, openVars,
     memVars, preVars, pastVars
<1> QED
  BY <1>1, OpenTyped, LoadTyped, EventTyped DEF Next

LEMMA TypedHolds == Spec => []Typed
  BY InitTyped, StepTyped, PTL DEF Spec

\* The variables of Store have their types.
THEOREM TypesKept == Spec => []TypeOK
  BY TypedHolds, PTL DEF Typed

-----------------------------------------------------------------------------
LEMMA InitOpen == Init => OpenInv
<1>1. Init => OpenSoFar /\ DropIsSafe
  BY DEF Init, OpenSoFar, DropIsSafe, Table
<1> QED
  BY <1>1, InitTyped DEF OpenInv

\* Outside of open, rows change only under the spelling in use, and no row
\* goes.
LEMMA RunningKeepsOpened ==
    ASSUME Typed,
           \/ LoadOffline \/ Connect \/ List \/ LoadRow \/ StoreRow \/ Loaded
           \/ Disconnect \/ Joined
           \/ \E r \in Reader :
                 \/ \E n \in Node, given \in Frames : Hear(r, n, given)
                 \/ Merge(r) \/ Remember(r) \/ Save(r)
           \/ UNCHANGED vars
    PROVE  /\ UNCHANGED <<history, log, pc, todo, cur, moved, refused, filled>>
           /\ \A s \in ToRename : rows'[s] = rows[s]
           /\ \A n \in Node : rows[Mac][n] # None => rows'[Mac][n] # None
<1>1. rows \in [Spelling -> [Node -> Values \cup {None}]] /\ Mac \in Spelling
  BY DEF Typed, TypeOK, Spelling
<1>2. ASSUME NEW r \in Reader, Save(r)
      PROVE  /\ UNCHANGED <<history, log, pc, todo, cur, moved, refused, filled>>
             /\ \A s \in ToRename : rows'[s] = rows[s]
             /\ \A n \in Node : rows[Mac][n] # None => rows'[Mac][n] # None
  <2>1. UNCHANGED <<history, log, pc, todo, cur, moved, refused, filled>>
    BY <1>2 DEF Save, openVars
  <2>2. CASE UNCHANGED rows
    BY <2>1, <2>2
  <2>3. CASE rows' = [rows EXCEPT ![Mac][ev[r].node] = ev[r].vals]
    <3>1. ev[r].vals # None
      BY <1>2, Constants DEF Typed, TypeOK
    <3>2. \A s \in ToRename : s \in Spelling /\ s # Mac
      BY Constants DEF ToRename, Spelling
    <3>3. \A s \in ToRename : rows'[s] = rows[s]
      BY <1>1, <2>3, <3>2
    <3>4. rows'[Mac] = [rows[Mac] EXCEPT ![ev[r].node] = ev[r].vals]
      BY <1>1, <2>3
    <3>5. \A n \in Node : rows[Mac][n] # None => rows'[Mac][n] # None
      BY <1>1, <3>1, <3>4
    <3> QED
      BY <2>1, <3>3, <3>5
  <2> QED
    BY <1>2, <2>2, <2>3 DEF Save
<1>3. ASSUME \/ LoadOffline \/ Connect \/ List \/ LoadRow \/ StoreRow \/ Loaded
           \/ Disconnect \/ Joined
             \/ UNCHANGED vars
      PROVE  UNCHANGED <<history, log, pc, todo, cur, moved, refused, filled, rows>>
  BY <1>3 DEF LoadOffline, Connect, List, LoadRow, StoreRow, Loaded, Disconnect,
     Joined, vars, fileVars, openVars
<1>4. ASSUME NEW r \in Reader,
             \/ \E n \in Node, given \in Frames : Hear(r, n, given)
             \/ Merge(r) \/ Remember(r)
      PROVE  UNCHANGED <<history, log, pc, todo, cur, moved, refused, filled, rows>>
  BY <1>4 DEF Hear, Merge, Remember, fileVars, openVars
<1> QED
  BY <1>2, <1>3, <1>4

LEMMA StepOpen == OpenInv /\ [Next]_vars => OpenInv'
<1> SUFFICES ASSUME OpenInv, [Next]_vars PROVE OpenSoFar' /\ DropIsSafe'
  BY StepTyped DEF OpenInv
<1>0. Typed /\ OpenSoFar /\ DropIsSafe
  BY DEF OpenInv
<1>1. CASE Open
  <2>1. /\ pc' = "history" /\ UNCHANGED history
        /\ todo' = {<<t, history[t]>> : t \in {u \in Table : history[u] \in ToRename}}
    BY <1>1 DEF Open, fileVars
  <2>2. \A t \in Table : history[t] # Mac => <<t, history[t]>> \in todo'
    BY <1>0, <2>1 DEF Typed, TypeOK, Spelling, ToRename
  <2> QED
    BY <2>1, <2>2 DEF OpenSoFar, DropIsSafe, Table
<1>2. CASE RenameHistory
  <2>1. pc = "history" /\ pc' = "history"
    BY <1>2 DEF RenameHistory
  <2>2. ~ refused' => \A t \in Table : history'[t] # Mac => <<t, history'[t]>> \in todo'
    <3> SUFFICES ASSUME ~ refused', NEW t \in Table, history'[t] # Mac
                 PROVE  <<t, history'[t]>> \in todo'
      OBVIOUS
    <3>1. PICK p \in todo : /\ todo' = todo \ {p}
                            /\ history' = [history EXCEPT ![p[1]] = Mac] /\ refused' = refused
      BY <1>2 DEF RenameHistory, Refuse
    <3>2. history \in [Table -> Spelling]
      BY <1>0 DEF Typed, TypeOK
    <3>3. t # p[1] /\ history'[t] = history[t]
      BY <3>1, <3>2
    <3>4. <<t, history[t]>> \in todo
      BY <1>0, <2>1, <3>1, <3>3 DEF OpenSoFar
    <3> QED
      BY <3>1, <3>3, <3>4
  <2> QED
    BY <2>1, <2>2 DEF OpenSoFar, DropIsSafe, Table
<1>3. CASE HistoryRenamed
  <2>1. /\ pc = "history" /\ todo = {} /\ pc' = "nodes"
        /\ todo' = {s \in ToRename : \E n \in Node : rows[s][n] # None}
        /\ UNCHANGED <<history, rows, refused>>
    BY <1>3 DEF HistoryRenamed, fileVars
  <2>2. ~ refused' => \A t \in Table : history'[t] = Mac
    BY <1>0, <2>1 DEF OpenSoFar
  <2> QED
    BY <2>1, <2>2 DEF OpenSoFar, DropIsSafe, Table
<1>4. CASE MoveRows
  <2>1. PICK s \in todo :
           /\ todo' = todo \ {s} /\ cur' = s
           /\ \/ rows' = Moved(s) /\ moved' = TRUE /\ UNCHANGED <<refused, faults>>
              \/ Refuse /\ moved' = FALSE /\ UNCHANGED rows
    BY <1>4 DEF MoveRows
  <2>2. pc = "nodes" /\ pc' = "drop" /\ UNCHANGED history
    BY <1>4 DEF MoveRows
  <2>3. s \in ToRename /\ s # Mac /\ s \in Spelling
    BY <1>0, <2>2, Constants DEF Typed, TodoIsOfStage, ToRename, Spelling
  <2>4. rows \in [Spelling -> [Node -> Values \cup {None}]]
    BY <1>0 DEF Typed, TypeOK
  <2>5. ~ refused' => rows' = Moved(s) /\ ~ refused
    BY <2>1 DEF Refuse
  <2>6. ~ refused' => \A t \in Table : history'[t] = Mac
    BY <1>0, <2>2, <2>5 DEF OpenSoFar
  <2>7. ~ refused' => \A u \in ToRename, n \in Node : rows'[u][n] # None => u \in todo' \/ cur' = u
    <3> SUFFICES ASSUME ~ refused', NEW u \in ToRename, NEW n \in Node,
                        rows'[u][n] # None, u # s
                 PROVE  u \in todo'
      BY <2>1
    <3>1. rows'[u] = rows[u]
      BY <2>3, <2>4, <2>5, MovedRows, Constants DEF ToRename, Spelling
    <3>2. u \in todo
      BY <1>0, <2>2, <2>5, <3>1 DEF OpenSoFar
    <3> QED
      BY <2>1, <3>2
  <2>8. moved' => \A n \in Node : rows'[cur'][n] # None => rows'[Mac][n] # None
    <3> SUFFICES ASSUME moved', NEW n \in Node, rows'[s][n] # None PROVE rows'[Mac][n] # None
      BY <2>1
    <3>1. rows' = Moved(s)
      BY <2>1
    <3>2. rows[s][n] # None
      BY <2>3, <2>4, <3>1, MovedRows
    <3> QED
      BY <2>3, <2>4, <3>1, <3>2, MovedRows
  <2> QED
    BY <2>2, <2>6, <2>7, <2>8 DEF OpenSoFar, DropIsSafe, Table
<1>5. CASE DropRows
  <2>1. /\ pc = "drop" /\ pc' = "nodes" /\ UNCHANGED <<history, todo>>
        /\ ~ refused' => ~ refused /\ rows' = [rows EXCEPT ![cur] = [n \in Node |-> None]]
    BY <1>5 DEF DropRows, Refuse
  <2>2. ~ refused' => \A t \in Table : history'[t] = Mac
    BY <1>0, <2>1 DEF OpenSoFar
  <2>3. rows \in [Spelling -> [Node -> Values \cup {None}]]
    BY <1>0 DEF Typed, TypeOK
  <2>4. ~ refused' => \A s \in ToRename, n \in Node : rows'[s][n] # None => s \in todo'
    <3> SUFFICES ASSUME ~ refused', NEW s \in ToRename, NEW n \in Node, rows'[s][n] # None
                 PROVE  s \in todo'
      OBVIOUS
    <3>1. s \in Spelling
      BY DEF ToRename, Spelling
    <3>2. s # cur
      BY <2>1, <2>3, <3>1
    <3>3. rows'[s] = rows[s]
      BY <2>1, <2>3, <3>1, <3>2
    <3> QED
      BY <1>0, <2>1, <3>2, <3>3 DEF OpenSoFar
  <2> QED
    BY <2>1, <2>2, <2>4 DEF OpenSoFar, DropIsSafe, Table
<1>6. CASE RowsRenamed
  <2>1. /\ pc = "nodes" /\ todo = {} /\ filled' = (log = {})
        /\ pc' = IF log = {} THEN "messages" ELSE "up"
        /\ UNCHANGED <<history, rows, refused>>
    BY <1>6 DEF RowsRenamed, fileVars
  <2>2. ~ refused' => \A t \in Table : history'[t] = Mac
    BY <1>0, <2>1 DEF OpenSoFar
  <2>3. ~ refused' => \A s \in ToRename, n \in Node : rows'[s][n] = None
    BY <1>0, <2>1 DEF OpenSoFar
  <2> QED
    BY <2>1, <2>2, <2>3 DEF OpenSoFar, DropIsSafe, Table
<1>7. CASE Backfill
  <2>1. /\ pc \in Table /\ pc' = AfterTable[pc] /\ UNCHANGED <<history, rows>>
        /\ ~ refused' => ~ refused /\ log' = log \cup {pc}
    BY <1>7 DEF Backfill, Refuse
  <2>2. ~ refused' => \A t \in Table : history'[t] = Mac
    BY <1>0, <2>1 DEF OpenSoFar, Table
  <2>3. ~ refused' => \A s \in ToRename, n \in Node : rows'[s][n] = None
    BY <1>0, <2>1 DEF OpenSoFar
  <2>4. log \subseteq Table
    BY <1>0 DEF Typed, TypeOK
  <2>5. \/ pc = "messages" /\ pc' = "telemetry_history"
        \/ pc = "telemetry_history" /\ pc' = "location_history"
        \/ pc = "location_history" /\ pc' = "up"
    BY <2>1 DEF AfterTable, Table
  <2>6. CASE pc = "messages" /\ pc' = "telemetry_history"
    BY <2>1, <2>2, <2>3, <2>6 DEF OpenSoFar, DropIsSafe, Table
  <2>7. CASE pc = "telemetry_history" /\ pc' = "location_history"
    <3>1. ~ refused' => {"messages", "telemetry_history"} \subseteq log'
      BY <1>0, <2>1, <2>7 DEF OpenSoFar
    <3> QED
      BY <2>2, <2>3, <2>7, <3>1 DEF OpenSoFar, DropIsSafe, Table
  <2>8. CASE pc = "location_history" /\ pc' = "up"
    <3>1. ~ refused' => {"messages", "telemetry_history"} \subseteq log
      BY <1>0, <2>1, <2>8 DEF OpenSoFar
    <3>2. ~ refused' => log' = Table
      BY <2>1, <2>4, <2>8, <3>1 DEF Table
    <3> QED
      BY <2>2, <2>3, <2>8, <3>2 DEF OpenSoFar, DropIsSafe, Table
  <2> QED
    BY <2>5, <2>6, <2>7, <2>8
<1>8. CASE Stop
  <2>1. pc' = "down"
    BY <1>8 DEF Stop
  <2> QED
    BY <2>1 DEF OpenSoFar, DropIsSafe, Table
<1>9. CASE \/ LoadOffline \/ Connect \/ List \/ LoadRow \/ StoreRow \/ Loaded
           \/ Disconnect \/ Joined
           \/ \E r \in Reader :
                 \/ \E n \in Node, given \in Frames : Hear(r, n, given)
                 \/ Merge(r) \/ Remember(r) \/ Save(r)
           \/ UNCHANGED vars
  <2>1. OpenSoFar'
    BY <1>0, <1>9, RunningKeepsOpened DEF OpenSoFar
  <2>2. DropIsSafe'
    BY <1>0, <1>9, RunningKeepsOpened DEF DropIsSafe, Typed, TodoIsOfStage
  <2> QED
    BY <2>1, <2>2
<1> QED
  BY <1>1, <1>2, <1>3, <1>4, <1>5, <1>6, <1>7, <1>8, <1>9 DEF Next

LEMMA OpenHolds == Spec => []OpenInv
  BY InitOpen, StepOpen, PTL DEF Spec

\* However often open was killed on the way, and whatever rows an earlier
\* version had left: when it is through and none of its statements was
\* refused, all rows are under the spelling in use, and a packet log that was
\* empty holds every table.
THEOREM OpensComplete == Spec => []OpenCompletes
<1>1. OpenInv => OpenCompletes
  <2> SUFFICES ASSUME OpenInv PROVE OpenCompletes
    OBVIOUS
  <2>1. \A s \in Spelling \ {Mac} : s \in ToRename
    BY DEF Spelling, ToRename
  <2> QED
    BY <2>1 DEF OpenInv, Typed, OpenSoFar, OpenCompletes, Table
<1> QED
  BY OpenHolds, <1>1, PTL

\* No node's rows vanish while the device's spellings are merged, killed or
\* not, unless the DELETE follows an UPDATE that was refused.
THEOREM NoRowsLost == Spec => LossOnlyAfterRefusal
<1> DEFINE Kept == \A n \in Node : HasRow(n) => HasRow(n)' \/ ~ moved
<1>1. ASSUME OpenInv, [Next]_vars PROVE Kept
  <2>0. Typed /\ DropIsSafe /\ rows \in [Spelling -> [Node -> Values \cup {None}]]
    BY <1>1 DEF OpenInv, Typed, TypeOK
  <2>1. CASE UNCHANGED rows
    BY <2>1 DEF HasRow
  <2>2. CASE MoveRows
    <3>1. PICK s \in todo : rows' = Moved(s) \/ UNCHANGED rows
      BY <2>2 DEF MoveRows
    <3>2. s \in ToRename /\ s \in Spelling /\ Mac \in Spelling
      BY <2>0, <2>2 DEF MoveRows, Typed, TodoIsOfStage, ToRename, Spelling
    <3>3. CASE rows' = Moved(s)
      BY <2>0, <3>2, <3>3, MovedRows DEF HasRow
    <3> QED
      BY <2>1, <3>1, <3>3
  <2>3. CASE DropRows
    <3> SUFFICES ASSUME NEW n \in Node, HasRow(n), moved PROVE HasRow(n)'
      OBVIOUS
    <3>1. pc = "drop" /\ cur \in ToRename /\ cur # Mac /\ Mac \in Spelling
      BY <2>0, <2>3, Constants DEF DropRows, Typed, TodoIsOfStage, ToRename, Spelling
    <3>2. CASE rows' = [rows EXCEPT ![cur] = [m \in Node |-> None]]
      <4>1. PICK s \in Spelling : rows[s][n] # None
        BY DEF HasRow
      <4>2. \A u \in Spelling \ {cur} : rows'[u] = rows[u]
        BY <2>0, <3>2
      <4>3. s = cur => rows[Mac][n] # None
        BY <2>0, <3>1, <4>1 DEF DropIsSafe
      <4> QED
        BY <3>1, <4>1, <4>2, <4>3 DEF HasRow
    <3> QED
      BY <2>1, <2>3, <3>2 DEF DropRows
  <2>4. ASSUME NEW r \in Reader, Save(r) PROVE Kept
    <3>1. /\ \A s \in ToRename : rows'[s] = rows[s]
          /\ \A n \in Node : rows[Mac][n] # None => rows'[Mac][n] # None
      BY <2>0, <2>4, RunningKeepsOpened
    <3> QED
      BY <3>1 DEF HasRow, Spelling, ToRename
  <2>5. \/ UNCHANGED rows \/ MoveRows \/ DropRows \/ \E r \in Reader : Save(r)
    BY <1>1 DEF Next, Open, RenameHistory, HistoryRenamed, RowsRenamed, Backfill, Stop,
       LoadOffline, Connect, List, LoadRow, StoreRow, Loaded, Disconnect, Joined, Hear, Merge, Remember,
       vars, fileVars
  <2> QED
    BY <2>1, <2>2, <2>3, <2>4, <2>5
<1> QED
  BY OpenHolds, <1>1, PTL DEF Spec, LossOnlyAfterRefusal

-----------------------------------------------------------------------------
(* The running program *)

\* Nothing kept anywhere is newer than what has been heard.
Bounded ==
    /\ \A s \in Spelling, n \in Node, f \in Field :
          rows[s][n] # None => Age(rows[s][n][f]) <= heard[n][f]
    /\ \A n \in Node, f \in Field : Age(mem[n][f]) <= heard[n][f]
    /\ hand # None => \A f \in Field : Age(hand.vals[f]) <= heard[hand.node][f]
    /\ \A r \in Reader : ev[r].at # "idle" =>
          \A f \in Field : Age(ev[r].vals[f]) <= heard[ev[r].node][f]

\* A device is connected after open, its rows are loaded after that, and
\* events come once the connecting thread has started it.
InOrder ==
    /\ pre # "no" => pc = "up"
    /\ hand # None => pre = "loading"
    /\ \A r \in Reader : ev[r].at # "idle" => pre # "no"

\* The row of node n has nothing newer than v.
Covers(v, n) == \A f \in Field : Age(RowOf(Mac, n)[f]) <= Age(v[f])

\* Of node n: what the disk has is also in memory once it is loaded, and an
\* event in progress, of which there is one and after the loading, brings
\* nothing older: at first in the fields it has a value of, with its second
\* look at memory in all of them.
NothingOlder(n) ==
    /\ \A r \in Reader : ev[r].at # "idle" /\ ev[r].node = n =>
          Settled(n) /\ \A q \in Reader \ {r} : ev[q].at = "idle" \/ ev[q].node # n
    /\ Settled(n) => Covers(mem[n], n)
    /\ hand # None /\ hand.node = n => Covers(hand.vals, n)
    /\ \A r \in Reader : ev[r].at = "named" /\ ev[r].node = n =>
          \A f \in Field : ev[r].vals[f] = 0 \/ Age(RowOf(Mac, n)[f]) <= Age(ev[r].vals[f])
    /\ \A r \in Reader : ev[r].at \in {"merged", "remembered"} /\ ev[r].node = n =>
          Covers(ev[r].vals, n)
    /\ \A r \in Reader : ev[r].at = "remembered" /\ ev[r].node = n =>
          \A f \in Field : Age(ev[r].vals[f]) <= Age(mem[n][f])

MemInv == Typed /\ Bounded /\ InOrder /\ \A n \in Node \ raced : NothingOlder(n)

-----------------------------------------------------------------------------
LEMMA AgeFacts ==
    /\ \A x \in Int : Age(x) \in Nat /\ (Age(x) = 0 <=> x = 0) /\ Age(-x) = Age(x)
    /\ \A x \in Nat : Age(x) = x
  BY DEF Age

LEMMA InitMem == Init => MemInv
<1> SUFFICES ASSUME Init PROVE Bounded /\ InOrder /\ \A n \in Node : NothingOlder(n)
  BY InitTyped DEF MemInv
<1>1. Bounded
  <2>1. heard = [n \in Node |-> Known] /\ mem = [n \in Node |-> Blank] /\ hand = None
    BY DEF Init, Nothing
  <2>2. \A s \in Spelling, n \in Node : rows[s][n] \in {Known, None}
    BY DEF Init
  <2>3. \A r \in Reader : ev[r].at = "idle"
    BY DEF Init, Idle
  <2>4. Age(0) = 0 /\ Age(1) = 1
    BY AgeFacts
  <2> QED
    BY <2>1, <2>2, <2>3, <2>4, Constants DEF Bounded
<1>2. InOrder /\ \A n \in Node : NothingOlder(n)
  <2>1. pre = "no" /\ hand = None /\ \A r \in Reader : ev[r].at = "idle"
    BY DEF Init, Idle
  <2> QED
    BY <2>1 DEF InOrder, NothingOlder, Settled
<1> QED
  BY <1>1, <1>2

\* While nothing is connected there is nothing to compare.
LEMMA NotConnected ==
    ASSUME pre = "no", InOrder, NEW n \in Node
    PROVE  NothingOlder(n)
  BY DEF InOrder, NothingOlder, Settled

\* The rows as they are compared.
LEMMA RowValues ==
    ASSUME Typed
    PROVE  /\ \A n \in Node, f \in Field : RowOf(Mac, n)[f] \in Int /\ Age(RowOf(Mac, n)[f]) \in Nat
           /\ \A n \in Node, f \in Field : mem[n][f] \in Int /\ Age(mem[n][f]) \in Nat
           /\ \A n \in Node, f \in Field : heard[n][f] \in Nat
           /\ Bounded => \A n \in Node, f \in Field : Age(RowOf(Mac, n)[f]) <= heard[n][f]
<1>1. \A n \in Node : RowOf(Mac, n) \in Values
  BY RowTypes DEF Typed, TypeOK, Spelling
<1>2. \A n \in Node : mem[n] \in Values /\ heard[n] \in [Field -> Nat]
  BY DEF Typed, TypeOK
<1>3. \A n \in Node, f \in Field : RowOf(Mac, n)[f] \in Int /\ Age(RowOf(Mac, n)[f]) \in Nat
  BY <1>1, AgeFacts DEF Values
<1>4. \A n \in Node, f \in Field : mem[n][f] \in Int /\ Age(mem[n][f]) \in Nat /\ heard[n][f] \in Nat
  BY <1>2, AgeFacts DEF Values
<1>5. Bounded => \A n \in Node, f \in Field : Age(RowOf(Mac, n)[f]) <= heard[n][f]
  <2> SUFFICES ASSUME Bounded, NEW n \in Node, NEW f \in Field
               PROVE  Age(RowOf(Mac, n)[f]) <= heard[n][f]
    OBVIOUS
  <2>1. CASE rows[Mac][n] = None
    BY <1>4, <2>1, Constants, AgeFacts DEF RowOf
  <2>2. CASE rows[Mac][n] # None
    BY <2>2 DEF Bounded, RowOf, Spelling
  <2> QED
    BY <2>1, <2>2
<1> QED
  BY <1>3, <1>4, <1>5

\* The fields of what is in hand and of an event are numbers.
LEMMA HandValues ==
    ASSUME Typed
    PROVE  /\ hand # None => hand.node \in Node
                             /\ \A f \in Field : hand.vals[f] \in Int /\ Age(hand.vals[f]) \in Nat
           /\ \A r \in Reader, f \in Field :
                 ev[r].vals[f] \in Int /\ Age(ev[r].vals[f]) \in Nat
           /\ \A r \in Reader : ev[r].at # "idle" => ev[r].node \in Node
<1>1. hand # None => hand.node \in Node /\ hand.vals \in Values
  BY DEF Typed, TypeOK
<1>2. \A r \in Reader : ev[r].vals \in Values /\ (ev[r].at # "idle" => ev[r].node \in Node)
  BY DEF Typed, TypeOK, EventHasNode
<1> QED
  BY <1>1, <1>2, AgeFacts DEF Values

\* What a node's state depends on.
LEMMA SameNode ==
    ASSUME NEW n \in Node, NothingOlder(n),
           RowOf(Mac, n)' = RowOf(Mac, n), mem'[n] = mem[n],
           hand' = hand, Settled(n)' = Settled(n),
           \A r \in Reader : \/ ev'[r] = ev[r]
                             \/ (ev'[r].at = "idle" \/ ev'[r].node # n)
    PROVE  NothingOlder(n)'
<1>1. /\ \A f \in Field : RowOf(Mac, n)'[f] = RowOf(Mac, n)[f]
      /\ Settled(n)' = Settled(n)
  OBVIOUS
<1>2. \A r \in Reader : ev'[r].at # "idle" /\ ev'[r].node = n =>
         Settled(n)' /\ \A q \in Reader \ {r} : ev'[q].at = "idle" \/ ev'[q].node # n
  BY <1>1 DEF NothingOlder
<1>3. \A v : Covers(v, n) => (\A f \in Field : Age(RowOf(Mac, n)'[f]) <= Age(v[f]))
  BY <1>1 DEF Covers
<1>4. Settled(n)' => Covers(mem[n], n)
  BY <1>1 DEF NothingOlder
<1>5. hand' # None /\ hand'.node = n => Covers(hand'.vals, n)
  BY DEF NothingOlder
<1>6. \A r \in Reader :
         /\ ev'[r].at = "named" /\ ev'[r].node = n =>
               \A f \in Field : ev'[r].vals[f] = 0 \/ Age(RowOf(Mac, n)[f]) <= Age(ev'[r].vals[f])
         /\ ev'[r].at \in {"merged", "remembered"} /\ ev'[r].node = n => Covers(ev'[r].vals, n)
         /\ ev'[r].at = "remembered" /\ ev'[r].node = n =>
               \A f \in Field : Age(ev'[r].vals[f]) <= Age(mem[n][f])
  BY DEF NothingOlder
<1> QED
  BY <1>1, <1>2, <1>3, <1>4, <1>5, <1>6 DEF NothingOlder, Covers

\* open runs while nothing is connected, and copies or deletes rows.
LEMMA OpenKeepsMem ==
    ASSUME MemInv,
           \/ Open \/ RenameHistory \/ HistoryRenamed \/ MoveRows \/ DropRows
           \/ RowsRenamed \/ Backfill \/ Stop
    PROVE  MemInv'
<1>0. Typed /\ Bounded /\ InOrder /\ Typed'
  BY OpenTyped DEF MemInv
<1>1. CASE Stop
  <2>1. /\ pre' = "no" /\ hand' = None /\ mem' = Nothing /\ UNCHANGED <<rows, heard>>
        /\ \A r \in Reader : ev'[r].at = "idle"
    BY <1>1 DEF Stop, fileVars, Idle
  <2>2. InOrder'
    BY <2>1 DEF InOrder
  <2>3. Bounded'
    <3>1. \A n \in Node, f \in Field : mem'[n][f] = 0 /\ heard[n][f] \in Nat /\ Age(0) = 0
      BY <1>0, <2>1, RowValues, Constants, AgeFacts DEF Nothing
    <3> QED
      BY <1>0, <2>1, <3>1 DEF Bounded
  <2>4. \A n \in Node : NothingOlder(n)'
    BY <2>1 DEF NothingOlder, Settled
  <2> QED
    BY <1>0, <2>2, <2>3, <2>4 DEF MemInv
<1>2. CASE \/ Open \/ RenameHistory \/ HistoryRenamed \/ MoveRows \/ DropRows
           \/ RowsRenamed \/ Backfill
  <2>1. pc # "up" /\ UNCHANGED <<way, memVars, preVars, ev, pastVars>>
    BY <1>2 DEF Open, RenameHistory, HistoryRenamed, MoveRows, DropRows, RowsRenamed,
       Backfill, Table
  <2>2. pre = "no" /\ pre' = "no"
    BY <1>0, <2>1 DEF InOrder, preVars
  <2>3. InOrder'
    BY <1>0, <2>1, <2>2 DEF InOrder, preVars
  <2>4. \A n \in Node : NothingOlder(n)'
    BY <2>2, <2>3 DEF InOrder, NothingOlder, Settled
  <2>5. \A s \in Spelling, n \in Node :
           rows'[s][n] # None => \E u \in Spelling : rows[u][n] # None /\ rows'[s][n] = rows[u][n]
    <3>1. CASE UNCHANGED rows
      BY <3>1
    <3>2. CASE MoveRows
      <4>1. PICK s \in todo : rows' = Moved(s) \/ UNCHANGED rows
        BY <3>2 DEF MoveRows
      <4>2. s \in ToRename /\ rows \in [Spelling -> [Node -> Values \cup {None}]]
        BY <1>0, <3>2 DEF MoveRows, Typed, TypeOK, TodoIsOfStage
      <4> QED
        BY <3>1, <4>1, <4>2, MovedFrom
    <3>3. CASE DropRows
      <4>1. rows \in [Spelling -> [Node -> Values \cup {None}]]
        BY <1>0 DEF Typed, TypeOK
      <4>2. CASE rows' = [rows EXCEPT ![cur] = [n \in Node |-> None]]
        <5>1. \A s \in Spelling, n \in Node : rows'[s][n] # None => rows'[s] = rows[s]
          BY <4>1, <4>2
        <5> QED
          BY <5>1
      <4> QED
        BY <3>1, <3>3, <4>2 DEF DropRows
    <3> QED
      BY <1>2, <3>1, <3>2, <3>3
      DEF Open, RenameHistory, HistoryRenamed, RowsRenamed, Backfill, fileVars
  <2>6. Bounded'
    BY <1>0, <2>1, <2>5 DEF Bounded, memVars, preVars, pastVars
  <2> QED
    BY <1>0, <2>1, <2>3, <2>4, <2>6 DEF MemInv
<1> QED
  BY <1>1, <1>2

\* A step that touches neither rows, memory nor events, and brings no node's
\* row into memory.
LEMMA NothingRead ==
    ASSUME MemInv, Typed', UNCHANGED <<way, pc, rows, mem, ev, hand, heard>>,
           raced' = raced, pre' # "no", pc = "up",
           hand # None => pre' = "loading",
           \A n \in Node : Settled(n)' = Settled(n)
    PROVE  MemInv'
<1>0. Typed /\ Bounded /\ InOrder
  BY DEF MemInv
<1>1. Bounded' /\ InOrder'
  BY <1>0 DEF Bounded, InOrder
<1>2. ASSUME NEW n \in Node, n \notin raced' PROVE NothingOlder(n)'
  <2>1. NothingOlder(n) /\ Settled(n)' = Settled(n) /\ RowOf(Mac, n)' = RowOf(Mac, n)
    BY <1>2 DEF MemInv, RowOf
  <2> QED
    BY <2>1, SameNode
<1> QED
  BY <1>1, <1>2 DEF MemInv

\* The connecting thread: what it loads, the disk has.
LEMMA LoadKeepsMem ==
    ASSUME MemInv, LoadOffline \/ Connect \/ List \/ LoadRow \/ StoreRow \/ Loaded
                   \/ Disconnect \/ Joined
    PROVE  MemInv'
<1>0. /\ Typed /\ Bounded /\ InOrder /\ Typed'
      /\ \A n \in Node \ raced : NothingOlder(n)
  BY LoadTyped DEF MemInv
<1>1. CASE LoadOffline
  <2>1. UNCHANGED <<way, pc, rows, mem, pre, left, hand, ev, raced, heard>>
    BY <1>1 DEF LoadOffline, fileVars, preVars, pastVars
  <2>2. Bounded' /\ InOrder'
    BY <1>0, <2>1 DEF Bounded, InOrder
  <2>3. ASSUME NEW n \in Node \ raced' PROVE NothingOlder(n)'
    <3>1. Settled(n)' = Settled(n) /\ RowOf(Mac, n)' = RowOf(Mac, n) /\ NothingOlder(n) /\ n \in Node
      BY <1>0, <2>1, <2>3 DEF Settled, RowOf
    <3> QED
      BY <2>1, <3>1, SameNode
  <2> QED
    BY <1>0, <2>2, <2>3 DEF MemInv
<1>2. CASE Connect
  <2>1. /\ pc = "up" /\ pre = "no" /\ pre' = "started"
        /\ UNCHANGED <<way, pc, rows, mem, left, hand, ev, raced, heard>>
    BY <1>2 DEF Connect, fileVars, memVars, pastVars
  <2>2. \A n \in Node : Settled(n)' = Settled(n)
    BY <2>1 DEF Settled
  <2>3. hand = None
    BY <1>0, <2>1 DEF InOrder
  <2> QED
    BY <1>0, <2>1, <2>2, <2>3, NothingRead
<1>3. CASE List
  <2>1. /\ pre = "started" /\ pre' = "loading"
        /\ UNCHANGED <<way, pc, rows, mem, hand, ev, raced, heard>>
        /\ way = "id" => left' = Node
    BY <1>3 DEF List, fileVars, memVars, pastVars
  <2>2. pc = "up"
    BY <1>0, <2>1 DEF InOrder
  <2>3. \A n \in Node : Settled(n)' = Settled(n)
    BY <2>1 DEF Settled
  <2> QED
    BY <1>0, <2>1, <2>2, <2>3, NothingRead
<1>4. CASE LoadRow
  <2>1. PICK n \in left : /\ left' = left \ {n}
                          /\ hand' = IF rows[Mac][n] = None THEN None
                                     ELSE [node |-> n, vals |-> rows[Mac][n]]
    BY <1>4 DEF LoadRow
  <2>2. pre = "loading" /\ hand = None /\ UNCHANGED <<way, pc, rows, mem, pre, ev, raced, heard>>
    BY <1>4 DEF LoadRow, fileVars, memVars, pastVars
  <2>3. n \in Node
    BY <1>0, <2>1 DEF Typed, TypeOK
  <2>4. CASE rows[Mac][n] = None
    <3>1. hand' = None
      BY <2>1, <2>4
    <3>2. Bounded' /\ InOrder'
      BY <1>0, <2>2, <3>1 DEF Bounded, InOrder
    <3>3. ASSUME NEW m \in Node \ raced', m # n PROVE NothingOlder(m)'
      <4>1. Settled(m)' = Settled(m) /\ RowOf(Mac, m)' = RowOf(Mac, m) /\ NothingOlder(m) /\ m \in Node
        BY <1>0, <2>1, <2>2, <3>1, <3>3 DEF Settled, RowOf
      <4> QED
        BY <2>2, <3>1, <4>1, SameNode
    <3>4. ASSUME n \notin raced' PROVE NothingOlder(n)'
      <4>1. NothingOlder(n) /\ ~ Settled(n)
        BY <1>0, <2>1, <2>2, <2>3, <3>4 DEF Settled
      <4>2. \A r \in Reader : ev[r].at = "idle" \/ ev[r].node # n
        BY <4>1 DEF NothingOlder
      <4>3. Covers(mem[n], n)
        <5>1. \A f \in Field : Age(RowOf(Mac, n)[f]) = 0 /\ Age(mem[n][f]) \in Nat
          BY <1>0, <2>3, <2>4, Constants, RowValues, AgeFacts DEF RowOf
        <5> QED
          BY <5>1 DEF Covers
      <4>4. Covers(mem[n], n)'
        BY <2>2, <4>3 DEF Covers, RowOf
      <4> QED
        BY <2>2, <3>1, <4>2, <4>4 DEF NothingOlder
    <3> QED
      BY <1>0, <3>2, <3>3, <3>4 DEF MemInv
  <2>5. CASE rows[Mac][n] # None
    <3>1. /\ hand'.node = n /\ hand'.vals = rows[Mac][n] /\ hand' # None
          /\ RowOf(Mac, n) = rows[Mac][n]
      <4>1. hand' = [node |-> n, vals |-> rows[Mac][n]]
        BY <2>1, <2>5
      <4>2. hand' \in [node : Node, vals : Values]
        BY <1>0, <2>3, <2>5, <4>1 DEF Typed, TypeOK, Spelling
      <4> QED
        BY <2>5, <4>1, <4>2, Constants DEF RowOf
    <3>2. Bounded' /\ InOrder'
      BY <1>0, <2>2, <2>3, <3>1, RowValues DEF Bounded, InOrder
    <3>3. ASSUME NEW m \in Node \ raced', m # n PROVE NothingOlder(m)'
      <4>1. Settled(m)' = Settled(m) /\ NothingOlder(m)
        BY <1>0, <2>1, <2>2, <3>1, <3>3 DEF Settled
      <4>2. hand'.node # m
        BY <3>1, <3>3
      <4> QED
        BY <2>2, <4>1, <4>2 DEF NothingOlder, Covers, RowOf
    <3>4. ASSUME n \notin raced' PROVE NothingOlder(n)'
      <4>1. NothingOlder(n) /\ ~ Settled(n) /\ ~ Settled(n)'
        BY <1>0, <2>1, <2>2, <2>3, <3>1, <3>4 DEF Settled
      <4>2. \A r \in Reader : ev[r].at = "idle" \/ ev[r].node # n
        BY <4>1 DEF NothingOlder
      <4>3. \A f \in Field : Age(RowOf(Mac, n)'[f]) <= Age(hand'.vals[f])
        <5>1. \A f \in Field : Age(RowOf(Mac, n)[f]) \in Nat
          BY <1>0, <2>3, RowValues
        <5>2. RowOf(Mac, n)' = RowOf(Mac, n)
          BY <2>2 DEF RowOf
        <5> QED
          BY <3>1, <5>1, <5>2
      <4> QED
        BY <2>2, <4>1, <4>2, <4>3 DEF NothingOlder, Covers
    <3> QED
      BY <1>0, <3>2, <3>3, <3>4 DEF MemInv
  <2> QED
    BY <2>4, <2>5
<1>5. CASE StoreRow
  <2>1. /\ hand # None /\ hand' = None /\ pre = "loading"
        /\ mem' = [mem EXCEPT ![hand.node] = Over(hand.vals, mem[hand.node])]
        /\ UNCHANGED <<way, pc, rows, pre, left, ev, raced, heard>>
    BY <1>0, <1>5 DEF StoreRow, InOrder, fileVars, pastVars
  <2>n. PICK n \in Node : n = hand.node
    BY <1>0, <2>1 DEF Typed, TypeOK
  <2>2. n \in Node /\ hand.vals \in Values /\ mem \in [Node -> Values]
    BY <1>0, <2>1 DEF Typed, TypeOK
  <2>3. /\ \A f \in Field : mem'[n][f] = IF hand.vals[f] # 0 THEN hand.vals[f] ELSE mem[n][f]
        /\ \A m \in Node \ {n} : mem'[m] = mem[m]
    BY <2>1, <2>n, <2>2, OverTypes
  <2>4. Bounded'
    <3>1. \A m \in Node, f \in Field : Age(mem'[m][f]) <= heard[m][f]
      BY <1>0, <2>1, <2>n, <2>2, <2>3 DEF Bounded
    <3> QED
      BY <1>0, <2>1, <3>1 DEF Bounded
  <2>5. InOrder'
    BY <1>0, <2>1 DEF InOrder
  <2>6. ASSUME NEW m \in Node \ raced', m # n PROVE NothingOlder(m)'
    <3>1. Settled(m)' = Settled(m) /\ NothingOlder(m)
      BY <1>0, <2>1, <2>n, <2>6 DEF Settled
    <3> QED
      BY <2>1, <2>3, <2>6, <3>1 DEF NothingOlder, Covers, RowOf
  <2>7. ASSUME n \notin raced' PROVE NothingOlder(n)'
    <3>1. NothingOlder(n) /\ ~ Settled(n)
      BY <1>0, <2>1, <2>n, <2>7 DEF Settled
    <3>2. \A r \in Reader : ev[r].at = "idle" \/ ev[r].node # n
      BY <3>1 DEF NothingOlder
    <3>3. \A f \in Field : Age(RowOf(Mac, n)[f]) <= Age(mem'[n][f])
      <4> SUFFICES ASSUME NEW f \in Field PROVE Age(RowOf(Mac, n)[f]) <= Age(mem'[n][f])
        OBVIOUS
      <4>1. Age(RowOf(Mac, n)[f]) <= Age(hand.vals[f])
        BY <2>1, <2>n, <3>1 DEF NothingOlder, Covers
      <4>2. /\ Age(RowOf(Mac, n)[f]) \in Nat /\ Age(mem[n][f]) \in Nat
            /\ hand.vals[f] = 0 => Age(hand.vals[f]) = 0
        BY <1>0, <2>2, RowValues, AgeFacts
      <4> QED
        BY <2>3, <4>1, <4>2
    <3>4. RowOf(Mac, n)' = RowOf(Mac, n)
      BY <2>1 DEF RowOf
    <3> QED
      BY <2>1, <3>2, <3>3, <3>4 DEF NothingOlder, Covers
  <2> QED
    BY <1>0, <2>4, <2>5, <2>6, <2>7 DEF MemInv
<1>6. CASE Loaded
  <2>1. /\ pre = "loading" /\ left = {} /\ hand = None /\ pre' = "done"
        /\ UNCHANGED <<way, pc, rows, mem, left, hand, ev, raced, heard>>
    BY <1>6 DEF Loaded, fileVars, memVars, pastVars
  <2>2. pc = "up" /\ \A n \in Node : Settled(n)' = Settled(n)
    BY <1>0, <2>1 DEF InOrder, Settled
  <2> QED
    BY <1>0, <2>1, <2>2, NothingRead
<1>7. CASE Disconnect
  <2>1. /\ pre = "done" /\ pre' = "leaving"
        /\ UNCHANGED <<way, pc, rows, mem, left, hand, ev, raced, heard>>
    BY <1>7 DEF Disconnect, fileVars, memVars
  <2>2. pc = "up" /\ hand = None /\ \A n \in Node : Settled(n)' = Settled(n)
    BY <1>0, <2>1 DEF InOrder, Settled
  <2> QED
    BY <1>0, <2>1, <2>2, NothingRead
<1>8. CASE Joined
  <2>1. /\ pre = "leaving" /\ pre' = "no" /\ mem' = Nothing
        /\ UNCHANGED <<pc, rows, hand, ev, heard>>
        /\ \A r \in Reader : ev[r].at = "idle"
    BY <1>8 DEF Joined, fileVars
  <2>2. hand = None
    BY <1>0, <2>1 DEF InOrder
  <2>3. Bounded'
    <3>1. \A n \in Node, f \in Field : mem'[n][f] = 0 /\ heard[n][f] \in Nat /\ Age(0) = 0
      BY <1>0, <2>1, RowValues, Constants, AgeFacts DEF Nothing
    <3> QED
      BY <1>0, <2>1, <3>1 DEF Bounded
  <2>4. InOrder'
    BY <1>0, <2>1, <2>2 DEF InOrder
  <2>5. \A n \in Node : NothingOlder(n)'
    BY <2>1, <2>2 DEF NothingOlder, Settled
  <2> QED
    BY <1>0, <2>3, <2>4, <2>5 DEF MemInv
<1> QED
  BY <1>1, <1>2, <1>3, <1>4, <1>5, <1>6, <1>7, <1>8

-----------------------------------------------------------------------------
\* An event begins: what it gives is newer than all that is kept, and the
\* name it may take from memory is not older than the row's.
LEMMA HearKeepsMem ==
    ASSUME MemInv, NEW r \in Reader, NEW n \in Node, NEW given \in Frames, Hear(r, n, given)
    PROVE  MemInv'
<1>0. /\ Typed /\ Bounded /\ InOrder /\ Typed'
      /\ \A m \in Node \ raced : NothingOlder(m)
  BY EventTyped DEF MemInv
<1>1. /\ pre # "no" /\ ev[r].at = "idle"
      /\ UNCHANGED <<way, pc, rows, mem, pre, left, hand>>
      /\ raced \subseteq raced'
      /\ n \notin raced' => Settled(n) /\ ~ Busy(n)
  BY DEF Hear, fileVars, memVars, preVars
<1>2. PICK vals \in Values :
         /\ ev' = [ev EXCEPT ![r] = [at |-> "named", node |-> n, vals |-> vals]]
         /\ \A f \in Field :
               IF given[f] = "no" THEN vals[f] = IF f = "name" THEN mem[n][f] ELSE 0
               ELSE /\ vals[f] \in {heard'[n][f], -heard'[n][f]}
                    /\ heard'[n][f] = heard[n][f] + 1
  BY <1>0, HearTypes
<1>3. /\ ev'[r].at = "named" /\ ev'[r].node = n /\ ev'[r].vals = vals
      /\ \A q \in Reader \ {r} : ev'[q] = ev[q]
  BY <1>0, <1>2 DEF Typed, TypeOK
<1>4. /\ \A m \in Node, f \in Field : heard[m][f] <= heard'[m][f]
      /\ \A m \in Node, f \in Field : heard[m][f] \in Nat /\ heard'[m][f] \in Nat
  <2>1. heard' \in [Node -> [Field -> Nat]]
    BY <1>0, HearTypes
  <2> QED
    BY <1>0, <2>1, HearTypes, RowValues
<1>5. \A f \in Field : \/ given[f] = "no" /\ vals[f] = IF f = "name" THEN mem[n][f] ELSE 0
                       \/ given[f] # "no" /\ Age(vals[f]) = heard[n][f] + 1
                          /\ heard'[n][f] = heard[n][f] + 1
  <2> SUFFICES ASSUME NEW f \in Field, given[f] # "no"
               PROVE  /\ Age(vals[f]) = heard[n][f] + 1
                      /\ heard'[n][f] = heard[n][f] + 1
    BY <1>2
  <2>1. vals[f] \in {heard'[n][f], -heard'[n][f]} /\ heard'[n][f] = heard[n][f] + 1
    BY <1>2
  <2>2. heard'[n][f] \in Nat
    BY <1>4
  <2>3. heard'[n][f] \in Int /\ Age(heard'[n][f]) = heard'[n][f]
    BY <2>2, AgeFacts
  <2>4. Age(-heard'[n][f]) = heard'[n][f]
    BY <2>3, AgeFacts
  <2> QED
    BY <2>1, <2>3, <2>4
<1>6. \A f \in Field : Age(vals[f]) <= heard'[n][f]
  <2> SUFFICES ASSUME NEW f \in Field PROVE Age(vals[f]) <= heard'[n][f]
    OBVIOUS
  <2>1. Age(mem[n][f]) <= heard[n][f] /\ Age(mem[n][f]) \in Nat /\ Age(0) = 0
    BY <1>0, RowValues, AgeFacts DEF Bounded
  <2>2. heard[n][f] <= heard'[n][f] /\ heard[n][f] \in Nat /\ heard'[n][f] \in Nat
    BY <1>4
  <2> QED
    BY <1>5, <2>1, <2>2
<1>7. Bounded'
  <2>1. \A s \in Spelling, m \in Node, f \in Field :
           rows[s][m] # None => Age(rows[s][m][f]) <= heard'[m][f]
    <3> SUFFICES ASSUME NEW s \in Spelling, NEW m \in Node, NEW f \in Field, rows[s][m] # None
                 PROVE  Age(rows[s][m][f]) <= heard'[m][f]
      OBVIOUS
    <3>1. rows[s][m] \in Values
      BY <1>0 DEF Typed, TypeOK
    <3>2. Age(rows[s][m][f]) \in Nat
      BY <3>1, AgeFacts DEF Values
    <3>3. Age(rows[s][m][f]) <= heard[m][f]
      BY <1>0 DEF Bounded
    <3> QED
      BY <1>4, <3>2, <3>3
  <2>2. \A m \in Node, f \in Field : Age(mem[m][f]) <= heard'[m][f]
    <3> SUFFICES ASSUME NEW m \in Node, NEW f \in Field PROVE Age(mem[m][f]) <= heard'[m][f]
      OBVIOUS
    <3>1. Age(mem[m][f]) <= heard[m][f] /\ Age(mem[m][f]) \in Nat
      BY <1>0, RowValues DEF Bounded
    <3> QED
      BY <1>4, <3>1
  <2>3. hand # None => \A f \in Field : Age(hand.vals[f]) <= heard'[hand.node][f]
    <3> SUFFICES ASSUME hand # None, NEW f \in Field
                 PROVE  Age(hand.vals[f]) <= heard'[hand.node][f]
      OBVIOUS
    <3>1. hand.node \in Node /\ Age(hand.vals[f]) \in Nat
      BY <1>0, HandValues
    <3>2. Age(hand.vals[f]) <= heard[hand.node][f]
      BY <1>0 DEF Bounded
    <3> QED
      BY <1>4, <3>1, <3>2
  <2>4. \A q \in Reader : ev'[q].at # "idle" =>
           \A f \in Field : Age(ev'[q].vals[f]) <= heard'[ev'[q].node][f]
    <3> SUFFICES ASSUME NEW q \in Reader, ev'[q].at # "idle", NEW f \in Field, q # r
                 PROVE  Age(ev[q].vals[f]) <= heard'[ev[q].node][f]
      BY <1>3, <1>6
    <3>1. ev[q].node \in Node /\ Age(ev[q].vals[f]) \in Nat /\ ev[q].at # "idle"
      BY <1>0, <1>3, HandValues
    <3>2. Age(ev[q].vals[f]) <= heard[ev[q].node][f]
      BY <1>0, <3>1 DEF Bounded
    <3> QED
      BY <1>4, <3>1, <3>2
  <2> QED
    BY <1>1, <2>1, <2>2, <2>3, <2>4 DEF Bounded
<1>8. InOrder'
  BY <1>0, <1>1, <1>3 DEF InOrder
<1>9. ASSUME NEW m \in Node \ raced', m # n PROVE NothingOlder(m)'
  <2>1. NothingOlder(m) /\ m \in Node
    BY <1>0, <1>1, <1>9
  <2>2. Settled(m)' = Settled(m) /\ RowOf(Mac, m)' = RowOf(Mac, m)
    BY <1>1 DEF Settled, RowOf
  <2>3. \A q \in Reader : ev'[q] = ev[q] \/ ev'[q].node # m
    BY <1>3, <1>9
  <2> QED
    BY <1>1, <2>1, <2>2, <2>3, SameNode
<1>10. ASSUME n \notin raced' PROVE NothingOlder(n)'
  <2>1. NothingOlder(n) /\ Settled(n) /\ \A q \in Reader : ev[q].at = "idle" \/ ev[q].node # n
    BY <1>0, <1>1, <1>10 DEF Busy
  <2>2. Settled(n)' /\ RowOf(Mac, n)' = RowOf(Mac, n)
    BY <1>1, <2>1 DEF Settled, RowOf
  <2>3. Covers(mem[n], n)
    BY <2>1 DEF NothingOlder
  <2>4. \A f \in Field : vals[f] = 0 \/ Age(RowOf(Mac, n)[f]) <= Age(vals[f])
    <3> SUFFICES ASSUME NEW f \in Field, vals[f] # 0 PROVE Age(RowOf(Mac, n)[f]) <= Age(vals[f])
      OBVIOUS
    <3>1. Age(RowOf(Mac, n)[f]) <= heard[n][f] /\ Age(RowOf(Mac, n)[f]) \in Nat
      BY <1>0, RowValues
    <3>2. Age(RowOf(Mac, n)[f]) <= Age(mem[n][f])
      BY <2>3 DEF Covers
    <3>3. heard[n][f] \in Nat
      BY <1>4
    <3> QED
      BY <1>5, <3>1, <3>2, <3>3
  <2>5. \A q \in Reader \ {r} : ev'[q].at = "idle" \/ ev'[q].node # n
    BY <1>3, <2>1
  <2>6. Covers(mem[n], n)' /\ \A f \in Field : vals[f] = 0 \/ Age(RowOf(Mac, n)'[f]) <= Age(vals[f])
    BY <1>1, <2>2, <2>3, <2>4 DEF Covers
  <2>7. hand' # None => hand'.node # n
    BY <1>1, <2>1 DEF Settled
  <2> QED
    BY <1>3, <2>2, <2>5, <2>6, <2>7 DEF NothingOlder
<1> QED
  BY <1>0, <1>7, <1>8, <1>9, <1>10 DEF MemInv

\* The second look at memory fills in the fields without a value.
LEMMA MergeKeepsMem ==
    ASSUME MemInv, NEW r \in Reader, Merge(r)
    PROVE  MemInv'
<1>0. /\ Typed /\ Bounded /\ InOrder /\ Typed'
      /\ \A m \in Node \ raced : NothingOlder(m)
  BY EventTyped DEF MemInv
<1>1. ev[r].at = "named" /\ UNCHANGED <<way, pc, rows, mem, pre, left, hand, raced, heard>>
  BY DEF Merge, fileVars, memVars, preVars, pastVars
<1>n. PICK n \in Node : n = ev[r].node
  BY <1>0, <1>1 DEF Typed, EventHasNode
<1>2. ev[r].vals \in Values /\ mem[n] \in Values
  BY <1>0, <1>1 DEF Typed, TypeOK
<1>3. /\ ev'[r].at = "merged" /\ ev'[r].node = n
      /\ ev'[r].vals = Over(ev[r].vals, mem[n])
      /\ \A q \in Reader \ {r} : ev'[q] = ev[q]
  BY <1>0, <1>n DEF Merge, Merged, Typed, TypeOK
<1>4. \A f \in Field : ev'[r].vals[f] = IF ev[r].vals[f] # 0 THEN ev[r].vals[f] ELSE mem[n][f]
  BY <1>2, <1>3, OverTypes
<1>5. Bounded'
  <2>1. \A f \in Field : Age(ev'[r].vals[f]) <= heard[n][f]
    BY <1>0, <1>1, <1>n, <1>2, <1>4 DEF Bounded
  <2> QED
    BY <1>0, <1>1, <1>3, <2>1 DEF Bounded
<1>6. InOrder'
  BY <1>0, <1>1, <1>3 DEF InOrder
<1>7. \A m \in Node : Settled(m)' = Settled(m) /\ RowOf(Mac, m)' = RowOf(Mac, m)
  BY <1>1 DEF RowOf, Settled
<1>8. ASSUME NEW m \in Node \ raced', m # n PROVE NothingOlder(m)'
  <2>1. NothingOlder(m) /\ m \in Node
    BY <1>0, <1>1, <1>8
  <2>2. \A q \in Reader : ev'[q] = ev[q] \/ ev'[q].node # m
    BY <1>3, <1>8
  <2> QED
    BY <1>1, <1>7, <2>1, <2>2, SameNode
<1>9. ASSUME n \notin raced PROVE NothingOlder(n)'
  <2>1. /\ NothingOlder(n) /\ Settled(n)
        /\ \A q \in Reader \ {r} : ev[q].at = "idle" \/ ev[q].node # n
        /\ Covers(mem[n], n)
        /\ \A f \in Field : ev[r].vals[f] = 0 \/ Age(RowOf(Mac, n)[f]) <= Age(ev[r].vals[f])
    BY <1>0, <1>1, <1>n, <1>9 DEF NothingOlder
  <2>2. \A f \in Field : Age(RowOf(Mac, n)[f]) <= Age(ev'[r].vals[f])
    BY <1>4, <2>1 DEF Covers
  <2>3. \A q \in Reader \ {r} : ev'[q].at = "idle" \/ ev'[q].node # n
    BY <1>3, <2>1
  <2>4. hand' # None => hand'.node # n
    BY <1>1, <2>1 DEF Settled
  <2> QED
    BY <1>1, <1>3, <1>7, <2>1, <2>2, <2>3, <2>4 DEF NothingOlder, Covers
<1> QED
  BY <1>0, <1>1, <1>5, <1>6, <1>8, <1>9 DEF MemInv

LEMMA RememberKeepsMem ==
    ASSUME MemInv, NEW r \in Reader, Remember(r)
    PROVE  MemInv'
<1>0. /\ Typed /\ Bounded /\ InOrder /\ Typed'
      /\ \A m \in Node \ raced : NothingOlder(m)
  BY EventTyped DEF MemInv
<1>1. ev[r].at = "merged" /\ UNCHANGED <<way, pc, rows, pre, left, hand, raced, heard>>
  BY DEF Remember, fileVars, preVars, pastVars
<1>n. PICK n \in Node : n = ev[r].node
  BY <1>0, <1>1 DEF Typed, EventHasNode
<1>2. ev[r].vals \in Values /\ mem \in [Node -> Values]
  BY <1>0, <1>1 DEF Typed, TypeOK
<1>3. /\ ev'[r].at = "remembered" /\ ev'[r].node = n /\ ev'[r].vals = ev[r].vals
      /\ \A q \in Reader \ {r} : ev'[q] = ev[q]
  BY <1>0, <1>n DEF Remember, Typed, TypeOK
<1>4. mem' = [mem EXCEPT ![n] = Over(ev[r].vals, mem[n])]
  BY <1>n DEF Remember
<1>5. /\ \A f \in Field : mem'[n][f] = IF ev[r].vals[f] # 0 THEN ev[r].vals[f] ELSE mem[n][f]
      /\ \A m \in Node \ {n} : mem'[m] = mem[m]
  BY <1>2, <1>4, OverTypes
<1>6. Bounded'
  <2>1. \A f \in Field : Age(mem'[n][f]) <= heard[n][f]
    BY <1>0, <1>1, <1>n, <1>2, <1>5 DEF Bounded
  <2>2. \A m \in Node, f \in Field : Age(mem'[m][f]) <= heard[m][f]
    BY <1>0, <1>5, <2>1 DEF Bounded
  <2>3. \A q \in Reader : /\ ev'[q].at # "idle" => ev[q].at # "idle"
                          /\ ev'[q].vals = ev[q].vals /\ ev'[q].node = ev[q].node
    BY <1>1, <1>n, <1>3
  <2> QED
    BY <1>0, <1>1, <2>2, <2>3 DEF Bounded
<1>7. InOrder'
  BY <1>0, <1>1, <1>3 DEF InOrder
<1>8. \A m \in Node : Settled(m)' = Settled(m) /\ RowOf(Mac, m)' = RowOf(Mac, m)
  BY <1>1 DEF RowOf, Settled
<1>9. ASSUME NEW m \in Node \ raced', m # n PROVE NothingOlder(m)'
  <2>1. NothingOlder(m) /\ m \in Node /\ mem'[m] = mem[m]
    BY <1>0, <1>1, <1>5, <1>9
  <2>2. \A q \in Reader : ev'[q] = ev[q] \/ ev'[q].node # m
    BY <1>3, <1>9
  <2> QED
    BY <1>1, <1>8, <2>1, <2>2, SameNode
<1>10. ASSUME n \notin raced PROVE NothingOlder(n)'
  <2>1. /\ NothingOlder(n) /\ Settled(n)
        /\ \A q \in Reader \ {r} : ev[q].at = "idle" \/ ev[q].node # n
        /\ Covers(mem[n], n)
        /\ Covers(ev[r].vals, n)
    BY <1>0, <1>1, <1>n, <1>10 DEF NothingOlder
  <2>2. \A f \in Field : Age(RowOf(Mac, n)[f]) <= Age(mem'[n][f])
    BY <1>5, <2>1 DEF Covers
  <2>3. \A f \in Field : Age(ev[r].vals[f]) <= Age(mem'[n][f])
    <3> SUFFICES ASSUME NEW f \in Field PROVE Age(ev[r].vals[f]) <= Age(mem'[n][f])
      OBVIOUS
    <3>1. /\ Age(ev[r].vals[f]) \in Nat /\ Age(mem[n][f]) \in Nat
          /\ ev[r].vals[f] = 0 => Age(ev[r].vals[f]) = 0
      BY <1>0, HandValues, RowValues, AgeFacts
    <3> QED
      BY <1>5, <3>1
  <2>4. hand' # None => hand'.node # n
    BY <1>1, <2>1 DEF Settled
  <2>5. \A q \in Reader \ {r} : ev'[q].at = "idle" \/ ev'[q].node # n
    BY <1>3, <2>1
  <2> QED
    BY <1>3, <1>8, <2>1, <2>2, <2>3, <2>4, <2>5 DEF NothingOlder, Covers
<1> QED
  BY <1>0, <1>1, <1>6, <1>7, <1>9, <1>10 DEF MemInv

\* The row is written with what is in memory by then, or not at all.
LEMMA SaveKeepsMem ==
    ASSUME MemInv, NEW r \in Reader, Save(r)
    PROVE  /\ MemInv'
           /\ \A m \in Node \ raced, f \in Field :
                 Age(RowOf(Mac, m)[f]) <= Age(RowOf(Mac, m)'[f])
<1>0. /\ Typed /\ Bounded /\ InOrder /\ Typed'
      /\ \A m \in Node \ raced : NothingOlder(m)
  BY EventTyped DEF MemInv
<1>1. ev[r].at = "remembered" /\ UNCHANGED <<way, pc, mem, pre, left, hand, raced, heard>>
  BY DEF Save, memVars, preVars, pastVars
<1>n. PICK n \in Node : n = ev[r].node
  BY <1>0, <1>1 DEF Typed, EventHasNode
<1>2. /\ ev[r].vals \in Values
      /\ rows \in [Spelling -> [Node -> Values \cup {None}]] /\ Mac \in Spelling
  BY <1>0 DEF Typed, TypeOK, Spelling
<1>3. ev'[r].at = "idle" /\ \A q \in Reader \ {r} : ev'[q] = ev[q]
  <2>1. ev' = [ev EXCEPT ![r] = Idle] /\ Idle.at = "idle"
    BY DEF Save, Idle
  <2> QED
    BY <1>0, <2>1 DEF Typed, TypeOK
<1>4. InOrder'
  BY <1>0, <1>1, <1>3 DEF InOrder
<1>5. \A m \in Node : Settled(m)' = Settled(m)
  BY <1>1 DEF Settled
<1>6. \A q \in Reader, m \in Node : ev'[q] = ev[q] \/ ev'[q].at = "idle" \/ ev'[q].node # m
  BY <1>3
<1>7. CASE UNCHANGED rows
  <2>1. Bounded'
    BY <1>0, <1>1, <1>3, <1>7 DEF Bounded
  <2>2. \A m \in Node : RowOf(Mac, m)' = RowOf(Mac, m)
    BY <1>7 DEF RowOf
  <2>3. ASSUME NEW m \in Node \ raced' PROVE NothingOlder(m)'
    <3>1. NothingOlder(m) /\ m \in Node
      BY <1>0, <1>1, <2>3
    <3> QED
      BY <1>1, <1>5, <1>6, <2>2, <3>1, SameNode
  <2>4. \A m \in Node, f \in Field : Age(RowOf(Mac, m)[f]) <= Age(RowOf(Mac, m)'[f])
    BY <1>0, <2>2, RowValues
  <2> QED
    BY <1>0, <1>4, <2>1, <2>3, <2>4 DEF MemInv
<1>8. CASE rows' = [rows EXCEPT ![Mac][n] = ev[r].vals]
  <2>1. /\ rows'[Mac][n] = ev[r].vals
        /\ \A s \in Spelling, m \in Node : ~ (s = Mac /\ m = n) => rows'[s][m] = rows[s][m]
    BY <1>2, <1>8
  <2>2. /\ RowOf(Mac, n)' = ev[r].vals
        /\ \A m \in Node \ {n} : RowOf(Mac, m)' = RowOf(Mac, m)
    BY <1>2, <2>1, Constants DEF RowOf
  <2>3. Bounded'
    <3>1. \A f \in Field : Age(ev[r].vals[f]) <= heard[n][f]
      BY <1>0, <1>1, <1>n DEF Bounded
    <3>2. \A s \in Spelling, m \in Node, f \in Field :
             rows'[s][m] # None => Age(rows'[s][m][f]) <= heard[m][f]
      BY <1>0, <2>1, <3>1 DEF Bounded
    <3> QED
      BY <1>0, <1>1, <1>3, <3>2 DEF Bounded
  <2>4. ASSUME NEW m \in Node \ raced, m # n
        PROVE  NothingOlder(m)' /\ \A f \in Field : Age(RowOf(Mac, m)[f]) <= Age(RowOf(Mac, m)'[f])
    <3>1. NothingOlder(m) /\ m \in Node /\ RowOf(Mac, m)' = RowOf(Mac, m)
      BY <1>0, <2>2, <2>4
    <3>2. NothingOlder(m)'
      BY <1>1, <1>5, <1>6, <3>1, SameNode
    <3> QED
      BY <1>0, <3>1, <3>2, RowValues
  <2>5. ASSUME n \notin raced
        PROVE  NothingOlder(n)' /\ \A f \in Field : Age(RowOf(Mac, n)[f]) <= Age(RowOf(Mac, n)'[f])
    <3>1. /\ NothingOlder(n) /\ Settled(n)
          /\ \A q \in Reader \ {r} : ev[q].at = "idle" \/ ev[q].node # n
          /\ Covers(ev[r].vals, n)
          /\ \A f \in Field : Age(ev[r].vals[f]) <= Age(mem[n][f])
      BY <1>0, <1>1, <1>n, <2>5 DEF NothingOlder
    <3>2. \A f \in Field : /\ Age(RowOf(Mac, n)[f]) <= Age(RowOf(Mac, n)'[f])
                           /\ Age(RowOf(Mac, n)'[f]) <= Age(mem[n][f])
      BY <2>2, <3>1 DEF Covers
    <3>3. hand' # None => hand'.node # n
      BY <1>1, <3>1 DEF Settled
    <3>4. \A q \in Reader : ev'[q].at = "idle" \/ ev'[q].node # n
      BY <1>3, <3>1
    <3>5. NothingOlder(n)'
      BY <1>1, <3>2, <3>3, <3>4 DEF NothingOlder, Covers
    <3> QED
      BY <3>2, <3>5
  <2> QED
    BY <1>0, <1>1, <1>4, <2>3, <2>4, <2>5 DEF MemInv
<1> QED
  BY <1>n, <1>7, <1>8 DEF Save

LEMMA StepMem == MemInv /\ [Next]_vars => MemInv'
<1> SUFFICES ASSUME MemInv, [Next]_vars PROVE MemInv'
  OBVIOUS
<1>1. CASE UNCHANGED vars
  <2>1. UNCHANGED <<way, pc, rows, mem, pre, left, hand, ev, raced, heard>>
    BY <1>1 DEF vars, fileVars, memVars, preVars, pastVars
  <2>2. Typed'
    BY <1>1, StepTyped DEF MemInv
  <2>3. Bounded' /\ InOrder'
    BY <2>1 DEF MemInv, Bounded, InOrder
  <2>4. ASSUME NEW n \in Node \ raced' PROVE NothingOlder(n)'
    <3>1. NothingOlder(n) /\ n \in Node /\ RowOf(Mac, n)' = RowOf(Mac, n) /\ Settled(n)' = Settled(n)
      BY <2>1, <2>4 DEF MemInv, RowOf, Settled
    <3> QED
      BY <2>1, <3>1, SameNode
  <2> QED
    BY <2>1, <2>2, <2>3, <2>4 DEF MemInv
<1> QED
  BY <1>1, OpenKeepsMem, LoadKeepsMem, HearKeepsMem, MergeKeepsMem, RememberKeepsMem,
     SaveKeepsMem DEF Next

LEMMA MemHolds == Spec => []MemInv
  BY InitMem, StepMem, PTL DEF Spec

\* No field of a node's row is lost or goes back to an older value, from the
\* first start of the program on and however it is killed, but by an event
\* that raced with another of that node or with the loading of its row.
THEOREM NothingIsForgotten == Spec => NothingForgotten
<1> DEFINE Kept == \A n \in Node, f \in Field :
              n \in raced' \/ Age(RowOf(Mac, n)[f]) <= Age(RowOf(Mac, n)'[f])
<1>1. ASSUME MemInv, [Next]_vars PROVE Kept
  <2>0. Typed /\ rows \in [Spelling -> [Node -> Values \cup {None}]]
    BY <1>1 DEF MemInv, Typed, TypeOK
  <2>1. CASE UNCHANGED rows
    <3>1. \A n \in Node : RowOf(Mac, n)' = RowOf(Mac, n)
      BY <2>1 DEF RowOf
    <3> QED
      BY <2>0, <3>1, RowValues
  <2>2. CASE MoveRows
    <3>1. PICK s \in todo : rows' = Moved(s) \/ UNCHANGED rows
      BY <2>2 DEF MoveRows
    <3>2. s \in ToRename
      BY <2>0, <2>2 DEF MoveRows, Typed, TodoIsOfStage
    <3>3. CASE rows' = Moved(s)
      <4> SUFFICES ASSUME NEW n \in Node, NEW f \in Field
                   PROVE  Age(RowOf(Mac, n)[f]) <= Age(RowOf(Mac, n)'[f])
        OBVIOUS
      <4>1. CASE rows[Mac][n] # None
        <5>1. RowOf(Mac, n)' = RowOf(Mac, n)
          BY <2>0, <3>2, <3>3, <4>1, MovedRows DEF RowOf
        <5> QED
          BY <2>0, <5>1, RowValues
      <4>2. CASE rows[Mac][n] = None
        <5>1. RowOf(Mac, n)[f] = 0
          BY <4>2, Constants DEF RowOf
        <5>2. rows' \in [Spelling -> [Node -> Values \cup {None}]] /\ Mac \in Spelling
          BY <2>0, <3>2, <3>3, MovedRows DEF Spelling
        <5>3. RowOf(Mac, n)' \in Values
          BY <5>2, Constants DEF RowOf
        <5>4. Age(RowOf(Mac, n)'[f]) \in Nat /\ Age(0) = 0
          BY <5>3, AgeFacts DEF Values
        <5> QED
          BY <5>1, <5>4
      <4> QED
        BY <4>1, <4>2
    <3> QED
      BY <2>1, <3>1, <3>3
  <2>3. CASE DropRows
    <3>1. cur # Mac /\ Mac \in Spelling
      BY <2>0, <2>3, Constants DEF DropRows, Typed, TodoIsOfStage, ToRename, Spelling
    <3>2. rows'[Mac] = rows[Mac]
      BY <2>0, <2>3, <3>1 DEF DropRows
    <3>3. \A n \in Node : RowOf(Mac, n)' = RowOf(Mac, n)
      BY <3>2 DEF RowOf
    <3> QED
      BY <2>0, <3>3, RowValues
  <2>4. ASSUME NEW r \in Reader, Save(r) PROVE Kept
    <3>1. raced' = raced
      BY <2>4 DEF Save, pastVars
    <3> QED
      BY <1>1, <2>4, <3>1, SaveKeepsMem
  <2>5. \/ UNCHANGED rows \/ MoveRows \/ DropRows \/ \E r \in Reader : Save(r)
    BY <1>1 DEF Next, Open, RenameHistory, HistoryRenamed, RowsRenamed, Backfill, Stop,
       LoadOffline, Connect, List, LoadRow, StoreRow, Loaded, Disconnect, Joined, Hear,
       Merge, Remember, vars, fileVars
  <2> QED
    BY <2>1, <2>2, <2>3, <2>4, <2>5
<1> QED
  BY MemHolds, <1>1, PTL DEF Spec, NothingForgotten

-----------------------------------------------------------------------------
(* What is shown *)

\* Until open is through, nothing is in memory; a device that is leaving was
\* disconnected, and one that is through with connecting has loaded its rows.
Unused ==
    /\ pc # "up" => offline = None /\ \A n \in Node : ~ Named(mem[n])
    /\ pre = "leaving" => gone
    /\ pre = "done" => left = {}

\* Of node n: a name in memory is not older than the row's, and as long as no
\* event can have changed the row, neither is one of the offline copy.
NamesFit(n) ==
    /\ Named(mem[n]) => Age(RowOf(Mac, n)["name"]) <= Age(mem[n]["name"])
    /\ offline # None /\ ~ gone /\ ~ Settled(n) =>
          Age(RowOf(Mac, n)["name"]) <= Age(offline[n]["name"])

NameInv == OpenInv /\ MemInv /\ Unused /\ \A n \in Node \ raced : NamesFit(n)

LEMMA InitNames == Init => NameInv
<1>1. Init => Unused /\ \A n \in Node : NamesFit(n)
  BY Constants DEF Init, Unused, NamesFit, Named, Nothing, Field
<1> QED
  BY <1>1, InitOpen, InitMem DEF NameInv

LEMMA StepNames == NameInv /\ [Next]_vars => NameInv'
<1> SUFFICES ASSUME NameInv, [Next]_vars
             PROVE  Unused' /\ \A n \in Node \ raced' : NamesFit(n)'
  BY StepOpen, StepMem DEF NameInv
<1>0. /\ Typed /\ InOrder /\ Unused /\ MemInv
      /\ \A n \in Node \ raced : NothingOlder(n) /\ NamesFit(n)
  BY DEF NameInv, MemInv
<1>1. MemInv' /\ Typed' /\ \A n \in Node \ raced' : NothingOlder(n)'
  BY <1>0, StepMem DEF MemInv
<1>2. CASE Stop
  <2>1. pc' = "down" /\ offline' = None /\ mem' = Nothing /\ pre' = "no"
    BY <1>2 DEF Stop
  <2> QED
    BY <2>1, Constants DEF Unused, NamesFit, Named, Nothing, Field
<1>3. CASE \/ Open \/ RenameHistory \/ HistoryRenamed \/ MoveRows \/ DropRows
           \/ RowsRenamed \/ Backfill
  <2>1. pc # "up" /\ UNCHANGED <<mem, offline, pre>>
    BY <1>3 DEF Open, RenameHistory, HistoryRenamed, MoveRows, DropRows, RowsRenamed,
       Backfill, Table, memVars, preVars
  <2>2. offline' = None /\ (\A n \in Node : ~ Named(mem'[n])) /\ pre' = "no"
    BY <1>0, <2>1 DEF Unused, InOrder
  <2> QED
    BY <2>2 DEF Unused, NamesFit
<1>4. CASE LoadOffline
  <2>1. PICK s \in Devices : offline' = [n \in Node |-> Over(RowOf(Mac, n), RowOf(s, n))]
    BY <1>4 DEF LoadOffline
  <2>2. pc = "up" /\ UNCHANGED <<way, pc, rows, mem, pre, left, hand, gone, raced>>
    BY <1>4 DEF LoadOffline, fileVars, preVars, pastVars
  <2>3. \A n \in Node : Age(RowOf(Mac, n)["name"]) <= Age(offline'[n]["name"])
    <3> SUFFICES ASSUME NEW n \in Node
                 PROVE  Age(RowOf(Mac, n)["name"]) <= Age(offline'[n]["name"])
      OBVIOUS
    <3>1. RowOf(Mac, n) \in Values /\ RowOf(s, n) \in Values
      BY <1>0, RowTypes DEF Typed, TypeOK, Devices, Spelling
    <3>2. offline'[n]["name"] = IF RowOf(Mac, n)["name"] # 0 THEN RowOf(Mac, n)["name"]
                                ELSE RowOf(s, n)["name"]
      BY <2>1, <3>1, OverTypes DEF Field
    <3>3. Age(RowOf(Mac, n)["name"]) \in Nat /\ Age(RowOf(s, n)["name"]) \in Nat /\ Age(0) = 0
      BY <3>1, AgeFacts DEF Values, Field
    <3> QED
      BY <3>2, <3>3
  <2> QED
    BY <1>0, <2>2, <2>3 DEF Unused, NamesFit, RowOf, Settled
<1>5. CASE Connect \/ List \/ LoadRow \/ Loaded \/ Disconnect
  <2>1. /\ UNCHANGED <<way, pc, rows, mem, offline, raced>>
        /\ pre' = "leaving" => gone'
        /\ pre' = "done" => left' = {}
        /\ gone => gone'
    BY <1>5 DEF Connect, List, LoadRow, Loaded, Disconnect, fileVars, memVars, pastVars
  <2>2. \A n \in Node : Settled(n) => Settled(n)' \/ gone'
    BY <1>0, <1>5 DEF Connect, List, LoadRow, Loaded, Disconnect, Settled
  <2>3. \A n \in Node : RowOf(Mac, n)' = RowOf(Mac, n)
    BY <2>1 DEF RowOf
  <2> QED
    BY <1>0, <2>1, <2>2, <2>3 DEF Unused, NamesFit
<1>6. CASE StoreRow
  <2>1. /\ hand # None /\ hand' = None /\ pre = "loading" /\ pc = "up"
        /\ mem' = [mem EXCEPT ![hand.node] = Over(hand.vals, mem[hand.node])]
        /\ UNCHANGED <<way, pc, rows, offline, pre, left, gone, raced>>
    BY <1>0, <1>6 DEF StoreRow, InOrder, fileVars, pastVars
  <2>2. PICK n \in Node : n = hand.node
    BY <1>0, <2>1 DEF Typed, TypeOK
  <2>3. hand.vals \in Values /\ mem \in [Node -> Values]
    BY <1>0, <2>1 DEF Typed, TypeOK
  <2>4. /\ mem'[n]["name"] = IF hand.vals["name"] # 0 THEN hand.vals["name"] ELSE mem[n]["name"]
        /\ \A m \in Node \ {n} : mem'[m] = mem[m]
    BY <2>1, <2>2, <2>3, OverTypes DEF Field
  <2>5. n \notin raced => Age(RowOf(Mac, n)["name"]) <= Age(hand.vals["name"])
    BY <1>0, <2>1, <2>2 DEF NothingOlder, Covers, Field
  <2>6. \A m \in Node \ raced : Named(mem'[m]) =>
           Age(RowOf(Mac, m)["name"]) <= Age(mem'[m]["name"])
    BY <1>0, <2>4, <2>5 DEF NamesFit, Named
  <2>7. \A m \in Node : Settled(m) => Settled(m)'
    BY <2>1 DEF Settled
  <2>8. \A m \in Node : RowOf(Mac, m)' = RowOf(Mac, m)
    BY <2>1 DEF RowOf
  <2> QED
    BY <1>0, <2>1, <2>6, <2>7, <2>8 DEF Unused, NamesFit
<1>7. CASE Joined
  <2>1. /\ pre = "leaving" /\ pre' = "no" /\ mem' = Nothing
        /\ UNCHANGED <<pc, offline, gone>>
    BY <1>7 DEF Joined
  <2>2. gone /\ pc = "up"
    BY <1>0, <2>1 DEF Unused, InOrder
  <2> QED
    BY <2>1, <2>2, Constants DEF Unused, NamesFit, Named, Nothing, Field
<1>8. ASSUME NEW r \in Reader,
             \/ \E n \in Node, given \in Frames : Hear(r, n, given)
             \/ Merge(r) \/ Remember(r) \/ Save(r)
      PROVE  Unused' /\ \A n \in Node \ raced' : NamesFit(n)'
  <2>1. pre # "no" /\ UNCHANGED <<way, pc, pre, left, hand, offline, gone>> /\ raced \subseteq raced'
    BY <1>0, <1>8 DEF Hear, Merge, Remember, Save, InOrder, preVars, memVars, pastVars
  <2>2. pc' = "up"
    BY <1>0, <2>1 DEF InOrder
  <2>3. ASSUME NEW n \in Node \ raced' PROVE NamesFit(n)'
    <3>1. NamesFit(n) /\ NothingOlder(n) /\ NothingOlder(n)' /\ n \in Node
      BY <1>0, <1>1, <2>1, <2>3
    <3>2. CASE Settled(n)'
      BY <3>1, <3>2 DEF NothingOlder, Covers, NamesFit, Field
    <3>3. CASE ~ Settled(n)'
      <4>1. ~ Settled(n)
        BY <2>1, <3>3 DEF Settled
      <4>2. /\ \A q \in Reader : ev[q].at = "idle" \/ ev[q].node # n
            /\ \A q \in Reader : ev'[q].at = "idle" \/ ev'[q].node # n
        BY <3>1, <3>3, <4>1 DEF NothingOlder
      <4>3. RowOf(Mac, n)' = RowOf(Mac, n) /\ mem'[n] = mem[n]
        <5>1. rows \in [Spelling -> [Node -> Values \cup {None}]] /\ mem \in [Node -> Values]
          BY <1>0 DEF Typed, TypeOK
        <5>2. CASE Save(r)
          <6>1. ev[r].node # n /\ mem' = mem
            BY <4>2, <5>2 DEF Save, memVars
          <6>2. rows'[Mac][n] = rows[Mac][n]
            BY <5>1, <5>2, <6>1 DEF Save
          <6> QED
            BY <6>1, <6>2 DEF RowOf
        <5>3. CASE Remember(r)
          <6>1. ev[r].node # n /\ rows' = rows
            BY <4>2, <5>3 DEF Remember, fileVars
          <6> QED
            BY <5>1, <5>3, <6>1 DEF Remember, RowOf
        <5>4. CASE Merge(r) \/ \E m \in Node, given \in Frames : Hear(r, m, given)
          BY <5>4 DEF Merge, Hear, RowOf, fileVars, memVars
        <5> QED
          BY <1>8, <5>2, <5>3, <5>4
      <4> QED
        BY <2>1, <3>1, <4>1, <4>3 DEF NamesFit
    <3> QED
      BY <3>2, <3>3
  <2> QED
    BY <1>0, <2>1, <2>2, <2>3 DEF Unused
<1>9. CASE UNCHANGED vars
  BY <1>0, <1>9 DEF vars, fileVars, memVars, preVars, pastVars, Unused, NamesFit, RowOf, Settled
<1> QED
  BY <1>2, <1>3, <1>4, <1>5, <1>6, <1>7, <1>8, <1>9 DEF Next

\* When no statement was refused, and for a node whose events did not race,
\* find_node answers from memory, from the offline copy or from the disk with a
\* name at least as new as the one of the device's row; what it answers instead
\* from another device in devices_, or from offline_dbs_ after a disconnection,
\* may be older.
THEOREM NewestNameShown == Spec => []ShowsNewestName
<1>1. NameInv => ShowsNewestName
  <2>1. ASSUME NameInv, pc = "up", pre # "loading", ~ refused, NEW n \in Node \ raced,
               NEW first, NEW later, NEW name \in NamesShown(n, first, later),
               first = 0, later = 0 \/ (Listed /\ Named(mem[n]))
        PROVE  \/ Age(RowOf(Mac, n)["name"]) <= Age(name)
               \/ /\ gone /\ ~ (Listed /\ way = "id")
                  /\ IsOffline(n) /\ name = offline[n]["name"]
    <3>0. /\ Typed /\ OpenSoFar /\ InOrder /\ Unused
          /\ NothingOlder(n) /\ NamesFit(n) /\ n \in Node
      BY <2>1 DEF NameInv, OpenInv, MemInv
    <3> DEFINE row == RowOf(Mac, n)["name"]
    <3>1. Age(row) \in Nat /\ Age(mem[n]["name"]) \in Nat
      BY <3>0, RowValues DEF Field
    <3>2. CASE Listed /\ Named(mem[n])
      BY <2>1, <3>0, <3>2 DEF NamesShown, NamesFit
    <3>3. CASE ~ (Listed /\ Named(mem[n])) /\ IsOffline(n)
      <4>1. name = offline[n]["name"] /\ offline # None
        BY <2>1, <3>3 DEF NamesShown, IsOffline
      <4>2. CASE Listed /\ way = "id"
        <5>1. Settled(n)
          BY <2>1, <3>0, <4>2 DEF Listed, Settled, InOrder, Unused
        <5>2. Age(row) <= Age(mem[n]["name"])
          BY <3>0, <5>1 DEF NothingOlder, Covers, Field
        <5>3. mem[n]["name"] = 0
          BY <3>3, <4>2 DEF Named
        <5>4. offline[n]["name"] \in Int
          BY <3>0, <4>1 DEF Typed, TypeOK, Values, Field
        <5>5. Age(name) \in Nat /\ Age(mem[n]["name"]) = 0
          BY <4>1, <5>3, <5>4, AgeFacts
        <5> DEFINE x == Age(row)
                   y == Age(name)
                   z == Age(mem[n]["name"])
        <5>6. x \in Nat /\ y \in Nat /\ x <= z /\ z = 0
          BY <3>1, <5>2, <5>5
        <5> HIDE DEF x, y, z
        <5>7. x <= y
          BY <5>6
        <5> QED
          BY <5>7 DEF x, y
      <4>3. CASE ~ (Listed /\ way = "id") /\ gone
        BY <3>3, <4>1, <4>3
      <4>4. CASE ~ (Listed /\ way = "id") /\ ~ gone
        <5>1. ~ Settled(n)
          BY <2>1, <3>0, <4>4 DEF Listed, Settled, Unused
        <5> QED
          BY <3>0, <4>1, <4>4, <5>1 DEF NamesFit
      <4> QED
        BY <4>2, <4>3, <4>4
    <3>4. CASE ~ (Listed /\ Named(mem[n])) /\ ~ IsOffline(n)
      <4>1. \A s \in Spelling \ {Mac} : RowOf(s, n) = Blank
        BY <2>1, <3>0 DEF OpenSoFar, RowOf, Spelling, ToRename
      <4>2. \A s \in Spelling : Named(RowOf(s, n)) => s = Mac
        BY <4>1, Constants DEF Named, Field
      <4>3. name \in NamesOnDisk(n)
        BY <2>1, <3>4 DEF NamesShown
      <4>4. CASE Named(RowOf(Mac, n))
        <5>1. PICK s \in Spelling : Named(RowOf(s, n)) /\ name = RowOf(s, n)["name"]
          BY <4>3, <4>4 DEF NamesOnDisk, Spelling
        <5>2. name = row
          BY <4>2, <5>1
        <5> QED
          BY <3>1, <5>2
      <4>5. CASE ~ Named(RowOf(Mac, n))
        <5>1. row = 0
          BY <4>5 DEF Named
        <5>2. name = 0
          BY <4>2, <4>3, <4>5 DEF NamesOnDisk
        <5> QED
          BY <3>1, <5>1, <5>2
      <4> QED
        BY <4>4, <4>5
    <3> QED
      BY <3>2, <3>3, <3>4
  <2>2. ASSUME NameInv, pc = "up", pre # "loading", ~ refused, NEW n \in Node \ raced,
               NEW first \in 0 .. heard[n]["name"], NEW later \in 0 .. heard[n]["name"],
               NEW name \in NamesShown(n, first, later)
        PROVE  \/ Age(RowOf(Mac, n)["name"]) <= Age(name)
               \/ name # 0 /\ name \in {first, later}
               \/ /\ gone /\ ~ (Listed /\ way = "id")
                  /\ IsOffline(n) /\ name = offline[n]["name"]
    <3>1. CASE first # 0
      BY <2>2, <3>1 DEF NamesShown
    <3>2. CASE first = 0 /\ ~ (Listed /\ Named(mem[n])) /\ later # 0
      BY <2>2, <3>2 DEF NamesShown
    <3>3. CASE first = 0 /\ (later = 0 \/ (Listed /\ Named(mem[n])))
      BY <2>1, <2>2, <3>3
    <3> QED
      BY <3>1, <3>2, <3>3
  <2> QED
    BY <2>2 DEF ShowsNewestName
<1> QED
  BY InitNames, StepNames, <1>1, PTL DEF Spec
=============================================================================
