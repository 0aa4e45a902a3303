------------------------------ MODULE MCDbSync ------------------------------
(***************************************************************************)
(* Instances of DbSyncTree for TLC: the chain a - b - c of the test        *)
(* MultiNodePropagation and a single pair of peers.                        *)
(***************************************************************************)
EXTENDS DbSyncTree, TLC

CONSTANTS a, b, c,                \* the peers
          m1, m2, m3, m4, m5, p1, t1  \* messages, a position, a telemetry sample

ChainLink == {<<a, b>>, <<b, a>>, <<b, c>>, <<c, b>>}
ChainDialled == {<<a, b>>, <<b, c>>}
ChainToward == a :> (a :> a @@ b :> a @@ c :> b)
            @@ b :> (a :> b @@ b :> b @@ c :> b)
            @@ c :> (a :> b @@ b :> c @@ c :> c)

PairLink == {<<a, b>>, <<b, a>>}
PairDialled == {<<a, b>>}
PairToward == a :> (a :> a @@ b :> a) @@ b :> (a :> b @@ b :> b)

\* m3 is the packet of m1, received by a second radio of peer a.
AnyTable == m1 :> "messages" @@ m2 :> "messages" @@ m3 :> "messages"
         @@ m4 :> "messages" @@ m5 :> "messages" @@ p1 :> "locations" @@ t1 :> "telemetry"
AnyHome == m1 :> a @@ m2 :> b @@ m3 :> a @@ m4 :> a @@ m5 :> a
        @@ p1 :> b @@ t1 :> b
AnyPacketId == m1 :> 1 @@ m2 :> 2 @@ m3 :> 1 @@ m4 :> 4 @@ m5 :> 5
            @@ p1 :> 0 @@ t1 :> 0
AnySender == m1 :> 1 @@ m2 :> 2 @@ m3 :> 1 @@ m4 :> 1 @@ m5 :> 1
          @@ p1 :> 0 @@ t1 :> 0
AnyTs == m1 :> 1 @@ m2 :> 2 @@ m3 :> 1 @@ m4 :> 2 @@ m5 :> 3
      @@ p1 :> 1 @@ t1 :> 1

Only(f) == [r \in Row |-> f[r]]
RowTable == Only(AnyTable)
RowHome == Only(AnyHome)
RowPacketId == Only(AnyPacketId)
RowSender == Only(AnySender)
RowTs == Only(AnyTs)
=============================================================================
