----------------------------- MODULE DbSyncTree -----------------------------
(***************************************************************************)
(* Database synchronisation over the topologies the README names, stars    *)
(* and daisy chains: between two peers there is one path.  Toward[h][p] is *)
(* the neighbour of p that is next on the path from p to h.                *)
(***************************************************************************)
EXTENDS DbSync

CONSTANT Toward

\* Of the two ends of a link, exactly one is nearer to any given peer h; and
\* a peer has one way to h.  Both hold in a tree, and in no graph with a cycle.
ASSUME TreeAssumption ==
    /\ Toward \in [Peer -> [Peer -> Peer]]
    /\ \A h, p, q \in Peer :
          <<p, q>> \in Link => (Toward[h][p] = q <=> Toward[h][q] # p)
    /\ \A h \in Peer : Toward[h][h] = h

\* A message carrying a packet id, a position or a telemetry sample is stored
\* by a peer at most once, although the check whether it is there and its
\* insertion are two statements and several reading threads run them at once
\* (handle_data, insert_location, insert_telemetry): but where the neighbour it
\* comes from has connected again while the thread that serves its earlier
\* connection still had payloads to handle.
NoDuplicateCopies ==
    \A p \in Peer, r \in Row :
        Deduplicated(r) /\ db[p][r] > 1 => <<Toward[Home[r]][p], p>> \in overtaken

\* A row has reached a peer only after every peer on the way back to where
\* it was heard: no cut, restart or sync reply makes a copy overtake.
NearestFirst ==
    \A p \in Peer, r \in Row :
        Has(p, r) => Has(Toward[Home[r]][p], r)
=============================================================================
