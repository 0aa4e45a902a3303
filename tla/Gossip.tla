------------------------------- MODULE Gossip -------------------------------
(***************************************************************************)
(* What database synchronisation promises, without its protocol: every     *)
(* peer keeps a set of rows (received messages, positions, telemetry       *)
(* samples).  A row enters the system once, at the peer whose radio        *)
(* produced it, and spreads by being copied, one row at a time, over a     *)
(* link from a peer that has it to one that does not.  No row is invented, *)
(* altered or taken back.  DbSync implements this specification.           *)
(***************************************************************************)
CONSTANTS Peer,   \* the running fmesh-cli instances
          Link,   \* directed links <<from, to>> between linked instances
          Row,    \* the rows any of them may ever store
          Home    \* Home[r]: the peer whose own radio produced row r

VARIABLE store    \* store[p]: the rows in the database of peer p

GInit == store = [p \in Peer |-> {}]

\* The radio of Home[r] delivers r.
Produce(r) ==
    /\ r \notin store[Home[r]]
    /\ store' = [store EXCEPT ![Home[r]] = @ \cup {r}]

\* Row r is copied over the link q -> p.
Copy(q, p, r) ==
    /\ <<q, p>> \in Link
    /\ r \in store[q] \ store[p]
    /\ store' = [store EXCEPT ![p] = @ \cup {r}]

GNext ==
    \/ \E r \in Row : Produce(r)
    \/ \E q, p \in Peer, r \in Row : Copy(q, p, r)

GSpec == GInit /\ [][GNext]_store
=============================================================================
