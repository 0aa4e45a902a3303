------------------------------- MODULE MCDesk -------------------------------
(***************************************************************************)
(* Desk for TLC: two devices, one channel, one peer; one message heard on  *)
(* the channel, one of an earlier run on the channel and one that a web    *)
(* request sends to the peer as an answer to it, and one that is typed.    *)
(***************************************************************************)
EXTENDS Desk

CONSTANTS a, b, p1, broadcast, mine, answer, earlier

Packets ==
    [m \in Carried |-> [from    |-> IF m \in Heard THEN p1 ELSE Me,
                       to      |-> IF m = broadcast THEN Everyone ELSE p1,
                       channel |-> 0,
                       reply   |-> IF m = broadcast THEN NoMessage ELSE earlier]]

\* One device hears the channel; the answer goes over the other.
InReach == [d \in Devices |-> IF d = a THEN Heard ELSE Posted]

\* The database of an earlier run: one message of the channel.
OldChannelRow == <<[device |-> a, talk |-> <<"channel", 0>>, msg |-> earlier]>>
=============================================================================
