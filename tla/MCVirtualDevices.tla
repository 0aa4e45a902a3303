-------------------------- MODULE MCVirtualDevices --------------------------
(***************************************************************************)
(* VirtualDevices for TLC: na is a client of nb, and nb of nc.  na and nc  *)
(* have a radio each, of one name; nb has none and connects from the       *)
(* address na connects from.                                               *)
(***************************************************************************)
EXTENDS VirtualDevices, TLC

CONSTANTS na, nb, nc, r1, home, away

Chain == {<<na, nb>>, <<nb, nc>>}
Ends == na :> {r1} @@ nb :> {} @@ nc :> {r1}
NodeNumbers == na :> (r1 :> 1) @@ nb :> (r1 :> 2) @@ nc :> (r1 :> 3)
Addresses == na :> home @@ nb :> home @@ nc :> away

ASSUME TopologyAssumption == OneWay
=============================================================================
