--------------------------- MODULE MCStreamServer ---------------------------
(***************************************************************************)
(* StreamServer for TLC: three connections that may come and go, a limit   *)
(* of two clients.                                                         *)
(***************************************************************************)
EXTENDS StreamServer

CONSTANTS c1, c2, c3
=============================================================================
