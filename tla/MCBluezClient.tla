--------------------------- MODULE MCBluezClient ---------------------------
(***************************************************************************)
(* BluezClient for TLC, with one thread that sends.                        *)
(***************************************************************************)
EXTENDS BluezClient

CONSTANT s1
=============================================================================
