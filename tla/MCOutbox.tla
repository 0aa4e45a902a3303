------------------------------ MODULE MCOutbox ------------------------------
(***************************************************************************)
(* Outbox for TLC: two messages.                                           *)
(***************************************************************************)
EXTENDS Outbox

CONSTANTS m1, m2
=============================================================================
