------------------------------ MODULE MCStore ------------------------------
(***************************************************************************)
(* Store for TLC: two nodes, and two files: one of the version in use, and *)
(* one of earlier versions, whose rows collide when they are renamed.      *)
(***************************************************************************)
EXTENDS Store, TLC

CONSTANTS n1, n2, path, short, mac

File(p, s, m) == (path :> p) @@ (short :> s) @@ (mac :> m)

OldFiles == {File({}, {}, {n1}), File({n1, n2}, {n1}, {})}
=============================================================================
