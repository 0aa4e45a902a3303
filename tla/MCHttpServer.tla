---------------------------- MODULE MCHttpServer ----------------------------
(***************************************************************************)
(* HttpServer for TLC: a browser that listens and one that sends a message,*)
(* or one that asks for a page and one whose request never ends.           *)
(***************************************************************************)
EXTENDS HttpServer

CONSTANTS c1, c2, r1

SomeRequests == {(c1 :> "sse") @@ (c2 :> "post"), (c1 :> "get") @@ (c2 :> "endless")}
=============================================================================
