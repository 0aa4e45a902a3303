---------------------------- MODULE MCReconnect ----------------------------
(***************************************************************************)
(* Reconnect for TLC: the ways to start the program, and what the end of a *)
(* connection may report, which depends on how it ends: a close by the     *)
(* other end, or an error (see StreamLink).                                *)
(***************************************************************************)
EXTENDS Reconnect

\* Whether the web server is enabled makes no difference to the terminal UI
\* but for its users; a stream server and a second device are tried alone.
EverySetup ==
    {s \in Setup : /\ s.users => s.web
                   /\ ~ s.headless => s.web = s.users
                   /\ s.server => ~ s.users /\ ~ s.tls /\ (s.headless => s.web)
                   /\ s.second => s.headless /\ ~ s.tls /\ ~ s.users /\ s.web}

OnlyCloses == {"disconnected"}
=============================================================================
