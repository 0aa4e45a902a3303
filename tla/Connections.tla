---------------------------- MODULE Connections ----------------------------
(***************************************************************************)
(* What the main loops, reconnect_device and the end of the program        *)
(* promise about the connection of a device (src/src/mesh/mesh_service.cpp,*)
(* src/src/app/app.cpp); Reconnect says how they keep it.                  *)
(***************************************************************************)

CONSTANTS Main, Web  \* the two threads

VARIABLES
    setup,     \* how the program was started
    key,       \* where devices_ has the device: "id", "", or nowhere: not yet
               \* ("new"), or no more ("gone")
    link,      \* "up", "lost", "none", or "sham": start() failed
    at,        \* at[t]: where thread t is
    connector  \* how far connect_device has come

Thread == {Main, Web}
Headless == setup.headless
WebEnabled == setup.web
WebUsers == setup.users

\* t runs no reconnect_device.
Outside(t) == at[t] \notin {"stop", "open", "start"}

\* A device the user has disconnected stays disconnected, even if a web request
\* was reconnecting it meanwhile.
DisconnectedStays ==
    (key = "gone" /\ \A t \in Thread : Outside(t)) => link = "none"

\* The headless loop never tears down a connection that works: events of the
\* old connection do not outlive the new one's.  (With web users who reconnect
\* at the same time it may.)
RepairsOnlyTheBroken ==
    (Headless /\ ~ WebUsers /\ at[Main] = "stop") => link # "up"

\* Once run_app has returned there is no reading thread that would push into
\* its queue, unless the device was still being connected when all were
\* disconnected.
OnlyLateOutlives ==
    [](at[Main] = "close" /\ connector = "done"
         => [](at[Main] \in {"returned", "over"} => link # "up"))
=============================================================================
