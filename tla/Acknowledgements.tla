-------------------------- MODULE Acknowledgements --------------------------
(***************************************************************************)
(* What send_text and handle_event promise about acknowledgements          *)
(* (src/src/mesh/mesh_service.cpp); Outbox says how they keep it.          *)
(***************************************************************************)

CONSTANT Texts  \* the messages to be sent

VARIABLES
    using,     \* using[m]: the runtime the call of send_text looked up
    row,       \* row[m]: ack_state of the stored message, "none" before
    rowid,     \* rowid[m]: the message whose row has the id that insert_message
               \* returned for m; none of them before, or if the row is no message's
    pending,   \* pending_acks: <<runtime, message>>
    said,      \* said[m]: what the radio answered about m
    crossed    \* history: messages between whose insertion and the reading of its
               \* row's id another thread inserted a row

\* Message k, whose id was crossed, was given the id of the row of m.
TakesRowOf(k, m) == k \in crossed /\ rowid[k] = m

\* The ack_state shown for a message is the one the radio gave for it, and what
\* pending_acks names still waits for its answer: no answer is applied to a
\* message twice, before its row exists, or to one sent through another runtime.
\* A message is shown the answer of another one, or answered before its own
\* comes, only where that one's id was crossed and is the id of its row.
AckIsHonest ==
    /\ \A m \in Texts : row[m] \in {"acked", "naked"} =>
          \/ row[m] = said[m]
          \/ \E k \in Texts \ {m} : TakesRowOf(k, m) /\ row[m] = said[k]
    /\ \A e \in pending :
          /\ e[1] = using[e[2]]
          /\ row[e[2]] = "pending" \/ \E k \in Texts \ {e[2]} : TakesRowOf(k, e[2])

\* An answer is final: not even a restart takes it back, but only an answer for
\* which the row was taken by a message with a crossed id.
AnswerIsFinal ==
    [][\A m \in Texts : row[m] \in {"acked", "naked"} =>
          row'[m] = row[m] \/ \E k \in Texts : TakesRowOf(k, m)]_row
=============================================================================
