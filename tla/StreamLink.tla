----------------------------- MODULE StreamLink -----------------------------
(***************************************************************************)
(* One direction of a stream connection (TCP, TLS or serial): threads that *)
(* call send_to_radio at one end and the read_loop thread at the other     *)
(* (src/src/stream/stream_client.cpp).                                     *)
(*                                                                         *)
(* send_to_radio takes write_mu_ for each write call, not for a frame, and *)
(* gives up after MaxRetries consecutive refusals.  Under TLS the library  *)
(* reads one record at a time from the socket and keeps what read_loop did *)
(* not ask for; poll sees the socket only.                                 *)
(***************************************************************************)
EXTENDS StreamFraming

CONSTANTS
    Writer,      \* the threads that send
    Script,      \* Script[w]: the frames thread w sends, in order
    Noise,       \* bytes already on the line (a serial console's log output)
    Capacity,    \* bytes the connection buffers
    ReadMax,     \* bytes one read asks for (1024)
    MaxRetries,  \* refused writes before send_to_radio gives up (10)
    Sessions     \* what the connection may be: TRUE stands for a TLS session

ASSUME LinkAssumption ==
    /\ Script \in [Writer -> Seq(Frame)]
    /\ Noise \in Seq(Byte)
    /\ Capacity \in Nat \ {0} /\ ReadMax \in Nat \ {0} /\ MaxRetries \in Nat \ {0}
    /\ Sessions \subseteq BOOLEAN

VARIABLES
    tls,       \* whether the connection is a TLS session (use_tls_)
    todo,      \* todo[w]: frames w has not begun to send
    rest,      \* rest[w]: bytes of its current frame not yet written
    retries,   \* retries[w]: writes refused in a row
    sent,      \* the frames begun that are not too large, in the order of the calls
    failed,    \* calls of send_to_radio that returned false
    conn,      \* "open", "eof": closed by the other end, "reset": broken
    wire,      \* bytes in the connection
    pending,   \* bytes the TLS library has read and not handed on
    got,       \* every byte read so far
    parser,    \* the read_loop's buffer, state, payload_len and frame_type
    pc,        \* the read_loop: "poll", "parse" or "ended"
    delivered, \* frames emitted as events
    reported   \* what the end of the loop reported

vars == <<tls, todo, rest, retries, sent, failed, conn, wire, pending, got,
          parser, pc, delivered, reported>>

Init ==
    /\ tls \in Sessions
    /\ todo = Script
    /\ rest = [w \in Writer |-> <<>>]
    /\ retries = [w \in Writer |-> 0]
    /\ sent = <<>>
    /\ failed = 0
    /\ conn = "open"
    /\ wire = Noise
    /\ pending = <<>>
    /\ got = <<>>
    /\ parser = NewParser
    /\ pc = "poll"
    /\ delivered = <<>>
    /\ reported = "nothing"

-----------------------------------------------------------------------------
(* send_to_radio, called by thread w *)

\* A call begins.  An oversized payload leaves nothing to write, and the call
\* returns true.
StartSend(w) ==
    /\ rest[w] = <<>> /\ todo[w] # <<>>
    /\ rest' = [rest EXCEPT ![w] = Encoded(Head(todo[w]))]
    /\ sent' = IF Fits(Head(todo[w])) THEN Append(sent, Head(todo[w])) ELSE sent
    /\ todo' = [todo EXCEPT ![w] = Tail(@)]
    /\ retries' = [retries EXCEPT ![w] = 0]
    /\ UNCHANGED <<tls, failed, conn, wire, pending, got, parser, pc, delivered, reported>>

\* The call returns false; what was written of its frame stays written.
GiveUp(w) ==
    /\ rest' = [rest EXCEPT ![w] = <<>>]
    /\ retries' = [retries EXCEPT ![w] = 0]
    /\ failed' = failed + 1
    /\ UNCHANGED wire

Exhausted(n) == n >= MaxRetries

\* One write call: it takes some of the bytes, or is refused (EAGAIN, EINTR).
Write(w) ==
    /\ rest[w] # <<>>
    /\ \/ /\ conn = "open"
          /\ \E n \in 1 .. Len(rest[w]) :
                /\ Len(wire) + n <= Capacity
                /\ wire' = wire \o SubSeq(rest[w], 1, n)
                /\ rest' = [rest EXCEPT ![w] = Dropped(@, n)]
          /\ retries' = [retries EXCEPT ![w] = 0]
          /\ UNCHANGED failed
       \/ /\ conn = "open" /\ Len(wire) >= Capacity
          /\ IF Exhausted(retries[w] + 1)
             THEN GiveUp(w)
             ELSE /\ retries' = [retries EXCEPT ![w] = @ + 1]
                  /\ UNCHANGED <<rest, failed, wire>>
       \/ /\ conn # "open"
          /\ GiveUp(w)
    /\ UNCHANGED <<tls, todo, sent, conn, pending, got, parser, pc, delivered, reported>>

-----------------------------------------------------------------------------
(* read_loop *)

Readable == wire # <<>> \/ conn # "open"

\* What a read returned is appended to the buffer.
Take(bytes) ==
    /\ bytes # <<>>
    /\ got' = got \o bytes
    /\ parser' = [parser EXCEPT !.buf = @ \o bytes]
    /\ pc' = "parse"
    /\ UNCHANGED <<tls, todo, rest, retries, sent, failed, conn, delivered, reported>>

Upto(n, s) == SubSeq(s, 1, IF n < Len(s) THEN n ELSE Len(s))

\* read(): up to ReadMax of the bytes that have arrived.
ReadPlain ==
    /\ pc = "poll" /\ ~ tls
    /\ \E n \in 1 .. ReadMax :
          /\ n <= Len(wire)
          /\ Take(SubSeq(wire, 1, n))
          /\ wire' = Dropped(wire, n)
    /\ UNCHANGED pending

\* SSL_read(): up to ReadMax of the record at hand, or of the next one, once
\* poll has reported the socket readable.
ReadTls ==
    /\ pc = "poll" /\ tls /\ Readable
    /\ \/ /\ pending # <<>>
          /\ Take(Upto(ReadMax, pending))
          /\ pending' = Dropped(pending, ReadMax)
          /\ UNCHANGED wire
       \/ /\ pending = <<>>
          /\ \E n \in 1 .. Len(wire) :
                LET record == SubSeq(wire, 1, n)
                IN  /\ Take(Upto(ReadMax, record))
                    /\ pending' = Dropped(record, ReadMax)
                    /\ wire' = Dropped(wire, n)

\* Mutant: a closed connection is not read to its end.
ReadEndAtHangup ==
    /\ pc = "poll" /\ conn # "open"
    /\ pc' = "ended"
    /\ reported' = "disconnected"
    /\ UNCHANGED <<tls, todo, rest, retries, sent, failed, conn, wire, pending, got,
                   parser, delivered>>

\* The end of the stream, or an error.  Only a plain read tells them apart:
\* every failure of SSL_read counts as the end.
ReadEnd ==
    /\ pc = "poll" /\ conn # "open" /\ wire = <<>> /\ pending = <<>>
    /\ pc' = "ended"
    /\ reported' = IF conn = "reset" /\ ~ tls THEN "error" ELSE "disconnected"
    /\ UNCHANGED <<tls, todo, rest, retries, sent, failed, conn, wire, pending, got,
                   parser, delivered>>

\* One pass of the inner loop, or the way back to poll.
Parse ==
    /\ pc = "parse"
    /\ IF GoesOn(parser)
       THEN \E p \in {Pass(parser)} :
               /\ parser' = Kept(p)
               /\ delivered' = delivered \o p.frames
               /\ pc' = IF p.leave THEN "poll" ELSE "parse"
       ELSE /\ pc' = "poll"
            /\ UNCHANGED <<parser, delivered>>
    /\ UNCHANGED <<tls, todo, rest, retries, sent, failed, conn, wire, pending, got, reported>>

Reader == ReadPlain \/ ReadTls \/ ReadEnd \/ Parse

-----------------------------------------------------------------------------
(* The other end and the network *)

AllWritten == \A w \in Writer : todo[w] = <<>> /\ rest[w] = <<>>

\* The sending end closes after its last frame.
Close ==
    /\ conn = "open" /\ AllWritten
    /\ conn' = "eof"
    /\ UNCHANGED <<tls, todo, rest, retries, sent, failed, wire, pending, got, parser,
                   pc, delivered, reported>>

\* The connection breaks: what it still held is lost.
Reset ==
    /\ conn = "open"
    /\ conn' = "reset"
    /\ wire' = <<>>
    /\ UNCHANGED <<tls, todo, rest, retries, sent, failed, pending, got, parser,
                   pc, delivered, reported>>

Next ==
    \/ \E w \in Writer : StartSend(w) \/ Write(w)
    \/ Reader
    \/ Close
    \/ Reset

Spec == Init /\ [][Next]_vars

\* Every thread keeps running; nobody owes a close.
Fairness ==
    /\ \A w \in Writer : WF_vars(StartSend(w) \/ Write(w))
    /\ WF_vars(Reader)

FairSpec == Spec /\ Fairness

-----------------------------------------------------------------------------
(* Properties *)

IsPrefixOf(s, t) == Len(s) <= Len(t) /\ s = SubSeq(t, 1, Len(s))

TypeOK ==
    /\ tls \in Sessions
    /\ todo \in [Writer -> Seq(Frame)]
    /\ rest \in [Writer -> Seq(Byte)]
    /\ retries \in [Writer -> 0 .. MaxRetries - 1]
    /\ sent \in Seq(Frame)
    /\ failed \in Nat
    /\ conn \in {"open", "eof", "reset"}
    /\ wire \in Seq(Byte) /\ pending \in Seq(Byte) /\ got \in Seq(Byte)
    /\ parser \in [buf : Seq(Byte), state : ParserState, len : 0 .. MaxLength, marker : Marker]
    /\ pc \in {"poll", "parse", "ended"}
    /\ delivered \in Seq(Frame)
    /\ reported \in {"nothing", "disconnected", "error"}

\* However reads cut the byte stream, and whatever noise precedes a frame, the
\* frames handed on are those in the bytes read so far (read_loop keeps its
\* state between reads); while the loop waits in poll at most the last of them
\* is held back, and only with fewer than four bytes left in the buffer.
ChunkingIsInvisible ==
    LET all == Parsed(got)
    IN  /\ TypeOK
        /\ IsPrefixOf(delivered, all)
        /\ pc = "poll" => \/ Len(delivered) = Len(all)
                          \/ Len(delivered) + 1 = Len(all) /\ Len(parser.buf) < 4

\* As long as no send_to_radio failed, the frames delivered are the frames
\* sent, in order, except those that were too large to be framed.
SentInOrder ==
    failed = 0 => IsPrefixOf(delivered, sent)

Broken == failed > 0 \/ conn # "open"
Owed == Len(sent) - Len(delivered)

\* The last frame's payload is in the buffer, but the inner loop wants four bytes.
ShortHeld ==
    Owed = 1 /\ parser.state = "ReadPayload" /\ parser.len <= Len(parser.buf) /\ Len(parser.buf) < 4

\* While the connection works and nothing more is sent, all that was sent is
\* handed on in the end, and what stays behind for good is at most the last
\* frame, with a payload of less than four bytes, or, over TLS, frames that end
\* in the rest of the last record: the library has it and poll does not see it.
HeldBackAtMost ==
    <>[](\/ Broken
         \/ /\ AllWritten /\ wire = <<>> /\ pc = "poll"
            /\ Owed = 0 \/ ShortHeld \/ (tls /\ pending # <<>>))

\* When the other end has closed, the loop does not end before everything it
\* wrote has been read and handed on, but for a short last frame.
NothingLostAtClose ==
    (pc = "ended" /\ conn = "eof" /\ failed = 0) =>
        \/ Owed = 0
        \/ Owed = 1 /\ Len(parser.buf) < 4
=============================================================================
