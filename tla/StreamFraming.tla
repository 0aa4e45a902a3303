--------------------------- MODULE StreamFraming ---------------------------
(***************************************************************************)
(* The framing of StreamClient and StreamServer                            *)
(* (src/src/stream/stream_client.cpp: frame and the body of read_loop; the *)
(* client threads of stream_server.cpp run the same loop):                 *)
(*                                                                         *)
(*     0x94 <marker> <len_hi> <len_lo> <payload>                           *)
(*                                                                         *)
(* The reader appends what a read returned to a buffer and then runs       *)
(* passes over it.  A pass runs five stages, each guarded by the parser's  *)
(* state and by what is left in the buffer, so that one pass may take the  *)
(* parser through all of them.                                             *)
(***************************************************************************)
EXTENDS Integers, Sequences, FiniteSets

CONSTANT MaxPayload   \* the largest payload frame() accepts (65,000)

Byte == 0 .. 255
MaxLength == 65535           \* what the header's two length bytes can say

ASSUME FramingAssumption == MaxPayload \in 0 .. MaxLength

Start1 == 148                \* 0x94
Marker == {195, 208, 209}    \* 0xC3, 0xD0, 0xD1

Frame == [marker : Marker, payload : Seq(Byte)]

Fits(f) == Len(f.payload) <= MaxPayload

\* Mutant: the size is not tested.
EncodedAnySize(f) ==
    <<Start1, f.marker, Len(f.payload) \div 256, Len(f.payload) % 256>> \o f.payload

\* frame(): an oversized payload gives no bytes at all.
Encoded(f) ==
    IF ~ Fits(f) THEN <<>>
    ELSE <<Start1, f.marker, Len(f.payload) \div 256, Len(f.payload) % 256>>
            \o f.payload

Dropped(s, n) == SubSeq(s, n + 1, Len(s))

-----------------------------------------------------------------------------
(* The parser.  `leave` says that the inner loop is left by a break,       *)
(* `again` that the pass ends in a continue; frames: those it completed.   *)

ParserState == {"WaitStart1", "WaitStart2", "ReadLenHi", "ReadLenLo", "ReadPayload"}

NewParser == [buf |-> <<>>, state |-> "WaitStart1", len |-> 0, marker |-> 195]

StartsIn(buf) == {i \in DOMAIN buf : buf[i] = Start1}

\* WaitStart1: skip to the first 0x94; without one, keep the last byte.
FindStart(p) ==
    LET starts == StartsIn(p.buf)
    IN  IF p.state # "WaitStart1" THEN p
        ELSE IF starts = {}
        THEN [p EXCEPT !.buf = Dropped(@, Len(@) - 1), !.leave = TRUE]
        ELSE LET first == CHOOSE i \in starts : \A j \in starts : i <= j
             IN  [p EXCEPT !.buf = Dropped(@, first - 1), !.state = "WaitStart2"]

\* Mutant: the byte after a false start is dropped with it.
ReadMarkerSkippingTwo(p) ==
    IF p.leave \/ p.state # "WaitStart2" \/ Len(p.buf) < 2 THEN p
    ELSE IF p.buf[2] \in Marker
    THEN [p EXCEPT !.marker = p.buf[2], !.buf = Dropped(@, 2), !.state = "ReadLenHi"]
    ELSE [p EXCEPT !.buf = Dropped(@, 2), !.state = "WaitStart1", !.again = TRUE]

\* WaitStart2: the second byte is a marker, or the 0x94 was no start.
ReadMarker(p) ==
    IF p.leave \/ p.state # "WaitStart2" \/ Len(p.buf) < 2 THEN p
    ELSE IF p.buf[2] \in Marker
    THEN [p EXCEPT !.marker = p.buf[2], !.buf = Dropped(@, 2), !.state = "ReadLenHi"]
    ELSE [p EXCEPT !.buf = Dropped(@, 1), !.state = "WaitStart1", !.again = TRUE]

Ended(p) == p.leave \/ p.again

ReadLenHigh(p) ==
    IF Ended(p) \/ p.state # "ReadLenHi" \/ p.buf = <<>> THEN p
    ELSE [p EXCEPT !.len = 256 * p.buf[1], !.buf = Dropped(@, 1), !.state = "ReadLenLo"]

ReadLenLow(p) ==
    IF Ended(p) \/ p.state # "ReadLenLo" \/ p.buf = <<>> THEN p
    ELSE [p EXCEPT !.len = @ + p.buf[1], !.buf = Dropped(@, 1), !.state = "ReadPayload"]

\* ReadPayload: hand the payload on, or leave the loop to wait for more.
TakePayload(p) ==
    IF Ended(p) \/ p.state # "ReadPayload" THEN p
    ELSE IF Len(p.buf) < p.len THEN [p EXCEPT !.leave = TRUE]
    ELSE [p EXCEPT !.frames = <<[marker |-> p.marker, payload |-> SubSeq(p.buf, 1, p.len)]>>,
                   !.buf = Dropped(@, p.len),
                   !.state = "WaitStart1"]

\* One pass of the inner loop.
Pass(p) ==
    LET start == [buf |-> p.buf, state |-> p.state, len |-> p.len,
                  marker |-> p.marker, leave |-> FALSE, again |-> FALSE,
                  frames |-> <<>>]
        marked == ReadMarker(FindStart(start))
        sized == ReadLenLow(ReadLenHigh(marked))
    IN  TakePayload(sized)

Kept(p) == [buf |-> p.buf, state |-> p.state, len |-> p.len, marker |-> p.marker]

\* Mutant: a whole frame must be buffered, though its header is gone already.
GoesOnWhole(p) == Len(p.buf) >= 4 + p.len

\* The condition of the inner loop.
GoesOn(p) == Len(p.buf) >= 4

-----------------------------------------------------------------------------
(* What framing means, read off the whole byte stream at once *)

IsHeader(b, i) == i + 3 <= Len(b) /\ b[i] = Start1 /\ b[i + 1] \in Marker
LenAt(b, i) == 256 * b[i + 2] + b[i + 3]

\* The complete frames in b from each place on: a frame starts at the first
\* header found, and the next one after its end.
FramesFrom(b) ==
    LET from[i \in 1 .. Len(b) + 1] ==
            IF i > Len(b) THEN <<>>
            ELSE IF ~ IsHeader(b, i) THEN from[i + 1]
            ELSE IF i + 3 + LenAt(b, i) > Len(b) THEN <<>>
            ELSE <<[marker |-> b[i + 1],
                    payload |-> SubSeq(b, i + 4, i + 3 + LenAt(b, i))]>>
                 \o from[i + 4 + LenAt(b, i)]
    IN  from

\* The complete frames in b.
Parsed(b) == FramesFrom(b)[1]
=============================================================================
