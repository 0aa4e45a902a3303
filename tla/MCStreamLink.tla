---------------------------- MODULE MCStreamLink ----------------------------
(***************************************************************************)
(* Instances of StreamLink for TLC: a few short frames, some made of the   *)
(* header's own bytes, over a connection that holds a handful of bytes.    *)
(***************************************************************************)
EXTENDS StreamLink

CONSTANT u   \* the sending thread

F(marker, payload) == [marker |-> marker, payload |-> payload]

\* Log output with a false start, and a 0x94 right before a real one.
LogNoise == <<7, 148, 7, 148>>

\* A frame that is too large, one that looks like a header, and a short one.
MixedFrames == [w \in Writer |-> <<F(208, <<1, 2, 3, 4, 5, 6, 7>>),
                                   F(195, <<148, 195, 0, 1>>),
                                   F(209, <<148, 148>>)>>]

PlainOrTls == BOOLEAN
=============================================================================
