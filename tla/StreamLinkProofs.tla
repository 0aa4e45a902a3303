-------------------------- MODULE StreamLinkProofs --------------------------
(***************************************************************************)
(* Theorems of StreamLink, for every set of writers and scripts, any noise *)
(* on the line and all limits: what read_loop hands on does not depend on  *)
(* how the bytes were cut into reads.                                      *)
(***************************************************************************)
EXTENDS StreamLink, SequenceTheorems, WellFoundedInduction, TLAPS

-----------------------------------------------------------------------------
(* Induction over the numbers in a set *)

\* A set of numbers that holds a number whenever it holds all smaller ones
\* holds them all.
LEMMA AllNumbers ==
    ASSUME NEW S \in SUBSET Nat,
           \A n \in Nat : (\A m \in Nat : m < n => m \in S) => n \in S
    PROVE  S = Nat
<1> DEFINE R == OpToRel(<, Nat)
           T == Nat \ S
<1>1. IsWellFoundedOn(R, Nat)
  BY NatLessThanWellFounded
<1>2. \A x, y \in Nat : y < x => <<y, x>> \in R
  BY DEF OpToRel
<1> HIDE DEF R
<1>3. T # {} => \E x \in T : \A y \in T : ~ (<<y, x>> \in R)
  BY <1>1, WFMin
<1>4. ASSUME NEW x \in T, \A y \in T : ~ (<<y, x>> \in R) PROVE FALSE
  <2>1. \A m \in Nat : m < x => m \in S
    BY <1>2, <1>4
  <2> QED
    BY <2>1
<1> QED
  BY <1>3, <1>4

-----------------------------------------------------------------------------
(* What FramesFrom computes *)

\* The frames from place i on, given those from later places.
FramesAt(b, f, i) ==
    IF i > Len(b) THEN <<>>
    ELSE IF ~ IsHeader(b, i) THEN f[i + 1]
    ELSE IF i + 3 + LenAt(b, i) > Len(b) THEN <<>>
    ELSE <<[marker |-> b[i + 1], payload |-> SubSeq(b, i + 4, i + 3 + LenAt(b, i))]>>
         \o f[i + 4 + LenAt(b, i)]

\* The number in two bytes.
Number(hi, lo) == 256 * hi + lo
Length == 0 .. MaxLength

LEMMA LengthIsNat == MaxLength \in Nat /\ Length \subseteq Nat
<1>1. MaxLength \in Nat
  BY SMT DEF MaxLength
<1> QED
  BY <1>1, SMT DEF Length

LEMMA TwoBytes == \A hi, lo \in Byte : Number(hi, lo) \in Length
<1>1. \A x, y \in Int : 0 <= x /\ x <= 255 /\ 0 <= y /\ y <= 255 => 256 * x + y <= MaxLength
  BY SMT DEF MaxLength
<1>2. \A x, y \in Int : 0 <= x /\ 0 <= y => 0 <= 256 * x + y /\ 256 * x + y \in Int
  BY SMT
<1>3. \A x \in Byte : x \in Int /\ 0 <= x /\ x <= 255
  BY SMT DEF Byte
<1>4. \A x \in Int : 0 <= x /\ x <= MaxLength => x \in Length
  BY LengthIsNat, SMT DEF Length
<1>5. \A x, y \in Byte : Number(x, y) = 256 * x + y
  BY SMT DEF Number
<1>6. \A x, y \in Byte : 256 * x + y \in Length
  BY <1>1, <1>2, <1>3, <1>4, SMT
<1> QED
  BY <1>5, <1>6, SMT

LEMMA LengthAt ==
    ASSUME NEW b \in Seq(Byte), NEW i \in Nat, i >= 1, i + 3 <= Len(b)
    PROVE  /\ LenAt(b, i) = Number(b[i + 2], b[i + 3])
           /\ LenAt(b, i) \in Length
           /\ LenAt(b, i) \in Nat
<1>1. /\ Len(b) \in Nat /\ i + 2 \in 1 .. Len(b) /\ i + 3 \in 1 .. Len(b)
  BY LenProperties
<1>2. b[i + 2] \in Byte /\ b[i + 3] \in Byte
  BY <1>1, ElementOfSeq
<1>3. LenAt(b, i) = Number(b[i + 2], b[i + 3])
  BY DEF LenAt, Number
<1>4. LenAt(b, i) \in Length
  BY <1>2, <1>3, TwoBytes, Zenon
<1> QED
  BY <1>3, <1>4, LengthIsNat, Zenon

\* It looks at later places only.
LEMMA FramesAtLater ==
    ASSUME NEW b \in Seq(Byte), NEW i \in 1 .. Len(b) + 1, NEW f, NEW g,
           \A j \in i + 1 .. Len(b) + 1 : f[j] = g[j]
    PROVE  FramesAt(b, f, i) = FramesAt(b, g, i)
<1>1. Len(b) \in Nat
  BY LenProperties
<1>2. CASE i > Len(b)
  BY <1>2 DEF FramesAt
<1>3. CASE i <= Len(b) /\ ~ IsHeader(b, i)
  <2>1. i + 1 \in i + 1 .. Len(b) + 1
    BY <1>1, <1>3
  <2> QED
    BY <1>1, <1>3, <2>1 DEF FramesAt
<1>4. CASE i <= Len(b) /\ IsHeader(b, i)
  <2>1. i \in Nat /\ i >= 1 /\ i + 3 <= Len(b)
    BY <1>1, <1>4 DEF IsHeader
  <2>2. LenAt(b, i) \in Nat
    BY <2>1, LengthAt
  <2>3. \A n, m \in Nat :
           i + 3 + n > m \/ (i + 3 + n <= m /\ i + 4 + n \in i + 1 .. m + 1)
    BY <2>1
  <2>4. \/ i + 3 + LenAt(b, i) > Len(b)
        \/ i + 4 + LenAt(b, i) \in i + 1 .. Len(b) + 1
    BY <1>1, <2>2, <2>3, Zenon
  <2>5. \/ i + 3 + LenAt(b, i) > Len(b)
        \/ f[i + 4 + LenAt(b, i)] = g[i + 4 + LenAt(b, i)]
    BY <2>4, Zenon
  <2> QED
    BY <1>4, <2>5, Zenon DEF FramesAt
<1> QED
  BY <1>1, <1>2, <1>3, <1>4

\* There is a function that does this at every place, by induction from the end
\* of the bytes backwards.
LEMMA FramesExist ==
    ASSUME NEW b \in Seq(Byte)
    PROVE  \E f : f = [i \in 1 .. Len(b) + 1 |-> FramesAt(b, f, i)]
<1> DEFINE N == Len(b) + 1
           Fits2(f, m) == \A i \in N - m .. N : f[i] = FramesAt(b, f, i)
           S == {m \in Nat : m <= Len(b) => \E f : f = [i \in N - m .. N |-> f[i]] /\ Fits2(f, m)}
<1>1. Len(b) \in Nat
  BY LenProperties
<1>2. ASSUME NEW m \in Nat, \A k \in Nat : k < m => k \in S, m <= Len(b)
      PROVE  \E f : f = [i \in N - m .. N |-> f[i]] /\ Fits2(f, m)
  <2>1. PICK f : \A i \in N - m + 1 .. N : f[i] = FramesAt(b, f, i)
    <3>1. CASE m = 0
      BY <1>1, <3>1
    <3>2. CASE m > 0
      <4>1. m - 1 \in Nat /\ m - 1 < m /\ m - 1 <= Len(b) /\ N - (m - 1) = N - m + 1
        BY <1>1, <1>2, <3>2
      <4>2. m - 1 \in S
        BY <1>2, <4>1
      <4> QED
        BY <4>1, <4>2
    <3> QED
      BY <3>1, <3>2
  <2> DEFINE g == [i \in N - m .. N |-> IF i = N - m THEN FramesAt(b, f, i) ELSE f[i]]
  <2>2. \A j \in N - m + 1 .. N : g[j] = f[j]
    BY <1>1
  <2>3. \A i \in N - m .. N : i \in 1 .. Len(b) + 1 /\ \A j \in i + 1 .. Len(b) + 1 : j \in N - m + 1 .. N
    BY <1>1, <1>2
  <2>4. g = [i \in N - m .. N |-> g[i]]
    OBVIOUS
  <2>5. \A i \in N - m .. N : g[i] = FramesAt(b, f, i)
    <3>1. \A i \in N - m .. N : i = N - m \/ i \in N - m + 1 .. N
      BY <1>1
    <3> QED
      BY <2>1, <3>1
  <2> HIDE DEF g
  <2>6. \A i \in N - m .. N : FramesAt(b, g, i) = FramesAt(b, f, i)
    <3> SUFFICES ASSUME NEW i \in N - m .. N PROVE FramesAt(b, g, i) = FramesAt(b, f, i)
      OBVIOUS
    <3>1. i \in 1 .. Len(b) + 1 /\ \A j \in i + 1 .. Len(b) + 1 : g[j] = f[j]
      BY <2>2, <2>3
    <3> QED
      BY <3>1, FramesAtLater
  <2> QED
    BY <2>4, <2>5, <2>6
<1>3. \A m \in Nat : (\A k \in Nat : k < m => k \in S) => m \in S
  BY <1>2
<1>4. S \in SUBSET Nat
  OBVIOUS
<1> HIDE DEF S
<1>5. Len(b) \in S
  BY <1>1, <1>3, <1>4, AllNumbers
<1>6. N - Len(b) = 1 /\ Len(b) <= Len(b)
  BY <1>1
<1>7. PICK f : f = [i \in 1 .. N |-> f[i]] /\ \A i \in 1 .. N : f[i] = FramesAt(b, f, i)
  BY <1>5, <1>6 DEF S
<1> QED
  BY <1>7

LEMMA FramesFromIs ==
    ASSUME NEW b \in Seq(Byte), NEW i \in 1 .. Len(b) + 1
    PROVE  FramesFrom(b)[i] = FramesAt(b, FramesFrom(b), i)
<1>1. FramesFrom(b) = CHOOSE f : f = [j \in 1 .. Len(b) + 1 |-> FramesAt(b, f, j)]
  BY DEF FramesFrom, FramesAt
<1>2. FramesFrom(b) = [j \in 1 .. Len(b) + 1 |-> FramesAt(b, FramesFrom(b), j)]
  BY <1>1, FramesExist
<1> QED
  BY <1>2


-----------------------------------------------------------------------------
(* Frames from a place on *)

\* A set of numbers that is not empty has a smallest one.
LEMMA Smallest ==
    ASSUME NEW T \in SUBSET Nat, T # {}
    PROVE  \E i \in T : \A j \in T : i <= j
<1> DEFINE S == Nat \ T
<1>1. SUFFICES ASSUME \A i \in T : \E j \in T : j < i PROVE FALSE
  OBVIOUS
<1>2. ASSUME NEW n \in Nat, \A m \in Nat : m < n => m \in S PROVE n \in S
  BY <1>1, <1>2
<1>3. S \in SUBSET Nat
  OBVIOUS
<1> HIDE DEF S
<1>4. S = Nat
  BY <1>2, <1>3, AllNumbers
<1> QED
  BY <1>4 DEF S

\* What follows a complete frame, and nothing for an incomplete one.
LEMMA FrameFirst ==
    ASSUME NEW b \in Seq(Byte), NEW i \in 1 .. Len(b) + 1, IsHeader(b, i)
    PROVE  /\ i + 3 + LenAt(b, i) > Len(b) => FramesFrom(b)[i] = <<>>
           /\ i + 3 + LenAt(b, i) <= Len(b) =>
                FramesFrom(b)[i] =
                  <<[marker |-> b[i + 1], payload |-> SubSeq(b, i + 4, i + 3 + LenAt(b, i))]>>
                    \o FramesFrom(b)[i + 4 + LenAt(b, i)]
<1>1. /\ Len(b) \in Nat /\ i \in Nat /\ i >= 1 /\ i + 3 <= Len(b) /\ ~ (i > Len(b))
  BY LenProperties DEF IsHeader
<1>2. LenAt(b, i) \in Nat
  BY <1>1, LengthAt
<1>3. \A n, m \in Nat : i + 3 + n <= m => ~ (i + 3 + n > m)
  BY <1>1
<1>4. i + 3 + LenAt(b, i) <= Len(b) => ~ (i + 3 + LenAt(b, i) > Len(b))
  BY <1>1, <1>2, <1>3
<1>5. FramesFrom(b)[i] = FramesAt(b, FramesFrom(b), i)
  BY FramesFromIs
<1> QED
  BY <1>1, <1>4, <1>5, Zenon DEF FramesAt

LEMMA NoFrameHere ==
    ASSUME NEW b \in Seq(Byte), NEW i \in 1 .. Len(b) + 1, ~ IsHeader(b, i)
    PROVE  FramesFrom(b)[i] = IF i > Len(b) THEN <<>> ELSE FramesFrom(b)[i + 1]
<1>1. FramesFrom(b)[i] = FramesAt(b, FramesFrom(b), i)
  BY FramesFromIs
<1> QED
  BY <1>1, Zenon DEF FramesAt

\* Bytes that begin no header are skipped.
LEMMA Skipped ==
    ASSUME NEW b \in Seq(Byte), NEW i \in 1 .. Len(b) + 1, NEW j \in 1 .. Len(b) + 1, i <= j,
           \A k \in i .. j - 1 : ~ IsHeader(b, k)
    PROVE  FramesFrom(b)[i] = FramesFrom(b)[j]
<1> DEFINE S == {n \in Nat : n <= j - i => FramesFrom(b)[j - n] = FramesFrom(b)[j]}
<1>1. Len(b) \in Nat /\ i \in Nat /\ j \in Nat /\ j - i \in Nat /\ i >= 1 /\ j <= Len(b) + 1
  BY LenProperties
<1>2. ASSUME NEW n \in Nat, \A m \in Nat : m < n => m \in S PROVE n \in S
  <2>1. CASE n = 0
    BY <1>1, <2>1
  <2>2. CASE n > 0 /\ n <= j - i
    <3>1. n - 1 \in Nat /\ n - 1 < n /\ n - 1 <= j - i /\ j - (n - 1) = j - n + 1
      BY <1>1, <2>2
    <3>2. FramesFrom(b)[j - n + 1] = FramesFrom(b)[j]
      BY <1>2, <3>1
    <3>3. j - n \in 1 .. Len(b) + 1 /\ j - n \in i .. j - 1 /\ ~ (j - n > Len(b))
      BY <1>1, <2>2
    <3>4. FramesFrom(b)[j - n] = FramesFrom(b)[j - n + 1]
      BY <3>3, NoFrameHere
    <3> QED
      BY <3>2, <3>4
  <2> QED
    BY <1>1, <2>1, <2>2
<1>3. S \in SUBSET Nat
  OBVIOUS
<1> HIDE DEF S
<1>4. j - i \in S
  BY <1>1, <1>2, <1>3, AllNumbers
<1>5. j - i <= j - i /\ j - (j - i) = i
  BY <1>1
<1> QED
  BY <1>4, <1>5 DEF S

\* The last three bytes begin no frame.
LEMMA TooShort ==
    ASSUME NEW b \in Seq(Byte), NEW i \in 1 .. Len(b) + 1, i + 3 > Len(b)
    PROVE  FramesFrom(b)[i] = <<>>
<1>1. Len(b) \in Nat /\ i \in Nat /\ Len(b) + 1 \in 1 .. Len(b) + 1 /\ i <= Len(b) + 1
      /\ Len(b) + 1 > Len(b)
  BY LenProperties
<1>2. \A k \in i .. Len(b) + 1 : ~ IsHeader(b, k)
  BY <1>1 DEF IsHeader
<1>3. FramesFrom(b)[i] = FramesFrom(b)[Len(b) + 1]
  <2>1. \A k \in i .. (Len(b) + 1) - 1 : ~ IsHeader(b, k)
    BY <1>1, <1>2
  <2> QED
    BY <1>1, <2>1, Skipped
<1>4. ~ IsHeader(b, Len(b) + 1)
  BY <1>1, <1>2
<1> QED
  BY <1>1, <1>3, <1>4, NoFrameHere

LEMMA FrameThere ==
    ASSUME NEW b \in Seq(Byte), NEW i \in 1 .. Len(b), IsHeader(b, i),
           i + 3 + LenAt(b, i) <= Len(b)
    PROVE  /\ [marker |-> b[i + 1], payload |-> SubSeq(b, i + 4, i + 3 + LenAt(b, i))] \in Frame
           /\ i + 4 + LenAt(b, i) \in i + 1 .. Len(b) + 1
<1>1. Len(b) \in Nat /\ i \in Nat /\ i >= 1 /\ i + 3 <= Len(b)
  BY LenProperties DEF IsHeader
<1>2. LenAt(b, i) \in Nat
  BY <1>1, LengthAt
<1> DEFINE n == LenAt(b, i)
<1>3. n \in Nat /\ i + 3 + n <= Len(b)
  BY <1>2
<1> HIDE DEF n
<1>4. i + 4 + n \in i + 1 .. Len(b) + 1
  BY <1>1, <1>3
<1>5. \A k \in i + 4 .. i + 3 + n : k \in 1 .. Len(b)
  BY <1>1, <1>3
<1>6. \A k \in 1 .. Len(b) : b[k] \in Byte
  BY ElementOfSeq
<1>7. i + 4 \in Int /\ i + 3 + n \in Int
  BY <1>1, <1>3
<1>8. SubSeq(b, i + 4, i + 3 + n) \in Seq(Byte)
  BY <1>5, <1>6, <1>7, SubSeqProperties
<1>9. b[i + 1] \in Marker
  BY DEF IsHeader
<1> QED
  BY <1>4, <1>8, <1>9 DEF Frame, n

LEMMA FramesAreFrames ==
    ASSUME NEW b \in Seq(Byte), NEW i \in 1 .. Len(b) + 1
    PROVE  FramesFrom(b)[i] \in Seq(Frame)
<1> DEFINE N == Len(b) + 1
           S == {n \in Nat : n <= Len(b) => FramesFrom(b)[N - n] \in Seq(Frame)}
<1>1. Len(b) \in Nat /\ i \in Nat
  BY LenProperties
<1>2. ASSUME NEW n \in Nat, \A m \in Nat : m < n => m \in S, n <= Len(b)
      PROVE  FramesFrom(b)[N - n] \in Seq(Frame)
  <2> DEFINE j == N - n
  <2>1. j \in 1 .. Len(b) + 1 /\ j \in Nat /\ N - j = n
    BY <1>1, <1>2
  <2>2. \A k \in j + 1 .. N : N - k \in Nat /\ N - k < n /\ N - k <= Len(b) /\ N - (N - k) = k
    BY <1>1, <1>2, <2>1
  <2>3. \A k \in j + 1 .. N : FramesFrom(b)[k] \in Seq(Frame)
    BY <1>2, <2>2
  <2> HIDE DEF j, S
  <2>4. CASE ~ IsHeader(b, j)
    <3>1. j > Len(b) \/ j + 1 \in j + 1 .. N
      BY <1>1, <2>1
    <3>2. FramesFrom(b)[j] = <<>> \/ FramesFrom(b)[j] \in Seq(Frame)
      BY <2>1, <2>3, <2>4, <3>1, NoFrameHere
    <3> QED
      BY <3>2, EmptySeq DEF j
  <2>5. CASE IsHeader(b, j)
    <3>1. j \in 1 .. Len(b) /\ j >= 1 /\ j + 3 <= Len(b)
      BY <1>1, <2>1, <2>5 DEF IsHeader
    <3>2. LenAt(b, j) \in Nat
      BY <2>1, <3>1, LengthAt
    <3>3. j + 3 + LenAt(b, j) > Len(b) \/ j + 3 + LenAt(b, j) <= Len(b)
      BY <1>1, <2>1, <3>2
    <3>4. CASE j + 3 + LenAt(b, j) > Len(b)
      <4>1. FramesFrom(b)[j] = <<>>
        BY <2>1, <2>5, <3>4, FrameFirst, Zenon
      <4> QED
        BY <4>1, EmptySeq DEF j
    <3>5. CASE j + 3 + LenAt(b, j) <= Len(b)
      <4> DEFINE f == [marker |-> b[j + 1], payload |-> SubSeq(b, j + 4, j + 3 + LenAt(b, j))]
                 k == j + 4 + LenAt(b, j)
      <4>1. f \in Frame /\ k \in j + 1 .. N
        BY <2>5, <3>1, <3>5, FrameThere, Zenon
      <4>2. FramesFrom(b)[j] = <<f>> \o FramesFrom(b)[k]
        BY <2>1, <2>5, <3>5, FrameFirst, Zenon
      <4> HIDE DEF f, k
      <4>3. <<f>> \in Seq(Frame) /\ FramesFrom(b)[k] \in Seq(Frame)
        BY <2>3, <4>1
      <4>4. <<f>> \o FramesFrom(b)[k] \in Seq(Frame)
        BY <4>3, ConcatProperties
      <4> QED
        BY <4>2, <4>4 DEF j
    <3> QED
      BY <3>3, <3>4, <3>5
  <2> QED
    BY <2>4, <2>5
<1>3. S \in SUBSET Nat /\ \A n \in Nat : (\A m \in Nat : m < n => m \in S) => n \in S
  BY <1>2
<1>4. N - i \in Nat /\ N - i <= Len(b) /\ N - (N - i) = i
  BY <1>1
<1> HIDE DEF S
<1>5. N - i \in S
  BY <1>3, <1>4, AllNumbers
<1> QED
  BY <1>4, <1>5 DEF S

-----------------------------------------------------------------------------
(* Where the parser stands in the bytes *)

\* Bytes of a header that are no longer in the buffer.
Taken(state) ==
    IF state = "ReadLenHi" THEN 2
    ELSE IF state = "ReadLenLo" THEN 3
    ELSE IF state = "ReadPayload" THEN 4
    ELSE 0

\* The buffer holds the last of the first t bytes of b.
Aligned(buf, b, t) ==
    /\ t - Len(buf) \in Nat
    /\ \A i \in 1 .. Len(buf) : buf[i] = b[t - Len(buf) + i]

\* The place from which the parser has not handed on anything yet.
Front(p, t) == t - Len(p.buf) + 1 - Taken(p.state)

\* What the parser knows of the header at that place is right.
HeaderRead(p, b, t) ==
    /\ p.state = "WaitStart2" => p.buf # <<>> /\ p.buf[1] = Start1
    /\ Taken(p.state) > 0 =>
         /\ Front(p, t) >= 1
         /\ b[Front(p, t)] = Start1
         /\ b[Front(p, t) + 1] = p.marker
    /\ p.state = "ReadLenLo" => p.len = Number(b[Front(p, t) + 2], 0)
    /\ p.state = "ReadPayload" => p.len = Number(b[Front(p, t) + 2], b[Front(p, t) + 3])

Reads(p, b, t) == Aligned(p.buf, b, t) /\ HeaderRead(p, b, t)

\* The parser between two stages of a pass.
Running == [buf : Seq(Byte), state : ParserState, len : Length, marker : Marker,
            leave : BOOLEAN, again : BOOLEAN, frames : Seq(Frame)]

LEMMA DroppedBytes ==
    ASSUME NEW buf \in Seq(Byte), NEW n \in 0 .. Len(buf)
    PROVE  /\ Dropped(buf, n) \in Seq(Byte)
           /\ Len(Dropped(buf, n)) = Len(buf) - n
           /\ \A i \in 1 .. Len(buf) - n : Dropped(buf, n)[i] = buf[n + i]
<1>1. Len(buf) \in Nat /\ n \in Nat /\ n + 1 \in Int
  BY LenProperties
<1>2. \A i \in n + 1 .. Len(buf) : buf[i] \in Byte
  BY <1>1, ElementOfSeq
<1> DEFINE d == SubSeq(buf, n + 1, Len(buf))
<1>3. d \in Seq(Byte)
  BY <1>1, <1>2, SubSeqProperties
<1>4. Len(d) = IF n + 1 <= Len(buf) THEN Len(buf) - (n + 1) + 1 ELSE 0
  BY <1>1, <1>2, SubSeqProperties
<1>5. \A i \in 1 .. Len(buf) - (n + 1) + 1 : d[i] = buf[(n + 1) + i - 1]
  BY <1>1, <1>2, SubSeqProperties
<1> HIDE DEF d
<1>6. Len(d) = Len(buf) - n
  BY <1>1, <1>4
<1>7. ASSUME NEW i \in 1 .. Len(buf) - n PROVE d[i] = buf[n + i]
  <2>1. i \in 1 .. Len(buf) - (n + 1) + 1 /\ (n + 1) + i - 1 = n + i
    BY <1>1
  <2> QED
    BY <1>5, <2>1
<1> QED
  BY <1>3, <1>6, <1>7 DEF d, Dropped

LEMMA AlignedAfter ==
    ASSUME NEW buf \in Seq(Byte), NEW n \in 0 .. Len(buf), NEW b, NEW t \in Nat, Aligned(buf, b, t)
    PROVE  Aligned(Dropped(buf, n), b, t)
<1> DEFINE d == Dropped(buf, n)
<1>1. /\ d \in Seq(Byte) /\ Len(d) = Len(buf) - n
      /\ \A i \in 1 .. Len(buf) - n : d[i] = buf[n + i]
  BY DroppedBytes
<1> HIDE DEF d
<1>2. Len(buf) \in Nat /\ n \in Nat /\ t - Len(buf) \in Nat
  BY LenProperties DEF Aligned
<1>3. t - Len(d) = t - Len(buf) + n /\ t - Len(d) \in Nat
  BY <1>1, <1>2
<1>4. ASSUME NEW i \in 1 .. Len(d) PROVE d[i] = b[t - Len(d) + i]
  <2>1. i \in 1 .. Len(buf) - n /\ n + i \in 1 .. Len(buf)
        /\ t - Len(buf) + (n + i) = t - Len(d) + i
    BY <1>1, <1>2
  <2>2. d[i] = buf[n + i] /\ buf[n + i] = b[t - Len(buf) + (n + i)]
    BY <1>1, <2>1 DEF Aligned
  <2> QED
    BY <2>1, <2>2
<1> QED
  BY <1>3, <1>4 DEF d, Aligned

LEMMA FrontIsAPlace ==
    ASSUME NEW p \in Running, NEW b \in Seq(Byte), NEW t \in 0 .. Len(b), Reads(p, b, t)
    PROVE  /\ Front(p, t) \in 1 .. Len(b) + 1
           /\ Front(p, t) = t - Len(p.buf) + 1 - Taken(p.state)
           /\ Len(b) \in Nat /\ t \in Nat /\ Len(p.buf) \in Nat /\ p.buf \in Seq(Byte)
           /\ Len(p.buf) <= t /\ Taken(p.state) \in {0, 2, 3, 4}
<1>1. p.buf \in Seq(Byte) /\ Len(b) \in Nat /\ t \in Nat
  BY LenProperties DEF Running
<1>2. Len(p.buf) \in Nat
  BY <1>1, LenProperties
<1>3. t - Len(p.buf) \in Nat
  BY DEF Reads, Aligned
<1>4. Taken(p.state) \in {0, 2, 3, 4}
  BY DEF Taken
<1>5. Taken(p.state) > 0 => Front(p, t) >= 1
  BY Zenon DEF Reads, HeaderRead
<1>6. Front(p, t) = t - Len(p.buf) + 1 - Taken(p.state)
  BY DEF Front
<1> QED
  BY <1>1, <1>2, <1>3, <1>4, <1>5, <1>6

LEMMA NothingTaken == Taken("WaitStart1") = 0 /\ Taken("WaitStart2") = 0
  BY DEF Taken

\* The parser after it has dropped some bytes and taken another state.
LEMMA ParserParts ==
    ASSUME NEW p \in Running
    PROVE  /\ p.buf \in Seq(Byte) /\ p.state \in ParserState /\ p.len \in Length
           /\ p.marker \in Marker /\ p.leave \in BOOLEAN /\ p.again \in BOOLEAN
           /\ p.frames \in Seq(Frame)
  BY DEF Running

LEMMA FindStartReads ==
    ASSUME NEW p \in Running, NEW b \in Seq(Byte), NEW t \in 0 .. Len(b), Reads(p, b, t),
           p.buf # <<>>
    PROVE  /\ FindStart(p) \in Running
           /\ Reads(FindStart(p), b, t)
           /\ FramesFrom(b)[Front(FindStart(p), t)] = FramesFrom(b)[Front(p, t)]
           /\ FindStart(p).frames = p.frames
           /\ FindStart(p).leave => p.leave \/ Len(FindStart(p).buf) < 4
<1> DEFINE q == FindStart(p)
           k == t - Len(p.buf)
<1>1. /\ p.buf \in Seq(Byte) /\ p.state \in ParserState /\ p.len \in Length
      /\ p.marker \in Marker /\ p.leave \in BOOLEAN /\ p.again \in BOOLEAN
      /\ p.frames \in Seq(Frame)
  BY ParserParts
<1>2. /\ Front(p, t) \in 1 .. Len(b) + 1 /\ Len(b) \in Nat /\ t \in Nat /\ t <= Len(b)
      /\ Len(p.buf) \in Nat /\ Len(p.buf) <= t
  BY FrontIsAPlace
<1>a. k \in Nat /\ t = k + Len(p.buf)
  BY <1>2
<1>3. Aligned(p.buf, b, t) /\ HeaderRead(p, b, t)
  BY DEF Reads
<1>4. Len(p.buf) > 0
  BY <1>1, <1>2, EmptySeq
<1>b. Aligned(p.buf, b, t) => \A i \in 1 .. Len(p.buf) : p.buf[i] = b[k + i]
  BY DEF Aligned
<1>c. p.state = "WaitStart1" => Front(p, t) = k + 1
  <2>1. p.state = "WaitStart1" => Front(p, t) = t - Len(p.buf) + 1 - 0
    BY NothingTaken DEF Front
  <2> HIDE DEF k
  <2> QED
    BY <1>2, <1>a, <2>1
<1> HIDE DEF k
<1>5. CASE p.state # "WaitStart1"
  <2>1. q = p
    BY <1>5 DEF FindStart
  <2> QED
    BY <2>1
<1>6. ASSUME p.state = "WaitStart1"
      PROVE  /\ Front(p, t) = k + 1
             /\ \A n \in 0 .. Len(p.buf) :
                   (\A i \in 1 .. n : p.buf[i] # Start1)
                      => FramesFrom(b)[k + 1] = FramesFrom(b)[k + n + 1]
  <2>1. Front(p, t) = k + 1
    BY <1>6, <1>c
  <2>2. ASSUME NEW n \in 0 .. Len(p.buf), \A i \in 1 .. n : p.buf[i] # Start1
        PROVE  FramesFrom(b)[k + 1] = FramesFrom(b)[k + n + 1]
    <3>1. /\ k + 1 \in 1 .. Len(b) + 1 /\ k + n + 1 \in 1 .. Len(b) + 1 /\ k + 1 <= k + n + 1
          /\ k \in Nat /\ n \in Nat
      BY <1>2, <1>a
    <3>2. ASSUME NEW j \in k + 1 .. (k + n + 1) - 1 PROVE ~ IsHeader(b, j)
      <4>1. j - k \in 1 .. n /\ j - k \in 1 .. Len(p.buf) /\ k + (j - k) = j
        BY <1>2, <1>a, <3>1
      <4>2. p.buf[j - k] = b[j]
        BY <1>3, <1>b, <4>1
      <4>3. b[j] # Start1
        BY <2>2, <4>1, <4>2
      <4> QED
        BY <4>3 DEF IsHeader
    <3> QED
      BY <3>1, <3>2, Skipped
  <2> QED
    BY <2>1, <2>2
<1>7. CASE p.state = "WaitStart1" /\ StartsIn(p.buf) = {}
  <2> DEFINE d == Dropped(p.buf, Len(p.buf) - 1)
  <2>1. Len(p.buf) - 1 \in 0 .. Len(p.buf)
    BY <1>2, <1>4
  <2>2. d \in Seq(Byte) /\ Len(d) = 1
    <3>1. d \in Seq(Byte) /\ Len(d) = Len(p.buf) - (Len(p.buf) - 1)
      BY <1>1, <2>1, DroppedBytes
    <3> HIDE DEF d
    <3> QED
      BY <1>2, <3>1
  <2>3. Aligned(d, b, t)
    BY <1>1, <1>2, <1>3, <2>1, AlignedAfter
  <2> HIDE DEF d
  <2>4. q = [p EXCEPT !.buf = d, !.leave = TRUE]
    BY <1>7 DEF FindStart, d
  <2>5. /\ q \in Running /\ q.buf = d /\ q.state = "WaitStart1" /\ q.frames = p.frames
        /\ q.leave = TRUE
    BY <1>1, <1>7, <2>2, <2>4 DEF Running
  <2> HIDE DEF q
  <2>6. Front(q, t) = k + (Len(p.buf) - 1) + 1
    <3>1. Front(q, t) = t - Len(d) + 1 - 0
      BY <2>5, NothingTaken DEF Front
    <3> QED
      BY <1>2, <1>a, <2>2, <3>1
  <2>7. \A i \in 1 .. Len(p.buf) - 1 : p.buf[i] # Start1
    <3>1. \A i \in 1 .. Len(p.buf) - 1 : i \in DOMAIN p.buf
      BY <1>1, <1>2, LenProperties
    <3> QED
      BY <1>7, <3>1 DEF StartsIn
  <2>8. FramesFrom(b)[Front(q, t)] = FramesFrom(b)[Front(p, t)]
    BY <1>6, <1>7, <2>1, <2>6, <2>7
  <2>9. HeaderRead(q, b, t)
    BY <2>5 DEF HeaderRead, Taken
  <2>10. Reads(q, b, t) /\ Len(q.buf) < 4
    <3>1. Len(q.buf) = 1
      BY <2>2, <2>5
    <3>2. Aligned(q.buf, b, t)
      BY <2>3, <2>5
    <3> QED
      BY <2>9, <3>1, <3>2 DEF Reads
  <2> QED
    BY <2>5, <2>8, <2>10 DEF q
<1>8. CASE p.state = "WaitStart1" /\ StartsIn(p.buf) # {}
  <2> DEFINE first == CHOOSE i \in StartsIn(p.buf) : \A j \in StartsIn(p.buf) : i <= j
             d == Dropped(p.buf, first - 1)
  <2>1. StartsIn(p.buf) \in SUBSET (1 .. Len(p.buf))
    BY <1>1, LenProperties DEF StartsIn
  <2>2. StartsIn(p.buf) \in SUBSET Nat
    BY <1>2, <2>1
  <2>3. first \in StartsIn(p.buf) /\ \A j \in StartsIn(p.buf) : first <= j
    BY <1>8, <2>2, Smallest
  <2>4. q = [p EXCEPT !.buf = d, !.state = "WaitStart2"]
    BY <1>8 DEF FindStart
  <2> HIDE DEF first
  <2>5. first \in 1 .. Len(p.buf) /\ first - 1 \in 0 .. Len(p.buf) /\ p.buf[first] = Start1
    BY <1>2, <2>1, <2>3 DEF StartsIn
  <2>6. /\ d \in Seq(Byte) /\ Len(d) = Len(p.buf) - (first - 1)
        /\ \A i \in 1 .. Len(p.buf) - (first - 1) : d[i] = p.buf[(first - 1) + i]
    BY <1>1, <2>5, DroppedBytes
  <2>7. Aligned(d, b, t)
    BY <1>1, <1>2, <1>3, <2>5, AlignedAfter
  <2> HIDE DEF d
  <2>8. /\ q \in Running /\ q.buf = d /\ q.state = "WaitStart2" /\ q.frames = p.frames
        /\ q.leave = p.leave
    BY <1>1, <2>4, <2>6 DEF Running, ParserState
  <2> HIDE DEF q
  <2>9. 1 \in 1 .. Len(p.buf) - (first - 1) /\ (first - 1) + 1 = first /\ Len(d) > 0
    BY <1>2, <2>5, <2>6
  <2>10. d # <<>> /\ d[1] = Start1
    <3>1. d # <<>>
      BY <2>6, <2>9, EmptySeq
    <3>2. d[1] = p.buf[first]
      BY <2>6, <2>9
    <3> QED
      BY <2>5, <3>1, <3>2
  <2>11. HeaderRead(q, b, t)
    BY <2>8, <2>10 DEF HeaderRead, Taken
  <2>12. Front(q, t) = k + (first - 1) + 1
    <3>1. Front(q, t) = t - Len(d) + 1 - 0
      BY <2>8, NothingTaken DEF Front
    <3> QED
      BY <1>2, <1>a, <2>5, <2>6, <3>1
  <2>13. \A i \in 1 .. first - 1 : p.buf[i] # Start1
    <3>1. \A i \in 1 .. first - 1 : i \in DOMAIN p.buf /\ ~ (first <= i)
      BY <1>1, <1>2, <2>5, LenProperties
    <3> QED
      BY <2>3, <3>1 DEF StartsIn
  <2>14. FramesFrom(b)[Front(q, t)] = FramesFrom(b)[Front(p, t)]
    BY <1>6, <1>8, <2>5, <2>12, <2>13
  <2> QED
    BY <2>7, <2>8, <2>11, <2>14 DEF Reads, q
<1> QED
  BY <1>5, <1>7, <1>8

LEMMA FrontMoves ==
    ASSUME NEW p \in Running, NEW q \in Running, NEW n \in 0 .. Len(p.buf), NEW t \in Nat,
           q.buf = Dropped(p.buf, n)
    PROVE  Front(q, t) = Front(p, t) + n + Taken(p.state) - Taken(q.state)
<1> DEFINE l == Len(p.buf)
           m == Len(q.buf)
           x == Taken(p.state)
           y == Taken(q.state)
<1>1. p.buf \in Seq(Byte)
  BY ParserParts
<1>2. l \in Nat /\ n \in Nat
  BY <1>1, LenProperties
<1>3. m = l - n
  BY <1>1, DroppedBytes
<1>4. x \in Nat /\ y \in Nat
  BY DEF Taken
<1>5. Front(p, t) = t - l + 1 - x /\ Front(q, t) = t - m + 1 - y
  BY DEF Front
<1> HIDE DEF l, m, x, y
<1>6. Front(q, t) = Front(p, t) + n + x - y
  BY <1>2, <1>3, <1>4, <1>5
<1> QED
  BY <1>6 DEF x, y

LEMMA TakenIn ==
    /\ Taken("WaitStart1") = 0 /\ Taken("WaitStart2") = 0 /\ Taken("ReadLenHi") = 2
    /\ Taken("ReadLenLo") = 3 /\ Taken("ReadPayload") = 4
  BY DEF Taken

\* The next byte of the buffer stands at the front, or after what is taken.
LEMMA NextByte ==
    ASSUME NEW p \in Running, NEW b \in Seq(Byte), NEW t \in 0 .. Len(b), Reads(p, b, t),
           NEW i \in 1 .. Len(p.buf)
    PROVE  /\ p.buf[i] = b[Front(p, t) + Taken(p.state) + i - 1]
           /\ p.buf[i] \in Byte
<1> DEFINE l == Len(p.buf)
           x == Taken(p.state)
           f == Front(p, t)
<1>1. f = t - l + 1 - x /\ t \in Nat /\ l \in Nat /\ p.buf \in Seq(Byte) /\ i \in Nat
  BY FrontIsAPlace
<1>2. p.buf[i] = b[t - l + i]
  BY DEF Reads, Aligned
<1>3. x \in Nat
  BY DEF Taken
<1>4. p.buf[i] \in Byte
  BY <1>1, ElementOfSeq
<1> HIDE DEF l, x, f
<1>5. f + x + i - 1 = t - l + i
  BY <1>1, <1>3
<1>6. p.buf[i] = b[f + x + i - 1]
  BY <1>2, <1>5
<1> QED
  BY <1>4, <1>6 DEF f, x

LEMMA ReadMarkerReads ==
    ASSUME NEW p \in Running, NEW b \in Seq(Byte), NEW t \in 0 .. Len(b), Reads(p, b, t)
    PROVE  /\ ReadMarker(p) \in Running
           /\ Reads(ReadMarker(p), b, t)
           /\ FramesFrom(b)[Front(ReadMarker(p), t)] = FramesFrom(b)[Front(p, t)]
           /\ ReadMarker(p).frames = p.frames
           /\ ReadMarker(p).leave = p.leave
<1> DEFINE q == ReadMarker(p)
<1>1. /\ p.buf \in Seq(Byte) /\ p.state \in ParserState /\ p.len \in Length
      /\ p.marker \in Marker /\ p.leave \in BOOLEAN /\ p.again \in BOOLEAN
      /\ p.frames \in Seq(Frame)
  BY ParserParts
<1>2. /\ Front(p, t) \in 1 .. Len(b) + 1 /\ Len(b) \in Nat /\ t \in Nat /\ t <= Len(b)
      /\ Len(p.buf) \in Nat /\ Len(p.buf) <= t
      /\ Front(p, t) = t - Len(p.buf) + 1 - Taken(p.state)
  BY FrontIsAPlace
<1>3. Aligned(p.buf, b, t) /\ HeaderRead(p, b, t)
  BY DEF Reads
<1>4. CASE p.leave \/ p.state # "WaitStart2" \/ Len(p.buf) < 2
  <2>1. q = p
    BY <1>4 DEF ReadMarker
  <2> QED
    BY <2>1
<1>5. ASSUME ~ p.leave, p.state = "WaitStart2", Len(p.buf) >= 2
      PROVE  /\ ~ (Len(p.buf) < 2)
             /\ Taken(p.state) = 0 /\ Front(p, t) = t - Len(p.buf) + 1
             /\ b[Front(p, t)] = Start1 /\ b[Front(p, t) + 1] = p.buf[2]
             /\ Front(p, t) + 1 \in 1 .. Len(b) + 1 /\ ~ (Front(p, t) > Len(b))
             /\ Front(p, t) + 2 + 0 - 2 = Front(p, t) /\ Front(p, t) + 1 + 0 - 0 = Front(p, t) + 1
             /\ Front(p, t) >= 1
  <2>1. Taken(p.state) = 0
    BY <1>5, TakenIn
  <2>2. 1 \in 1 .. Len(p.buf) /\ 2 \in 1 .. Len(p.buf)
    BY <1>2, <1>5
  <2>3. p.buf[1] = b[Front(p, t) + Taken(p.state) + 1 - 1]
    BY <2>2, NextByte
  <2>4. p.buf[2] = b[Front(p, t) + Taken(p.state) + 2 - 1]
    BY <2>2, NextByte
  <2>5. p.buf[1] = Start1
    BY <1>3, <1>5 DEF HeaderRead
  <2> DEFINE f == Front(p, t)
             l == Len(p.buf)
             n == Len(b)
  <2>6. f \in 1 .. n + 1 /\ n \in Nat /\ t \in Nat /\ t <= n /\ l \in Nat /\ l >= 2
        /\ f = t - l + 1 - 0
    BY <1>2, <1>5, <2>1
  <2> HIDE DEF f, l, n
  <2>7. /\ f + 0 + 1 - 1 = f /\ f + 0 + 2 - 1 = f + 1
        /\ ~ (l < 2) /\ f = t - l + 1 /\ f + 1 \in 1 .. n + 1 /\ f <= n /\ ~ (f > n)
        /\ f + 2 + 0 - 2 = f /\ f + 1 + 0 - 0 = f + 1 /\ f >= 1
    BY <2>6
  <2> QED
    BY <2>1, <2>3, <2>4, <2>5, <2>7 DEF f, l, n
<1>6. CASE ~ p.leave /\ p.state = "WaitStart2" /\ Len(p.buf) >= 2 /\ p.buf[2] \in Marker
  <2> DEFINE d == Dropped(p.buf, 2)
  <2>1. 2 \in 0 .. Len(p.buf)
    BY <1>2, <1>6
  <2>2. d \in Seq(Byte) /\ Aligned(d, b, t)
    BY <1>1, <1>2, <1>3, <2>1, DroppedBytes, AlignedAfter
  <2>3. q = [p EXCEPT !.marker = p.buf[2], !.buf = d, !.state = "ReadLenHi"]
    BY <1>5, <1>6 DEF ReadMarker
  <2>4. /\ q \in Running /\ q.buf = d /\ q.state = "ReadLenHi" /\ q.frames = p.frames
        /\ q.leave = p.leave /\ q.marker = p.buf[2]
    <3> HIDE DEF d
    <3> QED
      BY <1>1, <1>6, <2>2, <2>3 DEF Running, ParserState
  <2> HIDE DEF q
  <2>5. Front(q, t) = Front(p, t) + 2 + Taken(p.state) - Taken(q.state)
    BY <1>2, <2>1, <2>4, FrontMoves
  <2>6. Front(q, t) = Front(p, t)
    BY <1>5, <1>6, <2>4, <2>5, TakenIn
  <2>7. HeaderRead(q, b, t)
    <3>1. Front(q, t) >= 1 /\ b[Front(q, t)] = Start1 /\ b[Front(q, t) + 1] = q.marker
      BY <1>5, <1>6, <2>4, <2>6
    <3> QED
      BY <2>4, <3>1 DEF HeaderRead
  <2> HIDE DEF d
  <2> QED
    BY <2>2, <2>4, <2>6, <2>7 DEF Reads, q
<1>7. CASE ~ p.leave /\ p.state = "WaitStart2" /\ Len(p.buf) >= 2 /\ p.buf[2] \notin Marker
  <2> DEFINE d == Dropped(p.buf, 1)
  <2>1. 1 \in 0 .. Len(p.buf)
    BY <1>2, <1>7
  <2>2. d \in Seq(Byte) /\ Aligned(d, b, t)
    BY <1>1, <1>2, <1>3, <2>1, DroppedBytes, AlignedAfter
  <2>3. q = [p EXCEPT !.buf = d, !.state = "WaitStart1", !.again = TRUE]
    BY <1>5, <1>7 DEF ReadMarker
  <2>4. /\ q \in Running /\ q.buf = d /\ q.state = "WaitStart1" /\ q.frames = p.frames
        /\ q.leave = p.leave
    <3> HIDE DEF d
    <3> QED
      BY <1>1, <1>7, <2>2, <2>3 DEF Running, ParserState
  <2> HIDE DEF q
  <2>5. Front(q, t) = Front(p, t) + 1 + Taken(p.state) - Taken(q.state)
    BY <1>2, <2>1, <2>4, FrontMoves
  <2>6. Front(q, t) = Front(p, t) + 1
    BY <1>5, <1>7, <2>4, <2>5, TakenIn
  <2>7. ~ IsHeader(b, Front(p, t))
    BY <1>5, <1>7 DEF IsHeader
  <2>8. FramesFrom(b)[Front(p, t)] = FramesFrom(b)[Front(p, t) + 1]
    <3>1. ~ (Front(p, t) > Len(b))
      BY <1>5, <1>7
    <3> QED
      BY <1>2, <2>7, <3>1, NoFrameHere
  <2>9. HeaderRead(q, b, t)
    BY <2>4, TakenIn DEF HeaderRead
  <2> HIDE DEF d
  <2> QED
    BY <2>2, <2>4, <2>6, <2>8, <2>9 DEF Reads, q
<1>8. Len(p.buf) < 2 \/ Len(p.buf) >= 2
  BY <1>2
<1> QED
  BY <1>4, <1>6, <1>7, <1>8

LEMMA NumberParts ==
    /\ 0 \in Byte
    /\ \A hi, lo \in Byte : 256 * hi = Number(hi, 0) /\ Number(hi, 0) + lo = Number(hi, lo)
<1>1. \A x \in Byte : x \in Int
  BY SMT DEF Byte
<1>2. \A x, y \in Int : 256 * x = Number(x, 0) /\ Number(x, 0) + y = Number(x, y)
  BY SMT DEF Number
<1>3. 0 \in Byte
  BY SMT DEF Byte
<1> QED
  BY <1>1, <1>2, <1>3

LEMMA ReadLenHighReads ==
    ASSUME NEW p \in Running, NEW b \in Seq(Byte), NEW t \in 0 .. Len(b), Reads(p, b, t)
    PROVE  /\ ReadLenHigh(p) \in Running
           /\ Reads(ReadLenHigh(p), b, t)
           /\ FramesFrom(b)[Front(ReadLenHigh(p), t)] = FramesFrom(b)[Front(p, t)]
           /\ ReadLenHigh(p).frames = p.frames
           /\ ReadLenHigh(p).leave = p.leave
<1> DEFINE q == ReadLenHigh(p)
           f == Front(p, t)
           l == Len(p.buf)
<1>1. /\ p.buf \in Seq(Byte) /\ p.state \in ParserState /\ p.len \in Length
      /\ p.marker \in Marker /\ p.leave \in BOOLEAN /\ p.again \in BOOLEAN
      /\ p.frames \in Seq(Frame)
  BY ParserParts
<1>2. f \in Int /\ t \in Nat /\ l \in Nat
  BY FrontIsAPlace
<1>3. Aligned(p.buf, b, t) /\ HeaderRead(p, b, t)
  BY DEF Reads
<1>4. CASE Ended(p) \/ p.state # "ReadLenHi" \/ p.buf = <<>>
  <2>1. q = p
    BY <1>4 DEF ReadLenHigh
  <2> QED
    BY <2>1
<1>5. CASE ~ Ended(p) /\ p.state = "ReadLenHi" /\ p.buf # <<>>
  <2> DEFINE d == Dropped(p.buf, 1)
             v == 256 * p.buf[1]
  <2>1. l > 0
    BY <1>1, <1>2, <1>5, EmptySeq
  <2>2. 1 \in 0 .. Len(p.buf) /\ 1 \in 1 .. Len(p.buf)
    BY <1>2, <2>1
  <2>3. d \in Seq(Byte) /\ Aligned(d, b, t)
    BY <1>1, <1>2, <1>3, <2>2, DroppedBytes, AlignedAfter
  <2>4. p.buf[1] \in Byte /\ p.buf[1] = b[f + 2 + 1 - 1]
    BY <1>5, <2>2, NextByte, TakenIn
  <2>5. f >= 1 /\ b[f] = Start1 /\ b[f + 1] = p.marker
    BY <1>3, <1>5, TakenIn DEF HeaderRead
  <2> HIDE DEF f
  <2>6. f + 2 + 1 - 1 = f + 2 /\ f + 1 + 2 - 3 = f
    BY <1>2
  <2>7. v = Number(b[f + 2], 0) /\ v \in Length
    BY <2>4, <2>6, NumberParts, TwoBytes
  <2> HIDE DEF v, d
  <2>8. q = [p EXCEPT !.len = v, !.buf = d, !.state = "ReadLenLo"]
    BY <1>5 DEF ReadLenHigh, v, d
  <2>9. /\ q \in Running /\ q.buf = d /\ q.state = "ReadLenLo" /\ q.frames = p.frames
        /\ q.leave = p.leave /\ q.marker = p.marker /\ q.len = v
    BY <1>1, <2>3, <2>7, <2>8 DEF Running, ParserState
  <2> HIDE DEF q
  <2>10. Front(q, t) = f
    <3>1. Front(q, t) = f + 1 + Taken(p.state) - Taken(q.state)
      BY <1>2, <2>2, <2>9, FrontMoves DEF d, f
    <3> QED
      BY <1>5, <2>6, <2>9, <3>1, TakenIn
  <2>11. HeaderRead(q, b, t)
    BY <2>5, <2>7, <2>9, <2>10, TakenIn DEF HeaderRead
  <2> QED
    BY <2>3, <2>9, <2>10, <2>11 DEF Reads, q, f
<1> QED
  BY <1>4, <1>5

LEMMA ReadLenLowReads ==
    ASSUME NEW p \in Running, NEW b \in Seq(Byte), NEW t \in 0 .. Len(b), Reads(p, b, t)
    PROVE  /\ ReadLenLow(p) \in Running
           /\ Reads(ReadLenLow(p), b, t)
           /\ FramesFrom(b)[Front(ReadLenLow(p), t)] = FramesFrom(b)[Front(p, t)]
           /\ ReadLenLow(p).frames = p.frames
           /\ ReadLenLow(p).leave = p.leave
<1> DEFINE q == ReadLenLow(p)
           f == Front(p, t)
           l == Len(p.buf)
<1>1. /\ p.buf \in Seq(Byte) /\ p.state \in ParserState /\ p.len \in Length
      /\ p.marker \in Marker /\ p.leave \in BOOLEAN /\ p.again \in BOOLEAN
      /\ p.frames \in Seq(Frame)
  BY ParserParts
<1>2. f \in Int /\ t \in Nat /\ l \in Nat
  BY FrontIsAPlace
<1>3. Aligned(p.buf, b, t) /\ HeaderRead(p, b, t)
  BY DEF Reads
<1>4. CASE Ended(p) \/ p.state # "ReadLenLo" \/ p.buf = <<>>
  <2>1. q = p
    BY <1>4 DEF ReadLenLow
  <2> QED
    BY <2>1
<1>5. CASE ~ Ended(p) /\ p.state = "ReadLenLo" /\ p.buf # <<>>
  <2> DEFINE d == Dropped(p.buf, 1)
             v == p.len + p.buf[1]
  <2>1. l > 0
    BY <1>1, <1>2, <1>5, EmptySeq
  <2>2. 1 \in 0 .. Len(p.buf) /\ 1 \in 1 .. Len(p.buf)
    BY <1>2, <2>1
  <2>3. d \in Seq(Byte) /\ Aligned(d, b, t)
    BY <1>1, <1>2, <1>3, <2>2, DroppedBytes, AlignedAfter
  <2>4. p.buf[1] \in Byte /\ p.buf[1] = b[f + 3 + 1 - 1]
    BY <1>5, <2>2, NextByte, TakenIn
  <2>5. f >= 1 /\ b[f] = Start1 /\ b[f + 1] = p.marker
    BY <1>3, <1>5, TakenIn DEF HeaderRead
  <2> HIDE DEF f
  <2>6. f + 3 + 1 - 1 = f + 3 /\ f + 1 + 3 - 4 = f
    BY <1>2
  <2>7. v = Number(b[f + 2], b[f + 3]) /\ v \in Length
    <3>1. p.len = Number(b[f + 2], 0)
      BY <1>3, <1>5, TakenIn DEF HeaderRead, f
    <3>2. f + 2 \in Nat /\ f + 2 >= 1 /\ f + 2 <= Len(b)
      <4>1. Len(b) \in Nat /\ t \in Nat /\ t <= Len(b) /\ l \in Nat /\ f = t - l + 1 - 3
        <5>1. Len(b) \in Nat /\ t \in Nat /\ l \in Nat /\ f = t - l + 1 - Taken(p.state)
          BY FrontIsAPlace DEF f
        <5>2. Taken(p.state) = 3
          BY <1>5, TakenIn
        <5> QED
          BY <5>1, <5>2
      <4> HIDE DEF l
      <4> QED
        BY <2>1, <2>5, <4>1
    <3>3. b[f + 2] \in Byte
      BY <3>2, ElementOfSeq
    <3> QED
      BY <2>4, <2>6, <3>1, <3>3, NumberParts, TwoBytes
  <2> HIDE DEF v, d
  <2>8. q = [p EXCEPT !.len = v, !.buf = d, !.state = "ReadPayload"]
    BY <1>5 DEF ReadLenLow, v, d
  <2>9. /\ q \in Running /\ q.buf = d /\ q.state = "ReadPayload" /\ q.frames = p.frames
        /\ q.leave = p.leave /\ q.marker = p.marker /\ q.len = v
    BY <1>1, <2>3, <2>7, <2>8 DEF Running, ParserState
  <2> HIDE DEF q
  <2>10. Front(q, t) = f
    <3>1. Front(q, t) = f + 1 + Taken(p.state) - Taken(q.state)
      BY <1>2, <2>2, <2>9, FrontMoves DEF d, f
    <3> QED
      BY <1>5, <2>6, <2>9, <3>1, TakenIn
  <2>11. HeaderRead(q, b, t)
    BY <2>5, <2>7, <2>9, <2>10, TakenIn DEF HeaderRead
  <2> QED
    BY <2>3, <2>9, <2>10, <2>11 DEF Reads, q, f
<1> QED
  BY <1>4, <1>5

\* A payload is taken when it is complete, and then its frame is the one that
\* starts at the front; else, when nothing more has come, there is no frame.
LEMMA TakePayloadReads ==
    ASSUME NEW p \in Running, NEW b \in Seq(Byte), NEW t \in 0 .. Len(b), Reads(p, b, t),
           p.frames = <<>>
    PROVE  /\ TakePayload(p) \in Running
           /\ Reads(TakePayload(p), b, t)
           /\ FramesFrom(b)[Front(p, t)]
                = TakePayload(p).frames \o FramesFrom(b)[Front(TakePayload(p), t)]
           /\ \/ TakePayload(p).leave = p.leave
              \/ t = Len(b) => FramesFrom(b)[Front(TakePayload(p), t)] = <<>>
<1> DEFINE q == TakePayload(p)
           f == Front(p, t)
           l == Len(p.buf)
           n == Len(b)
           v == p.len
<1>1. /\ p.buf \in Seq(Byte) /\ p.state \in ParserState /\ v \in Length
      /\ p.marker \in Marker /\ p.leave \in BOOLEAN /\ p.again \in BOOLEAN
      /\ p.frames \in Seq(Frame)
  BY ParserParts
<1>2. /\ f \in 1 .. n + 1 /\ t \in Nat /\ t <= n /\ l \in Nat /\ l <= t /\ n \in Nat
      /\ f = t - l + 1 - Taken(p.state) /\ v \in Nat
  <2>1. v \in Nat
    BY <1>1, LengthIsNat
  <2>2. /\ f \in 1 .. n + 1 /\ t \in Nat /\ l \in Nat /\ l <= t /\ n \in Nat
        /\ f = t - l + 1 - Taken(p.state)
    BY FrontIsAPlace
  <2>3. t <= n
    BY <2>2
  <2> QED
    BY <2>1, <2>2, <2>3
<1>3. Aligned(p.buf, b, t) /\ HeaderRead(p, b, t)
  BY DEF Reads
<1>4. FramesFrom(b)[f] \in Seq(Frame) /\ <<>> \o FramesFrom(b)[f] = FramesFrom(b)[f]
  <2>1. FramesFrom(b)[f] \in Seq(Frame)
    BY <1>2, FramesAreFrames
  <2> HIDE DEF f
  <2> QED
    BY <2>1, ConcatEmptySeq
<1>5. CASE Ended(p) \/ p.state # "ReadPayload"
  <2>1. q = p
    BY <1>5 DEF TakePayload
  <2> HIDE DEF q
  <2>2. FramesFrom(b)[f] = q.frames \o FramesFrom(b)[Front(q, t)]
    BY <1>4, <2>1
  <2> QED
    BY <2>1, <2>2 DEF q
<1>6. ASSUME p.state = "ReadPayload"
      PROVE  /\ IsHeader(b, f) /\ LenAt(b, f) = v /\ b[f + 1] = p.marker
             /\ f = t - l + 1 - 4 /\ f >= 1 /\ f \in Nat
  <2>1. Taken(p.state) = 4
    BY <1>6, TakenIn
  <2>2. f >= 1 /\ b[f] = Start1 /\ b[f + 1] = p.marker /\ v = Number(b[f + 2], b[f + 3])
    BY <1>3, <1>6, <2>1 DEF HeaderRead
  <2> HIDE DEF f, l, n
  <2>3. f = t - l + 1 - 4
    BY <1>2, <2>1
  <2>4. f + 3 <= n /\ f \in Nat
    <3>1. f \in Int /\ t \in Nat /\ l \in Nat /\ n \in Nat /\ t <= n /\ f >= 1
      BY <1>2, <2>2
    <3> QED
      BY <2>3, <3>1
  <2>5. IsHeader(b, f)
    BY <1>1, <2>2, <2>4 DEF IsHeader, n
  <2>6. LenAt(b, f) = Number(b[f + 2], b[f + 3])
    BY <2>2, <2>4, LengthAt DEF n
  <2> QED
    BY <2>2, <2>3, <2>4, <2>5, <2>6 DEF f, l
<1>7. CASE ~ Ended(p) /\ p.state = "ReadPayload" /\ l < v
  <2>1. q = [p EXCEPT !.leave = TRUE]
    BY <1>7 DEF TakePayload
  <2>2. /\ q \in Running /\ q.buf = p.buf /\ q.state = p.state /\ q.frames = p.frames
        /\ q.marker = p.marker /\ q.len = p.len
    BY <1>1, <2>1 DEF Running
  <2> HIDE DEF q
  <2>3. Front(q, t) = f
    BY <2>2 DEF Front
  <2>4. Reads(q, b, t)
    BY <1>3, <2>2, <2>3 DEF Reads, HeaderRead
  <2>5. t = n => FramesFrom(b)[f] = <<>>
    <3>1. t = n => f + 3 + v > n
      <4>1. f = t - l + 1 - 4
        BY <1>6, <1>7
      <4> HIDE DEF f, l, n, v
      <4> QED
        BY <1>2, <1>7, <4>1
    <3> QED
      BY <1>2, <1>6, <1>7, <3>1, FrameFirst, Zenon
  <2>6. FramesFrom(b)[f] = q.frames \o FramesFrom(b)[Front(q, t)]
    BY <1>4, <2>2, <2>3
  <2> QED
    BY <2>2, <2>3, <2>4, <2>5, <2>6 DEF q
<1>8. CASE ~ Ended(p) /\ p.state = "ReadPayload" /\ ~ (l < v)
  <2> DEFINE d == Dropped(p.buf, v)
             s == SubSeq(p.buf, 1, v)
             r == [marker |-> p.marker, payload |-> s]
  <2>1. v \in 0 .. l /\ f \in Nat /\ f >= 1 /\ f = t - l + 1 - 4 /\ f + 3 + v <= n
        /\ f + 4 + v \in 1 .. n + 1 /\ f \in 1 .. n
    <3>1. f = t - l + 1 - 4 /\ f \in Nat /\ f >= 1
      BY <1>6, <1>8
    <3> HIDE DEF f, l, n, v
    <3>2. t \in Nat /\ t <= n /\ l \in Nat /\ n \in Nat /\ v \in Nat
      BY <1>2
    <3>3. v <= l
      BY <1>8, <3>2
    <3>4. f + 3 + v <= n
      BY <3>1, <3>2, <3>3
    <3> QED
      BY <3>1, <3>2, <3>3, <3>4
  <2>2. d \in Seq(Byte) /\ Aligned(d, b, t)
    BY <1>1, <1>2, <1>3, <2>1, DroppedBytes, AlignedAfter
  <2>3. s = SubSeq(b, f + 4, f + 3 + v)
    <3> DEFINE g == f + 4
               h == f + 3 + v
               u == SubSeq(b, g, h)
    <3>1. \A i \in 1 .. v : p.buf[i] \in Byte
      <4>1. \A i \in 1 .. v : i \in 1 .. l
        <5> HIDE DEF v, l
        <5> QED
          BY <1>2, <2>1
      <4> QED
        BY <1>1, <4>1, ElementOfSeq
    <3>2. s \in Seq(Byte) /\ Len(s) = (IF 1 <= v THEN v - 1 + 1 ELSE 0)
          /\ \A i \in 1 .. v - 1 + 1 : s[i] = p.buf[1 + i - 1]
      BY <1>2, <3>1, SubSeqProperties
    <3>3. \A i \in 1 .. v : p.buf[i] = b[t - l + i]
      <4>1. \A i \in 1 .. v : i \in 1 .. l
        <5> HIDE DEF v, l
        <5> QED
          BY <1>2, <2>1
      <4> QED
        BY <1>3, <4>1 DEF Aligned
    <3> HIDE DEF s, f, l, n, v
    <3>4. /\ v \in Nat /\ f \in Nat /\ f = t - l + 1 - 4 /\ t \in Nat /\ l \in Nat
          /\ f >= 1 /\ n \in Nat /\ f + 3 + v <= n
      BY <1>2, <2>1
    <3>5. g = f + 4 /\ h = f + 3 + v /\ g \in Int /\ h \in Int
          /\ \A i \in g .. h : i \in 1 .. n
      BY <3>4
    <3> HIDE DEF g, h
    <3>6. \A i \in g .. h : b[i] \in Byte
      BY <3>5, ElementOfSeq DEF n
    <3>7. u \in Seq(Byte) /\ Len(u) = (IF g <= h THEN h - g + 1 ELSE 0)
          /\ \A i \in 1 .. h - g + 1 : u[i] = b[g + i - 1]
      BY <3>5, <3>6, SubSeqProperties
    <3> HIDE DEF u
    <3>8. Len(s) = v /\ Len(u) = v
      <4>1. Len(s) = (IF 1 <= v THEN v - 1 + 1 ELSE 0)
        BY <3>2
      <4>2. Len(u) = (IF g <= h THEN h - g + 1 ELSE 0)
        BY <3>7
      <4>3. g = f + 4 /\ h = f + 3 + v
        BY <3>5
      <4> QED
        BY <3>4, <4>1, <4>2, <4>3
    <3>9. ASSUME NEW i \in 1 .. v PROVE s[i] = u[i]
      <4>1. g = f + 4 /\ h = f + 3 + v
        BY <3>5
      <4>2. i \in 1 .. v - 1 + 1 /\ i \in 1 .. h - g + 1 /\ 1 + i - 1 = i /\ g + i - 1 = t - l + i
        BY <3>4, <4>1
      <4>3. s[i] = p.buf[1 + i - 1] /\ u[i] = b[g + i - 1]
        BY <3>2, <3>7, <4>2
      <4> QED
        BY <3>3, <4>2, <4>3
    <3>10. Len(s) = Len(u) /\ \A i \in 1 .. Len(s) : s[i] = u[i]
      BY <3>8, <3>9
    <3>11. s = u
      BY <3>2, <3>7, <3>10, SeqEqual
    <3> QED
      BY <3>11 DEF u, g, h
  <2>4. IsHeader(b, f) /\ LenAt(b, f) = v /\ b[f + 1] = p.marker
    BY <1>6, <1>8
  <2>5. r = [marker |-> b[f + 1], payload |-> SubSeq(b, f + 4, f + 3 + v)]
    BY <2>3, <2>4
  <2>6. FramesFrom(b)[f] = <<r>> \o FramesFrom(b)[f + 4 + v]
    <3> HIDE DEF v, r
    <3> QED
      BY <1>2, <2>1, <2>4, <2>5, FrameFirst, Zenon
  <2>7. r \in Frame
    <3> HIDE DEF v, r
    <3> QED
      BY <2>1, <2>4, <2>5, FrameThere, Zenon
  <2>8. q = [p EXCEPT !.frames = <<r>>, !.buf = d, !.state = "WaitStart1"]
    BY <1>8 DEF TakePayload
  <2> HIDE DEF d, r
  <2>a. <<r>> \in Seq(Frame)
    BY <2>7
  <2> DEFINE w == <<r>>
  <2> HIDE DEF w
  <2>b. q = [p EXCEPT !.frames = w, !.buf = d, !.state = "WaitStart1"] /\ w \in Seq(Frame)
    BY <2>8, <2>a DEF w
  <2>c. /\ q \in Running /\ q.buf = d /\ q.state = "WaitStart1" /\ q.frames = w
        /\ q.leave = p.leave
    BY <1>1, <2>2, <2>b DEF Running, ParserState
  <2>9. /\ q \in Running /\ q.buf = d /\ q.state = "WaitStart1" /\ q.frames = <<r>>
        /\ q.leave = p.leave
    BY <2>c DEF w
  <2> HIDE DEF q
  <2>10. Front(q, t) = f + 4 + v
    <3>1. Front(q, t) = f + v + Taken(p.state) - Taken(q.state)
      BY <1>2, <2>1, <2>9, FrontMoves DEF d
    <3>2. Front(q, t) = f + v + 4 - 0
      BY <1>8, <2>9, <3>1, TakenIn
    <3> HIDE DEF f, v, l, n
    <3>3. f \in Nat /\ v \in Nat
      BY <1>2, <2>1
    <3> QED
      BY <3>2, <3>3
  <2>11. HeaderRead(q, b, t)
    BY <2>9, TakenIn DEF HeaderRead
  <2>12. Reads(q, b, t)
    BY <2>2, <2>9, <2>11 DEF Reads
  <2>13. FramesFrom(b)[f] = q.frames \o FramesFrom(b)[Front(q, t)]
    BY <2>6, <2>9, <2>10
  <2> QED
    BY <2>9, <2>12, <2>13 DEF q
<1> QED
  BY <1>5, <1>7, <1>8

-----------------------------------------------------------------------------
(* One pass *)

Parser == [buf : Seq(Byte), state : ParserState, len : Length, marker : Marker]

Started(p) == [buf |-> p.buf, state |-> p.state, len |-> p.len, marker |-> p.marker,
               leave |-> FALSE, again |-> FALSE, frames |-> <<>>]

LEMMA StartedReads ==
    ASSUME NEW p \in Parser, NEW b, NEW t, Reads(p, b, t)
    PROVE  /\ Started(p) \in Running /\ Reads(Started(p), b, t)
           /\ Front(Started(p), t) = Front(p, t)
           /\ Started(p).frames = <<>> /\ Started(p).leave = FALSE /\ Started(p).buf = p.buf
<1> DEFINE q == Started(p)
<1>1. /\ p.buf \in Seq(Byte) /\ p.state \in ParserState /\ p.len \in Length /\ p.marker \in Marker
  BY DEF Parser
<1>2. <<>> \in Seq(Frame)
  BY EmptySeq
<1>3. q \in Running
  BY <1>1, <1>2 DEF Started, Running
<1>4. /\ q.buf = p.buf /\ q.state = p.state /\ q.len = p.len /\ q.marker = p.marker
      /\ q.frames = <<>> /\ q.leave = FALSE
  BY DEF Started
<1> HIDE DEF q
<1>5. Front(q, t) = Front(p, t)
  BY <1>4 DEF Front
<1>6. Reads(q, b, t)
  <2>1. Aligned(q.buf, b, t)
    BY <1>4 DEF Reads
  <2>2. HeaderRead(p, b, t)
    BY DEF Reads
  <2>3. HeaderRead(q, b, t)
    BY <1>4, <1>5, <2>2 DEF HeaderRead
  <2> QED
    BY <2>1, <2>3 DEF Reads
<1> QED
  BY <1>3, <1>4, <1>5, <1>6 DEF q

LEMMA KeptReads ==
    ASSUME NEW p \in Running, NEW b, NEW t, Reads(p, b, t)
    PROVE  /\ Kept(p) \in Parser /\ Reads(Kept(p), b, t)
           /\ Front(Kept(p), t) = Front(p, t) /\ Kept(p).buf = p.buf
<1> DEFINE q == Kept(p)
<1>1. /\ p.buf \in Seq(Byte) /\ p.state \in ParserState /\ p.len \in Length /\ p.marker \in Marker
  BY ParserParts
<1>2. q \in Parser
  BY <1>1 DEF Kept, Parser
<1>3. q.buf = p.buf /\ q.state = p.state /\ q.len = p.len /\ q.marker = p.marker
  BY DEF Kept
<1> HIDE DEF q
<1>4. Front(q, t) = Front(p, t)
  BY <1>3 DEF Front
<1>5. Reads(q, b, t)
  <2>1. Aligned(q.buf, b, t)
    BY <1>3 DEF Reads
  <2>2. HeaderRead(p, b, t)
    BY DEF Reads
  <2>3. HeaderRead(q, b, t)
    BY <1>3, <1>4, <2>2 DEF HeaderRead
  <2> QED
    BY <2>1, <2>3 DEF Reads
<1> QED
  BY <1>2, <1>3, <1>4, <1>5 DEF q

\* A pass hands on the frame that starts at the front, if it does at all, and
\* leaves the loop only when that frame is not complete.
LEMMA PassReads ==
    ASSUME NEW p \in Parser, NEW b \in Seq(Byte), NEW t \in 0 .. Len(b), Reads(p, b, t),
           GoesOn(p)
    PROVE  /\ Pass(p).frames \in Seq(Frame) /\ Kept(Pass(p)) \in Parser
           /\ Reads(Kept(Pass(p)), b, t)
           /\ FramesFrom(b)[Front(p, t)]
                = Pass(p).frames \o FramesFrom(b)[Front(Kept(Pass(p)), t)]
           /\ Pass(p).leave => \/ Len(Kept(Pass(p)).buf) < 4
                               \/ t = Len(b) => FramesFrom(b)[Front(Kept(Pass(p)), t)] = <<>>
<1> DEFINE p0 == Started(p)
           p1 == FindStart(p0)
           p2 == ReadMarker(p1)
           p3 == ReadLenHigh(p2)
           p4 == ReadLenLow(p3)
           p5 == TakePayload(p4)
<1>1. Pass(p) = p5
  BY DEF Pass, Started
<1>2. p0 \in Running /\ Reads(p0, b, t) /\ Front(p0, t) = Front(p, t) /\ p0.frames = <<>>
      /\ p0.leave = FALSE /\ p0.buf # <<>>
  <2>1. p.buf # <<>>
    <3>1. ~ (0 >= 4)
      OBVIOUS
    <3> QED
      BY <3>1, EmptySeq DEF GoesOn
  <2> QED
    BY <2>1, StartedReads
<1> HIDE DEF p0
<1>3. /\ p1 \in Running /\ Reads(p1, b, t) /\ p1.frames = p0.frames
      /\ FramesFrom(b)[Front(p1, t)] = FramesFrom(b)[Front(p0, t)]
      /\ p1.leave => p0.leave \/ Len(p1.buf) < 4
  BY <1>2, FindStartReads
<1> HIDE DEF p1
<1>4. /\ p2 \in Running /\ Reads(p2, b, t) /\ p2.frames = p1.frames /\ p2.leave = p1.leave
      /\ FramesFrom(b)[Front(p2, t)] = FramesFrom(b)[Front(p1, t)]
      /\ p1.leave => p2 = p1
  <2>1. p1.leave => p2 = p1
    BY DEF ReadMarker
  <2> QED
    BY <1>3, <2>1, ReadMarkerReads
<1> HIDE DEF p2
<1>5. /\ p3 \in Running /\ Reads(p3, b, t) /\ p3.frames = p2.frames /\ p3.leave = p2.leave
      /\ FramesFrom(b)[Front(p3, t)] = FramesFrom(b)[Front(p2, t)]
      /\ p2.leave => p3 = p2
  <2>1. p2.leave => p3 = p2
    BY DEF ReadLenHigh, Ended
  <2> QED
    BY <1>4, <2>1, ReadLenHighReads
<1> HIDE DEF p3
<1>6. /\ p4 \in Running /\ Reads(p4, b, t) /\ p4.frames = p3.frames /\ p4.leave = p3.leave
      /\ FramesFrom(b)[Front(p4, t)] = FramesFrom(b)[Front(p3, t)]
      /\ p3.leave => p4 = p3
  <2>1. p3.leave => p4 = p3
    BY DEF ReadLenLow, Ended
  <2> QED
    BY <1>5, <2>1, ReadLenLowReads
<1> HIDE DEF p4
<1>7. p4.frames = <<>> /\ p4.leave = p1.leave /\ (p1.leave => p4 = p1)
      /\ FramesFrom(b)[Front(p4, t)] = FramesFrom(b)[Front(p, t)]
  BY <1>2, <1>3, <1>4, <1>5, <1>6, Zenon
<1>8. /\ p5 \in Running /\ Reads(p5, b, t)
      /\ FramesFrom(b)[Front(p4, t)] = p5.frames \o FramesFrom(b)[Front(p5, t)]
      /\ \/ p5.leave = p4.leave
         \/ t = Len(b) => FramesFrom(b)[Front(p5, t)] = <<>>
      /\ p4.leave => p5 = p4
  <2>1. p4.leave => p5 = p4
    BY DEF TakePayload, Ended
  <2> QED
    BY <1>6, <1>7, <2>1, TakePayloadReads
<1> HIDE DEF p5
<1>9. p5.leave => Len(p5.buf) < 4 \/ (t = Len(b) => FramesFrom(b)[Front(p5, t)] = <<>>)
  <2>1. p1.leave => Len(p1.buf) < 4
    BY <1>2, <1>3
  <2>2. p1.leave => p5 = p1
    BY <1>7, <1>8
  <2>3. \/ p5.leave = p1.leave
        \/ t = Len(b) => FramesFrom(b)[Front(p5, t)] = <<>>
    BY <1>7, <1>8
  <2> QED
    BY <2>1, <2>2, <2>3, Zenon
<1>10. /\ Kept(p5) \in Parser /\ Reads(Kept(p5), b, t)
       /\ Front(Kept(p5), t) = Front(p5, t) /\ Kept(p5).buf = p5.buf
  BY <1>8, KeptReads
<1>11. p5.frames \in Seq(Frame)
  BY <1>8, ParserParts
<1>12. FramesFrom(b)[Front(p, t)] = p5.frames \o FramesFrom(b)[Front(Kept(p5), t)]
  BY <1>7, <1>8, <1>10
<1>13. p5.leave => \/ Len(Kept(p5).buf) < 4
                   \/ t = Len(b) => FramesFrom(b)[Front(Kept(p5), t)] = <<>>
  BY <1>9, <1>10
<1> QED
  BY <1>1, <1>10, <1>11, <1>12, <1>13, Zenon

-----------------------------------------------------------------------------
(* What the bytes read so far determine *)

Extends(b, g) == Len(g) <= Len(b) /\ \A i \in 1 .. Len(g) : b[i] = g[i]

\* Whatever comes after the bytes read: the parser stands right, and the frames
\* are those handed on and those from its place on.
Understands(p, g, d) ==
    \A b \in Seq(Byte) : Extends(b, g) =>
        /\ Reads(p, b, Len(g))
        /\ Parsed(b) = d \o FramesFrom(b)[Front(p, Len(g))]

LEMMA UnderstandsMore ==
    ASSUME NEW p \in Parser, NEW g \in Seq(Byte), NEW d, NEW bytes \in Seq(Byte), NEW q \in Parser,
           q = [p EXCEPT !.buf = p.buf \o bytes], Understands(p, g, d)
    PROVE  Understands(q, g \o bytes, d)
<1> DEFINE h == g \o bytes
           c == p.buf \o bytes
           l == Len(p.buf)
           m == Len(bytes)
           t == Len(g)
<1>1. p.buf \in Seq(Byte)
  BY DEF Parser
<1>2. l \in Nat /\ m \in Nat /\ t \in Nat
  BY <1>1, LenProperties
<1>3. /\ h \in Seq(Byte) /\ Len(h) = t + m
      /\ \A i \in 1 .. t + m : h[i] = IF i <= t THEN g[i] ELSE bytes[i - t]
  BY ConcatProperties
<1>4. /\ c \in Seq(Byte) /\ Len(c) = l + m
      /\ \A i \in 1 .. l + m : c[i] = IF i <= l THEN p.buf[i] ELSE bytes[i - l]
  BY <1>1, ConcatProperties
<1>5. q.buf = c /\ q.state = p.state /\ q.len = p.len /\ q.marker = p.marker
  BY DEF Parser
<1> HIDE DEF h, c
<1>6. ASSUME NEW b \in Seq(Byte), Extends(b, h)
      PROVE  Reads(q, b, Len(h)) /\ Parsed(b) = d \o FramesFrom(b)[Front(q, Len(h))]
  <2>1. t <= Len(b) /\ \A i \in 1 .. t : b[i] = g[i]
    <3>1. Len(b) \in Nat /\ t + m <= Len(b)
      BY <1>3, <1>6, LenProperties DEF Extends
    <3>2. t <= Len(b) /\ \A i \in 1 .. t : i \in 1 .. t + m /\ i <= t
      <4> HIDE DEF t, m
      <4> QED
        BY <1>2, <3>1
    <3>3. \A i \in 1 .. t + m : b[i] = h[i]
      BY <1>3, <1>6 DEF Extends
    <3> QED
      BY <1>3, <3>2, <3>3
  <2>2. Extends(b, g)
    BY <2>1 DEF Extends
  <2>3. Reads(p, b, t) /\ Parsed(b) = d \o FramesFrom(b)[Front(p, t)]
    BY <2>2 DEF Understands
  <2>4. t - l \in Nat /\ \A i \in 1 .. l : p.buf[i] = b[t - l + i]
    BY <2>3 DEF Reads, Aligned
  <2>5. \A i \in 1 .. t + m : b[i] = h[i]
    BY <1>3, <1>6 DEF Extends
  <2>6. HeaderRead(p, b, t)
    BY <2>3 DEF Reads
  <2> HIDE DEF l, m, t
  <2>7. Len(h) - Len(c) = t - l
    BY <1>2, <1>3, <1>4
  <2>8. ASSUME NEW i \in 1 .. Len(c) PROVE c[i] = b[t - l + i]
    <3>1. i \in 1 .. l + m /\ i \in Nat
      BY <1>2, <1>4
    <3>2. CASE i <= l
      <4>1. i \in 1 .. l
        BY <3>1, <3>2
      <4> QED
        BY <1>4, <2>4, <3>1, <3>2, <4>1
    <3>3. CASE ~ (i <= l)
      <4> DEFINE j == t + i - l
      <4>1. j \in 1 .. t + m /\ ~ (j <= t) /\ j - t = i - l /\ t - l + i = j
        BY <1>2, <2>4, <3>1, <3>3
      <4> HIDE DEF j
      <4>2. c[i] = bytes[i - l]
        BY <1>4, <3>1, <3>3
      <4>3. h[j] = bytes[j - t]
        BY <1>3, <4>1
      <4>4. b[j] = h[j]
        BY <2>5, <4>1
      <4> QED
        BY <4>1, <4>2, <4>3, <4>4
    <3> QED
      BY <3>2, <3>3
  <2>9. Aligned(q.buf, b, Len(h))
    BY <1>5, <2>4, <2>7, <2>8 DEF Aligned
  <2>10. Front(q, Len(h)) = Front(p, t)
    <3>1. Front(q, Len(h)) = Len(h) - Len(c) + 1 - Taken(p.state)
      BY <1>5 DEF Front
    <3>2. Front(p, t) = t - l + 1 - Taken(p.state)
      BY DEF Front, l
    <3> QED
      BY <2>7, <3>1, <3>2
  <2>11. p.state = "WaitStart2" => c # <<>> /\ c[1] = Start1
    <3> SUFFICES ASSUME p.state = "WaitStart2" PROVE c # <<>> /\ c[1] = Start1
      OBVIOUS
    <3>1. p.buf # <<>> /\ p.buf[1] = Start1
      BY <2>6 DEF HeaderRead
    <3>2. l > 0
      BY <1>1, <1>2, <3>1, EmptySeq DEF l
    <3>3. 1 \in 1 .. l + m /\ 1 <= l /\ l + m > 0
      BY <1>2, <3>2
    <3>4. c[1] = p.buf[1]
      BY <1>4, <3>3
    <3>5. Len(c) > 0
      BY <1>4, <3>3
    <3>6. c # <<>>
      BY <3>5, EmptySeq
    <3> QED
      BY <3>1, <3>4, <3>6
  <2>12. HeaderRead(q, b, Len(h))
    BY <1>5, <2>6, <2>10, <2>11 DEF HeaderRead
  <2> QED
    BY <2>3, <2>9, <2>10, <2>12 DEF Reads
<1> QED
  BY <1>6 DEF Understands, h

LEMMA FramesInARow == \A x, y, z \in Seq(Frame) : x \o (y \o z) = (x \o y) \o z
<1> SUFFICES ASSUME NEW x \in Seq(Frame), NEW y \in Seq(Frame), NEW z \in Seq(Frame)
             PROVE  x \o (y \o z) = (x \o y) \o z
  OBVIOUS
<1>1. (x \o y) \o z = x \o (y \o z)
  BY ConcatAssociative
<1> QED
  BY <1>1

LEMMA UnderstandsPass ==
    ASSUME NEW p \in Parser, NEW g \in Seq(Byte), NEW d \in Seq(Frame), Understands(p, g, d),
           GoesOn(p)
    PROVE  /\ Kept(Pass(p)) \in Parser /\ Pass(p).frames \in Seq(Frame)
           /\ Understands(Kept(Pass(p)), g, d \o Pass(p).frames)
           /\ Pass(p).leave => \/ Len(Kept(Pass(p)).buf) < 4
                               \/ FramesFrom(g)[Front(Kept(Pass(p)), Len(g))] = <<>>
<1> DEFINE q == Kept(Pass(p))
           e == Pass(p).frames
           t == Len(g)
<1>1. Extends(g, g) /\ t \in Nat /\ t \in 0 .. Len(g)
  BY LenProperties DEF Extends
<1>2. Reads(p, g, t)
  BY <1>1 DEF Understands
<1>3. /\ e \in Seq(Frame) /\ q \in Parser
      /\ Pass(p).leave => \/ Len(q.buf) < 4
                          \/ FramesFrom(g)[Front(q, t)] = <<>>
  BY <1>1, <1>2, PassReads
<1>4. ASSUME NEW b \in Seq(Byte), Extends(b, g)
      PROVE  Reads(q, b, t) /\ Parsed(b) = (d \o e) \o FramesFrom(b)[Front(q, t)]
  <2>1. Reads(p, b, t) /\ Parsed(b) = d \o FramesFrom(b)[Front(p, t)]
    BY <1>4 DEF Understands
  <2>2. t \in 0 .. Len(b)
    BY <1>1, <1>4, LenProperties DEF Extends
  <2>3. Reads(q, b, t) /\ FramesFrom(b)[Front(p, t)] = e \o FramesFrom(b)[Front(q, t)]
    BY <2>1, <2>2, PassReads
  <2>4. Front(q, t) \in 1 .. Len(b) + 1
    <3> HIDE DEF q
    <3>1. Started(q) \in Running /\ Reads(Started(q), b, t) /\ Front(Started(q), t) = Front(q, t)
      BY <1>3, <2>3, StartedReads
    <3> QED
      BY <2>2, <3>1, FrontIsAPlace
  <2>5. FramesFrom(b)[Front(q, t)] \in Seq(Frame)
    BY <2>4, FramesAreFrames
  <2> DEFINE r == FramesFrom(b)[Front(q, t)]
  <2> HIDE DEF e, q, r
  <2>6. r \in Seq(Frame) /\ Parsed(b) = d \o (e \o r)
    BY <2>1, <2>3, <2>5 DEF r
  <2>7. d \o (e \o r) = (d \o e) \o r
    <3>1. d \in Seq(Frame) /\ e \in Seq(Frame) /\ r \in Seq(Frame)
      BY <1>3, <2>6
    <3> QED
      BY <3>1, FramesInARow
  <2> QED
    BY <2>3, <2>6, <2>7 DEF r
<1>5. Understands(q, g, d \o e)
  BY <1>4 DEF Understands
<1> QED
  BY <1>3, <1>5

-----------------------------------------------------------------------------
(* The invariant *)

\* The frames handed on are those before the parser's place, whatever follows.
Understood == Understands(parser, got, delivered)

\* read_loop goes back to poll, and ends, only when no frame is complete, or with
\* fewer than four bytes in the buffer.
Waits ==
    pc # "parse" => \/ Len(parser.buf) < 4
                     \/ FramesFrom(got)[Front(parser, Len(got))] = <<>>

IInv == TypeOK /\ Understood /\ Waits

LEMMA ParserType == [buf : Seq(Byte), state : ParserState, len : 0 .. MaxLength, marker : Marker]
                      = Parser
  BY Zenon DEF Parser, Length

\* A frame's bytes are bytes.
LEMMA EncodedBytes ==
    ASSUME NEW f \in Frame
    PROVE  Encoded(f) \in Seq(Byte)
<1>1. f.payload \in Seq(Byte) /\ f.marker \in Marker
  BY DEF Frame
<1> DEFINE n == Len(f.payload)
<1>2. CASE ~ Fits(f)
  BY <1>2, EmptySeq DEF Encoded
<1>3. CASE Fits(f)
  <2>1. n \in Nat /\ n <= MaxPayload /\ MaxPayload \in 0 .. MaxLength
    BY <1>1, <1>3, LenProperties, FramingAssumption DEF Fits
  <2> HIDE DEF n
  <2>2. n \in Nat /\ n <= 65535
    <3>1. n <= MaxLength
      BY <2>1, LengthIsNat
    <3>2. \A x \in Nat : x <= MaxLength => x <= 65535
      BY SMT DEF MaxLength
    <3> QED
      BY <2>1, <3>1, <3>2
  <2>3. \A x \in Nat : x <= 65535 => x \div 256 \in Nat /\ x \div 256 <= 255
    BY SMT
  <2>4. \A x \in Nat : x % 256 \in Nat /\ x % 256 <= 255
    BY SMT
  <2>5. \A x \in Nat : x <= 255 => x \in Byte
    BY SMT DEF Byte
  <2> DEFINE hi == n \div 256
             lo == n % 256
  <2>6. hi \in Byte /\ lo \in Byte
    BY <2>2, <2>3, <2>4, <2>5
  <2>7. Start1 \in Byte /\ f.marker \in Byte
    <3>1. Start1 \in Byte /\ Marker \subseteq Byte
      BY SMT DEF Byte, Start1, Marker
    <3> QED
      BY <1>1, <3>1
  <2> HIDE DEF hi, lo
  <2> DEFINE s == <<Start1, f.marker, hi, lo>>
  <2>8. s \in Seq(Byte)
    BY <2>6, <2>7
  <2> HIDE DEF s
  <2>9. s \o f.payload \in Seq(Byte)
    BY <1>1, <2>8, ConcatProperties
  <2>10. Encoded(f) = s \o f.payload
    BY <1>3, Zenon DEF Encoded, s, hi, lo, n
  <2> QED
    BY <2>9, <2>10
<1> QED
  BY <1>2, <1>3

LEMMA SubSeqBytes ==
    ASSUME NEW s \in Seq(Byte), NEW n \in 0 .. Len(s)
    PROVE  /\ SubSeq(s, 1, n) \in Seq(Byte) /\ Dropped(s, n) \in Seq(Byte)
<1>1. Len(s) \in Nat /\ n \in Int
  BY LenProperties
<1>2. \A i \in 1 .. n : i \in 1 .. Len(s)
  BY <1>1
<1>3. \A i \in 1 .. n : s[i] \in Byte
  BY <1>2, ElementOfSeq
<1>4. SubSeq(s, 1, n) \in Seq(Byte)
  BY <1>1, <1>3, SubSeqProperties
<1> QED
  BY <1>4, DroppedBytes

\* The senders' and the network's steps leave the reader alone.
LEMMA OthersKeep ==
    Understood /\ Waits /\ UNCHANGED <<got, parser, pc, delivered>> => Understood' /\ Waits'
  BY DEF Understood, Waits

LEMMA TypesStart ==
    ASSUME Init
    PROVE  TypeOK
<1>1. Script \in [Writer -> Seq(Frame)] /\ Noise \in Seq(Byte) /\ MaxRetries \in Nat \ {0}
  BY LinkAssumption
<1>2. <<>> \in Seq(Byte) /\ <<>> \in Seq(Frame)
  BY EmptySeq
<1>3. NewParser \in Parser
  <2>1. 195 \in Marker /\ 0 \in Length /\ "WaitStart1" \in ParserState
    <3>1. 0 \in Length
      BY LengthIsNat, SMT DEF Length
    <3> QED
      BY <3>1 DEF Marker, ParserState
  <2> QED
    BY <1>2, <2>1 DEF NewParser, Parser
<1>4. 0 \in 0 .. MaxRetries - 1
  BY <1>1
<1>5. /\ tls \in Sessions /\ todo \in [Writer -> Seq(Frame)] /\ rest \in [Writer -> Seq(Byte)]
      /\ retries \in [Writer -> 0 .. MaxRetries - 1] /\ sent \in Seq(Frame) /\ failed \in Nat
  BY <1>1, <1>2, <1>4 DEF Init
<1>6. /\ conn \in {"open", "eof", "reset"} /\ wire \in Seq(Byte) /\ pending \in Seq(Byte)
      /\ got \in Seq(Byte) /\ parser \in Parser /\ pc \in {"poll", "parse", "ended"}
      /\ delivered \in Seq(Frame) /\ reported \in {"nothing", "disconnected", "error"}
  BY <1>1, <1>2, <1>3 DEF Init
<1> QED
  BY <1>5, <1>6, ParserType, Zenon DEF TypeOK

LEMMA TypesAre ==
    TypeOK =>
      /\ tls \in Sessions
      /\ todo \in [Writer -> Seq(Frame)]
      /\ rest \in [Writer -> Seq(Byte)]
      /\ retries \in [Writer -> 0 .. MaxRetries - 1]
      /\ sent \in Seq(Frame) /\ failed \in Nat
      /\ conn \in {"open", "eof", "reset"}
      /\ wire \in Seq(Byte) /\ pending \in Seq(Byte) /\ got \in Seq(Byte)
      /\ parser \in Parser
      /\ pc \in {"poll", "parse", "ended"}
      /\ delivered \in Seq(Frame)
      /\ reported \in {"nothing", "disconnected", "error"}
  BY ParserType, Zenon DEF TypeOK

LEMMA StartSendKeeps ==
    ASSUME TypeOK, NEW w \in Writer, StartSend(w)
    PROVE  TypeOK'
<1>1. /\ todo \in [Writer -> Seq(Frame)] /\ rest \in [Writer -> Seq(Byte)]
      /\ retries \in [Writer -> 0 .. MaxRetries - 1] /\ sent \in Seq(Frame)
      /\ MaxRetries \in Nat \ {0}
  BY TypesAre, LinkAssumption
<1>2. /\ todo[w] # <<>> /\ rest' = [rest EXCEPT ![w] = Encoded(Head(todo[w]))]
      /\ sent' = (IF Fits(Head(todo[w])) THEN Append(sent, Head(todo[w])) ELSE sent)
      /\ todo' = [todo EXCEPT ![w] = Tail(todo[w])]
      /\ retries' = [retries EXCEPT ![w] = 0]
  BY DEF StartSend
<1> DEFINE f == Head(todo[w])
<1>3. todo[w] \in Seq(Frame) /\ todo[w] # <<>>
  BY <1>1, <1>2
<1>4. f \in Frame /\ Tail(todo[w]) \in Seq(Frame)
  BY <1>3, HeadTailProperties
<1> HIDE DEF f
<1>5. Encoded(f) \in Seq(Byte)
  BY <1>4, EncodedBytes
<1>6. sent' \in Seq(Frame)
  BY <1>1, <1>2, <1>4, AppendProperties DEF f
<1>7. 0 \in 0 .. MaxRetries - 1
  BY <1>1
<1>8. /\ rest' \in [Writer -> Seq(Byte)] /\ todo' \in [Writer -> Seq(Frame)]
      /\ retries' \in [Writer -> 0 .. MaxRetries - 1]
  BY <1>1, <1>2, <1>4, <1>5, <1>7 DEF f
<1>9. UNCHANGED <<tls, failed, conn, wire, pending, got, parser, pc, delivered, reported>>
  BY DEF StartSend
<1> QED
  BY <1>6, <1>8, <1>9 DEF TypeOK

LEMMA WriteKeeps ==
    ASSUME TypeOK, NEW w \in Writer, Write(w)
    PROVE  TypeOK'
<1>1. /\ rest \in [Writer -> Seq(Byte)] /\ retries \in [Writer -> 0 .. MaxRetries - 1]
      /\ wire \in Seq(Byte) /\ failed \in Nat /\ MaxRetries \in Nat \ {0}
  BY TypesAre, LinkAssumption
<1>2. UNCHANGED <<tls, todo, sent, conn, pending, got, parser, pc, delivered, reported>>
  BY DEF Write
<1>3. 0 \in 0 .. MaxRetries - 1 /\ <<>> \in Seq(Byte)
  BY <1>1, EmptySeq
<1>4. GiveUp(w) => /\ rest' \in [Writer -> Seq(Byte)]
                   /\ retries' \in [Writer -> 0 .. MaxRetries - 1]
                   /\ wire' \in Seq(Byte) /\ failed' \in Nat
  BY <1>1, <1>3 DEF GiveUp
<1>5. /\ rest' \in [Writer -> Seq(Byte)]
      /\ retries' \in [Writer -> 0 .. MaxRetries - 1]
      /\ wire' \in Seq(Byte) /\ failed' \in Nat
  <2>1. ASSUME NEW n \in 1 .. Len(rest[w]), wire' = wire \o SubSeq(rest[w], 1, n),
               rest' = [rest EXCEPT ![w] = Dropped(rest[w], n)],
               retries' = [retries EXCEPT ![w] = 0], UNCHANGED failed
        PROVE  /\ rest' \in [Writer -> Seq(Byte)]
               /\ retries' \in [Writer -> 0 .. MaxRetries - 1]
               /\ wire' \in Seq(Byte) /\ failed' \in Nat
    <3> DEFINE s == rest[w]
    <3>1. s \in Seq(Byte) /\ n \in 0 .. Len(s)
      BY <1>1
    <3>2. SubSeq(s, 1, n) \in Seq(Byte) /\ Dropped(s, n) \in Seq(Byte)
      BY <3>1, SubSeqBytes
    <3> HIDE DEF s
    <3>3. wire \o SubSeq(s, 1, n) \in Seq(Byte)
      BY <1>1, <3>2, ConcatProperties
    <3> QED
      BY <1>1, <1>3, <2>1, <3>2, <3>3 DEF s
  <2>2. ASSUME ~ Exhausted(retries[w] + 1), retries' = [retries EXCEPT ![w] = retries[w] + 1],
               UNCHANGED <<rest, failed, wire>>
        PROVE  /\ rest' \in [Writer -> Seq(Byte)]
               /\ retries' \in [Writer -> 0 .. MaxRetries - 1]
               /\ wire' \in Seq(Byte) /\ failed' \in Nat
    <3>1. retries[w] \in 0 .. MaxRetries - 1
      BY <1>1
    <3>2. retries[w] + 1 \in 0 .. MaxRetries - 1
      BY <1>1, <2>2, <3>1 DEF Exhausted
    <3> QED
      BY <1>1, <2>2, <3>2
  <2> QED
    BY <1>4, <2>1, <2>2 DEF Write
<1> QED
  BY <1>2, <1>5 DEF TypeOK

LEMMA DroppedIsBytes ==
    ASSUME NEW s \in Seq(Byte), NEW n \in Nat
    PROVE  Dropped(s, n) \in Seq(Byte) /\ Upto(n, s) \in Seq(Byte)
<1>1. Len(s) \in Nat /\ n + 1 \in Int
  BY LenProperties
<1>2. \A i \in n + 1 .. Len(s) : i \in 1 .. Len(s)
  BY <1>1
<1>3. \A i \in n + 1 .. Len(s) : s[i] \in Byte
  BY <1>2, ElementOfSeq
<1>4. Dropped(s, n) \in Seq(Byte)
  BY <1>1, <1>3, SubSeqProperties DEF Dropped
<1> DEFINE m == IF n < Len(s) THEN n ELSE Len(s)
<1>5. m \in 0 .. Len(s)
  BY <1>1
<1>6. SubSeq(s, 1, m) \in Seq(Byte)
  BY <1>5, SubSeqBytes
<1> QED
  BY <1>4, <1>6 DEF Upto

\* Reading more.
LEMMA TakeKeeps ==
    ASSUME IInv, NEW bytes \in Seq(Byte), Take(bytes), wire' \in Seq(Byte), pending' \in Seq(Byte)
    PROVE  IInv'
<1>1. /\ got \in Seq(Byte) /\ parser \in Parser
  BY TypesAre DEF IInv
<1>2. /\ got' = got \o bytes /\ parser' = [parser EXCEPT !.buf = parser.buf \o bytes]
      /\ pc' = "parse" /\ delivered' = delivered
      /\ UNCHANGED <<tls, todo, rest, retries, sent, failed, conn, delivered, reported>>
  BY DEF Take
<1>3. got' \in Seq(Byte)
  BY <1>1, <1>2, ConcatProperties
<1>4. parser' \in Parser
  <2> DEFINE c == parser.buf \o bytes
  <2>1. parser.buf \in Seq(Byte)
    BY <1>1 DEF Parser
  <2>2. c \in Seq(Byte)
    BY <2>1, ConcatProperties
  <2> HIDE DEF c
  <2>3. parser' = [parser EXCEPT !.buf = c]
    BY <1>2 DEF c
  <2> QED
    BY <1>1, <2>2, <2>3 DEF Parser
<1>5. TypeOK'
  <2>1. parser' \in [buf : Seq(Byte), state : ParserState, len : 0 .. MaxLength, marker : Marker]
    BY <1>4, ParserType
  <2> QED
    BY <1>2, <1>3, <2>1 DEF IInv, TypeOK
<1>6. Understood'
  <2>1. Understands(parser, got, delivered)
    BY DEF IInv, Understood
  <2>2. \A q \in Parser : q = [parser EXCEPT !.buf = parser.buf \o bytes]
           => Understands(q, got \o bytes, delivered)
    BY <1>1, <2>1, UnderstandsMore
  <2>3. Understands(parser', got \o bytes, delivered)
    BY <1>2, <1>4, <2>2
  <2> QED
    BY <1>2, <2>3 DEF Understood
<1>7. Waits'
  BY <1>2 DEF Waits
<1> QED
  BY <1>5, <1>6, <1>7 DEF IInv

LEMMA ReadPlainKeeps ==
    ASSUME IInv, ReadPlain
    PROVE  IInv'
<1>1. wire \in Seq(Byte) /\ pending \in Seq(Byte) /\ UNCHANGED pending
  BY TypesAre DEF IInv, ReadPlain
<1>2. PICK n \in 1 .. ReadMax : /\ n <= Len(wire) /\ Take(SubSeq(wire, 1, n))
                                /\ wire' = Dropped(wire, n)
  BY DEF ReadPlain
<1>3. Len(wire) \in Nat /\ ReadMax \in Nat
  BY <1>1, LenProperties, LinkAssumption
<1>4. n \in 0 .. Len(wire)
  BY <1>2, <1>3
<1>5. SubSeq(wire, 1, n) \in Seq(Byte) /\ wire' \in Seq(Byte)
  BY <1>1, <1>2, <1>4, SubSeqBytes
<1> QED
  BY <1>1, <1>2, <1>5, TakeKeeps

LEMMA ReadTlsKeeps ==
    ASSUME IInv, ReadTls
    PROVE  IInv'
<1>1. wire \in Seq(Byte) /\ pending \in Seq(Byte) /\ ReadMax \in Nat
  BY TypesAre, LinkAssumption DEF IInv
<1>2. CASE /\ Take(Upto(ReadMax, pending)) /\ pending' = Dropped(pending, ReadMax)
           /\ UNCHANGED wire
  <2>1. Upto(ReadMax, pending) \in Seq(Byte) /\ pending' \in Seq(Byte) /\ wire' \in Seq(Byte)
    BY <1>1, <1>2, DroppedIsBytes
  <2> QED
    BY <1>2, <2>1, TakeKeeps
<1>3. ASSUME NEW n \in 1 .. Len(wire), Take(Upto(ReadMax, SubSeq(wire, 1, n))),
             pending' = Dropped(SubSeq(wire, 1, n), ReadMax), wire' = Dropped(wire, n)
      PROVE  IInv'
  <2> DEFINE r == SubSeq(wire, 1, n)
  <2>1. n \in 0 .. Len(wire)
    BY <1>1, LenProperties
  <2>2. r \in Seq(Byte) /\ wire' \in Seq(Byte)
    BY <1>1, <1>3, <2>1, SubSeqBytes
  <2>3. Take(Upto(ReadMax, r)) /\ pending' = Dropped(r, ReadMax)
    BY <1>3
  <2> HIDE DEF r
  <2>4. Upto(ReadMax, r) \in Seq(Byte) /\ pending' \in Seq(Byte)
    BY <1>1, <2>2, <2>3, DroppedIsBytes
  <2> QED
    BY <2>2, <2>3, <2>4, TakeKeeps
<1> QED
  BY <1>2, <1>3 DEF ReadTls

LEMMA ParseKeeps ==
    ASSUME IInv, Parse
    PROVE  IInv'
<1>1. /\ got \in Seq(Byte) /\ parser \in Parser /\ delivered \in Seq(Frame)
  BY TypesAre DEF IInv
<1>2. UNCHANGED <<tls, todo, rest, retries, sent, failed, conn, wire, pending, got, reported>>
  BY DEF Parse
<1>3. CASE ~ GoesOn(parser)
  <2>1. pc' = "poll" /\ UNCHANGED <<parser, delivered>>
    BY <1>3 DEF Parse
  <2>2. TypeOK'
    BY <1>2, <2>1 DEF IInv, TypeOK
  <2>3. Understood'
    BY <1>2, <2>1 DEF IInv, Understood
  <2>4. Waits'
    <3>1. parser.buf \in Seq(Byte)
      BY <1>1 DEF Parser
    <3>2. Len(parser.buf) \in Nat
      BY <3>1, LenProperties
    <3>3. Len(parser.buf) < 4
      BY <1>3, <3>2 DEF GoesOn
    <3> QED
      BY <2>1, <3>3 DEF Waits
  <2> QED
    BY <2>2, <2>3, <2>4 DEF IInv
<1>4. CASE GoesOn(parser)
  <2> DEFINE p == Pass(parser)
             q == Kept(p)
  <2>1. parser' = q /\ delivered' = delivered \o p.frames /\ pc' = IF p.leave THEN "poll" ELSE "parse"
    BY <1>4 DEF Parse
  <2>2. Understands(parser, got, delivered)
    BY DEF IInv, Understood
  <2>3. /\ q \in Parser /\ p.frames \in Seq(Frame)
        /\ Understands(q, got, delivered \o p.frames)
        /\ p.leave => Len(q.buf) < 4 \/ FramesFrom(got)[Front(q, Len(got))] = <<>>
    BY <1>1, <1>4, <2>2, UnderstandsPass
  <2> HIDE DEF p, q
  <2>4. delivered' \in Seq(Frame)
    BY <1>1, <2>1, <2>3, ConcatProperties
  <2>5. TypeOK'
    <3>1. parser' \in [buf : Seq(Byte), state : ParserState, len : 0 .. MaxLength, marker : Marker]
      BY <2>1, <2>3, ParserType
    <3>2. pc' \in {"poll", "parse", "ended"}
      BY <2>1
    <3> QED
      BY <1>2, <2>4, <3>1, <3>2 DEF IInv, TypeOK
  <2>6. Understood'
    BY <1>2, <2>1, <2>3 DEF Understood
  <2>7. Waits'
    <3>1. pc' # "parse" => p.leave
      BY <2>1
    <3>2. got' = got
      BY <1>2
    <3> QED
      BY <2>1, <2>3, <3>1, <3>2 DEF Waits
  <2> QED
    BY <2>5, <2>6, <2>7 DEF IInv
<1> QED
  BY <1>3, <1>4

LEMMA InitInvariant == Init => IInv
<1> SUFFICES ASSUME Init PROVE IInv
  OBVIOUS
<1>1. TypeOK
  BY TypesStart
<1>2. got = <<>> /\ delivered = <<>> /\ parser = NewParser /\ NewParser.buf = <<>>
      /\ NewParser.state = "WaitStart1"
  BY DEF Init, NewParser
<1>3. Len(<<>>) = 0 /\ <<>> \in Seq(Byte)
  BY EmptySeq
<1>4. Front(NewParser, 0) = 1
  <2>1. Front(NewParser, 0) = 0 - 0 + 1 - 0
    BY <1>2, <1>3, TakenIn DEF Front
  <2> QED
    BY <2>1
<1>5. ASSUME NEW b \in Seq(Byte)
      PROVE  /\ Reads(NewParser, b, 0)
             /\ Parsed(b) = <<>> \o FramesFrom(b)[Front(NewParser, 0)]
  <2>1. Aligned(<<>>, b, 0)
    <3>1. 0 - 0 \in Nat /\ 1 .. 0 = {}
      OBVIOUS
    <3> QED
      BY <1>3, <3>1 DEF Aligned
  <2>2. HeaderRead(NewParser, b, 0)
    BY <1>2, TakenIn DEF HeaderRead
  <2>3. Len(b) \in Nat /\ 1 \in 1 .. Len(b) + 1
    BY LenProperties
  <2> DEFINE r == FramesFrom(b)[1]
  <2>4. r \in Seq(Frame)
    BY <2>3, FramesAreFrames
  <2> HIDE DEF r
  <2>5. <<>> \o r = r
    BY <2>4, ConcatEmptySeq
  <2> QED
    BY <1>2, <1>4, <2>1, <2>2, <2>5 DEF Reads, r, Parsed
<1>6. Understood
  BY <1>2, <1>3, <1>5 DEF Understood, Understands
<1>7. Waits
  <2>1. Len(parser.buf) = 0 /\ 0 < 4
    BY <1>2, <1>3
  <2> QED
    BY <2>1 DEF Waits
<1> QED
  BY <1>1, <1>6, <1>7 DEF IInv

LEMMA StepInvariant == IInv /\ [Next]_vars => IInv'
<1> SUFFICES ASSUME IInv, [Next]_vars PROVE IInv'
  OBVIOUS
<1>1. ASSUME TypeOK', UNCHANGED <<got, parser, pc, delivered>> PROVE IInv'
  BY <1>1, OthersKeep DEF IInv
<1>2. ASSUME NEW w \in Writer, StartSend(w) PROVE IInv'
  <2>1. TypeOK'
    BY <1>2, StartSendKeeps DEF IInv
  <2>2. UNCHANGED <<got, parser, pc, delivered>>
    BY <1>2 DEF StartSend
  <2> QED
    BY <1>1, <2>1, <2>2
<1>3. ASSUME NEW w \in Writer, Write(w) PROVE IInv'
  <2>1. TypeOK'
    BY <1>3, WriteKeeps DEF IInv
  <2>2. UNCHANGED <<got, parser, pc, delivered>>
    BY <1>3 DEF Write
  <2> QED
    BY <1>1, <2>1, <2>2
<1>4. CASE ReadPlain
  BY <1>4, ReadPlainKeeps
<1>5. CASE ReadTls
  BY <1>5, ReadTlsKeeps
<1>6. CASE ReadEnd
  <2>1. /\ pc' = "ended" /\ reported' \in {"error", "disconnected"}
        /\ UNCHANGED <<tls, todo, rest, retries, sent, failed, conn, wire, pending, got,
                       parser, delivered>>
    BY <1>6 DEF ReadEnd
  <2>2. TypeOK'
    BY <2>1 DEF IInv, TypeOK
  <2>3. Understood'
    BY <2>1 DEF IInv, Understood
  <2>4. Waits'
    <3>1. pc = "poll"
      BY <1>6 DEF ReadEnd
    <3> QED
      BY <2>1, <3>1 DEF IInv, Waits
  <2> QED
    BY <2>2, <2>3, <2>4 DEF IInv
<1>7. CASE Parse
  BY <1>7, ParseKeeps
<1>8. CASE Close
  <2>1. /\ conn' = "eof"
        /\ UNCHANGED <<tls, todo, rest, retries, sent, failed, wire, pending, got, parser,
                       pc, delivered, reported>>
    BY <1>8 DEF Close
  <2>2. TypeOK'
    BY <2>1 DEF IInv, TypeOK
  <2> QED
    BY <1>1, <2>1, <2>2
<1>9. CASE Reset
  <2>1. /\ conn' = "reset" /\ wire' = <<>>
        /\ UNCHANGED <<tls, todo, rest, retries, sent, failed, pending, got, parser,
                       pc, delivered, reported>>
    BY <1>9 DEF Reset
  <2>2. TypeOK'
    BY <2>1, EmptySeq DEF IInv, TypeOK
  <2> QED
    BY <1>1, <2>1, <2>2
<1>10. CASE UNCHANGED vars
  <2>1. UNCHANGED <<tls, todo, rest, retries, sent, failed, conn, wire, pending, got,
                    parser, pc, delivered, reported>>
    BY <1>10 DEF vars
  <2>2. TypeOK'
    BY <2>1 DEF IInv, TypeOK
  <2> QED
    BY <1>1, <2>1, <2>2
<1> QED
  BY <1>2, <1>3, <1>4, <1>5, <1>6, <1>7, <1>8, <1>9, <1>10 DEF Next, Reader

\* The state is well typed, the parser understands what it has read, and waits
\* only when it must.
LEMMA Invariance == Spec => []IInv
<1>1. Init => IInv
  BY InitInvariant
<1>2. IInv /\ [Next]_vars => IInv'
  BY StepInvariant
<1> QED
  BY <1>1, <1>2, PTL DEF Spec

\* With fewer than four bytes in the buffer at most one frame is held back.
LEMMA OneHeldBack ==
    ASSUME NEW p \in Parser, NEW g \in Seq(Byte), Reads(p, g, Len(g)), Len(p.buf) < 4
    PROVE  Len(FramesFrom(g)[Front(p, Len(g))]) <= 1
<1> DEFINE f == Front(p, Len(g))
           n == Len(g)
           l == Len(p.buf)
           x == Taken(p.state)
           r == FramesFrom(g)[f]
<1>1. n \in Nat /\ n \in 0 .. Len(g)
  BY LenProperties
<1>2. Started(p) \in Running /\ Reads(Started(p), g, n) /\ Front(Started(p), n) = f
      /\ Started(p).buf = p.buf
  BY StartedReads
<1>3. f \in 1 .. n + 1 /\ l \in Nat
  BY <1>1, <1>2, FrontIsAPlace
<1>4. f = n - l + 1 - x /\ x \in {0, 2, 3, 4} /\ l < 4
  BY DEF Front, Taken
<1>5. HeaderRead(p, g, n)
  BY DEF Reads
<1>6. Len(<<>>) = 0
  BY EmptySeq
<1>7. f + 3 > n => r = <<>>
  BY <1>3, TooShort
<1>8. r = <<>> => Len(r) <= 1
  BY <1>6
<1>9. CASE ~ IsHeader(g, f)
  <2>1. x > 0 => g[f] = Start1 /\ g[f + 1] = p.marker
    BY <1>5 DEF HeaderRead
  <2>2. p.marker \in Marker
    BY DEF Parser
  <2>3. x > 0 => ~ (f + 3 <= n)
    BY <1>9, <2>1, <2>2 DEF IsHeader
  <2> HIDE DEF f, n, l, x
  <2>4. x = 0 => f + 3 > n
    BY <1>1, <1>3, <1>4
  <2>5. x = 0 \/ x > 0
    BY <1>4
  <2>6. f + 3 > n
    BY <1>1, <1>3, <2>3, <2>4, <2>5
  <2> QED
    BY <1>7, <1>8, <2>6 DEF r, f, n
<1>10. CASE IsHeader(g, f)
  <2> DEFINE v == LenAt(g, f)
             e == [marker |-> g[f + 1], payload |-> SubSeq(g, f + 4, f + 3 + v)]
             k == f + 4 + v
  <2>1. f \in Nat /\ f >= 1 /\ f + 3 <= n
    BY <1>1, <1>3, <1>10 DEF IsHeader
  <2>2. v \in Nat
    BY <2>1, LengthAt
  <2>3. f + 3 + v > n => r = <<>>
    BY <1>3, <1>10, FrameFirst, Zenon
  <2>4. f + 3 + v <= n => r = <<e>> \o FramesFrom(g)[k]
    BY <1>3, <1>10, FrameFirst, Zenon
  <2>5. f + 3 + v <= n => k \in 1 .. n + 1 /\ k + 3 > n
    <3> HIDE DEF f, n, l, x, v
    <3> QED
      BY <1>1, <1>3, <1>4, <2>1, <2>2
  <2>6. f + 3 + v <= n => FramesFrom(g)[k] = <<>>
    <3> HIDE DEF f, v, k
    <3> QED
      BY <2>5, TooShort
  <2>7. Len(<<e>> \o <<>>) = 1
    <3> HIDE DEF e
    <3>1. <<e>> \in Seq({e}) /\ <<>> \in Seq({e}) /\ Len(<<e>>) = 1
      BY EmptySeq
    <3>2. Len(<<e>> \o <<>>) = Len(<<e>>) + Len(<<>>)
      BY <3>1, ConcatProperties
    <3> QED
      BY <1>6, <3>1, <3>2
  <2>8. f + 3 + v > n \/ f + 3 + v <= n
    <3> HIDE DEF f, v, n
    <3> QED
      BY <1>1, <2>1, <2>2
  <2>9. f + 3 + v <= n => Len(r) = 1
    BY <2>4, <2>6, <2>7, Zenon
  <2> DEFINE m == Len(r)
  <2>10. m <= 1
    <3>1. r = <<>> => m <= 1
      BY <1>8
    <3> HIDE DEF m, r, f, v, n
    <3>2. m = 1 => m <= 1
      OBVIOUS
    <3>3. f + 3 + v <= n => m = 1
      BY <2>9 DEF m
    <3> QED
      BY <2>3, <2>8, <3>1, <3>2, <3>3, Zenon
  <2> QED
    BY <2>10
<1> QED
  BY <1>9, <1>10

LEMMA Beginning == \A x, y \in Seq(Frame) : IsPrefixOf(x, x \o y)
<1> SUFFICES ASSUME NEW x \in Seq(Frame), NEW y \in Seq(Frame) PROVE IsPrefixOf(x, x \o y)
  OBVIOUS
<1> DEFINE a == x \o y
<1>1. SubSeq(a, 1, Len(x)) = x
  BY ConcatAdjacentSubSeq, SubSeqFull
<1>2. Len(x) \in Nat /\ Len(y) \in Nat /\ Len(a) = Len(x) + Len(y)
  BY ConcatProperties, LenProperties
<1> HIDE DEF a
<1>3. Len(x) <= Len(a)
  BY <1>2
<1> QED
  BY <1>1, <1>3 DEF IsPrefixOf, a

\* The frames handed on are those in the bytes read so far, all but the last
\* whenever the loop does not run.
LEMMA HandedOn ==
    ASSUME IInv
    PROVE  /\ IsPrefixOf(delivered, Parsed(got))
           /\ pc # "parse" => \/ Len(delivered) = Len(Parsed(got))
                              \/ Len(delivered) + 1 = Len(Parsed(got)) /\ Len(parser.buf) < 4
<1> DEFINE a == Parsed(got)
           f == Front(parser, Len(got))
           r == FramesFrom(got)[f]
<1>1. TypeOK /\ got \in Seq(Byte) /\ parser \in Parser /\ delivered \in Seq(Frame)
  BY TypesAre DEF IInv
<1>2. Extends(got, got)
  BY <1>1, LenProperties DEF Extends
<1>3. Reads(parser, got, Len(got)) /\ a = delivered \o r
  BY <1>1, <1>2 DEF IInv, Understood, Understands
<1>4. f \in 1 .. Len(got) + 1
  <2>1. Len(got) \in 0 .. Len(got)
    BY <1>1, LenProperties
  <2>2. /\ Started(parser) \in Running /\ Reads(Started(parser), got, Len(got))
        /\ Front(Started(parser), Len(got)) = f
    BY <1>1, <1>3, StartedReads
  <2> QED
    BY <1>1, <2>1, <2>2, FrontIsAPlace
<1>5. r \in Seq(Frame)
  BY <1>1, <1>4, FramesAreFrames
<1>6. pc # "parse" => Len(parser.buf) < 4 \/ r = <<>>
  BY DEF IInv, Waits
<1>7. Len(parser.buf) < 4 => Len(r) <= 1
  BY <1>1, <1>3, OneHeldBack
<1> HIDE DEF a, r
<1>8. Len(delivered) \in Nat /\ Len(r) \in Nat /\ Len(a) = Len(delivered) + Len(r)
  BY <1>1, <1>3, <1>5, ConcatProperties, LenProperties
<1>9. IsPrefixOf(delivered, a)
  BY <1>1, <1>3, <1>5, Beginning
<1>10. pc # "parse" => \/ Len(delivered) = Len(a)
                       \/ Len(delivered) + 1 = Len(a) /\ Len(parser.buf) < 4
  <2>1. r = <<>> => Len(r) = 0
    BY EmptySeq
  <2>2. \A x, y, z \in Nat : z = x + y =>
           /\ y = 0 => x = z
           /\ y <= 1 => x = z \/ x + 1 = z
    OBVIOUS
  <2>3. Len(a) \in Nat
    BY <1>8
  <2>4. /\ Len(r) = 0 => Len(delivered) = Len(a)
        /\ Len(r) <= 1 => Len(delivered) = Len(a) \/ Len(delivered) + 1 = Len(a)
    BY <1>8, <2>2, <2>3
  <2> QED
    BY <1>6, <1>7, <2>1, <2>4, Zenon
<1> QED
  BY <1>1, <1>9, <1>10 DEF a

\* In every reachable state the frames handed on are those in the bytes read so
\* far, however the reads cut them and whatever else was on the line; in poll at
\* most the last is held back, with fewer than four bytes in the buffer.
THEOREM CutsDoNotMatter == Spec => []ChunkingIsInvisible
<1>1. IInv => ChunkingIsInvisible
  <2> SUFFICES ASSUME IInv PROVE ChunkingIsInvisible
    OBVIOUS
  <2> DEFINE m == Len(delivered)
             n == Len(Parsed(got))
  <2>1. TypeOK
    BY DEF IInv
  <2>2. /\ IsPrefixOf(delivered, Parsed(got))
        /\ pc # "parse" => m = n \/ (m + 1 = n /\ Len(parser.buf) < 4)
    BY HandedOn, Zenon
  <2> HIDE DEF m, n
  <2>3. pc = "poll" => m = n \/ (m + 1 = n /\ Len(parser.buf) < 4)
    BY <2>2
  <2> QED
    BY <2>1, <2>2, <2>3, Zenon DEF ChunkingIsInvisible, m, n
<1> QED
  BY <1>1, Invariance, PTL


-----------------------------------------------------------------------------
(* What one thread sends *)

\* The bytes of a frame: its header, with its length in two bytes, and its
\* payload.
LEMMA EncodedIs ==
    ASSUME NEW f \in Frame, Fits(f)
    PROVE  /\ Encoded(f) \in Seq(Byte) /\ Len(f.payload) \in Nat
           /\ Len(Encoded(f)) = 4 + Len(f.payload)
           /\ Encoded(f)[1] = Start1 /\ Encoded(f)[2] = f.marker /\ f.marker \in Marker
           /\ Number(Encoded(f)[3], Encoded(f)[4]) = Len(f.payload)
           /\ \A i \in 1 .. Len(f.payload) : Encoded(f)[4 + i] = f.payload[i]
<1> DEFINE n == Len(f.payload)
           hi == n \div 256
           lo == n % 256
           s == <<Start1, f.marker, hi, lo>>
<1>1. f.payload \in Seq(Byte) /\ f.marker \in Marker /\ n \in Nat
  BY LenProperties DEF Frame
<1>2. Encoded(f) \in Seq(Byte)
  BY EncodedBytes
<1>3. Encoded(f) = s \o f.payload
  BY Zenon DEF Encoded
<1>4. \A x \in Nat : x \div 256 \in Nat /\ x % 256 \in Nat /\ 256 * (x \div 256) + (x % 256) = x
  BY SMT
<1> HIDE DEF n
<1>5. hi \in Nat /\ lo \in Nat /\ 256 * hi + lo = n
  BY <1>1, <1>4
<1> HIDE DEF hi, lo
<1>6. /\ s \in Seq({Start1, f.marker, hi, lo}) /\ Len(s) = 4
      /\ s[1] = Start1 /\ s[2] = f.marker /\ s[3] = hi /\ s[4] = lo
  OBVIOUS
<1> HIDE DEF s
<1> DEFINE T == {Start1, f.marker, hi, lo} \cup Byte
<1>7. s \in Seq(T) /\ f.payload \in Seq(T)
  BY <1>1, <1>6
<1> HIDE DEF T
<1>8. /\ Len(s \o f.payload) = 4 + n
      /\ \A i \in 1 .. 4 + n : (s \o f.payload)[i] = IF i <= 4 THEN s[i] ELSE f.payload[i - 4]
  <2>1. /\ Len(s \o f.payload) = Len(s) + Len(f.payload)
        /\ \A i \in 1 .. Len(s) + Len(f.payload) :
              (s \o f.payload)[i] = IF i <= Len(s) THEN s[i] ELSE f.payload[i - Len(s)]
    BY <1>7, ConcatProperties
  <2>2. Len(s) = 4 /\ Len(f.payload) = n
    BY <1>6 DEF n
  <2> QED
    BY <2>1, <2>2, Zenon
<1>9. \A i \in 1 .. 4 : i \in 1 .. 4 + n /\ i <= 4
  BY <1>1
<1>10. /\ (s \o f.payload)[1] = Start1 /\ (s \o f.payload)[2] = f.marker
       /\ (s \o f.payload)[3] = hi /\ (s \o f.payload)[4] = lo
  <2>1. 1 \in 1 .. 4 /\ 2 \in 1 .. 4 /\ 3 \in 1 .. 4 /\ 4 \in 1 .. 4
    OBVIOUS
  <2> QED
    BY <1>6, <1>8, <1>9, <2>1
<1>11. \A i \in 1 .. n : (s \o f.payload)[4 + i] = f.payload[i]
  <2>1. \A i \in 1 .. n : 4 + i \in 1 .. 4 + n /\ ~ (4 + i <= 4) /\ (4 + i) - 4 = i
    BY <1>1
  <2> QED
    BY <1>8, <2>1
<1>12. Number(hi, lo) = n
  BY <1>5 DEF Number
<1> QED
  BY <1>1, <1>2, <1>3, <1>8, <1>10, <1>11, <1>12 DEF n

\* The bytes B are the frames d and nothing that could make one of what follows,
\* which begins with a frame.
Whole(B, d) ==
    \A c \in Seq(Byte) :
        Extends(c, B) /\ (Len(c) > Len(B) => c[Len(B) + 1] = Start1)
            => Parsed(c) = d \o FramesFrom(c)[Len(B) + 1]

\* The log output on the line does not look like a frame's header.
QuietNoise ==
    \A i \in 1 .. Len(Noise) : Noise[i] = Start1 => i = Len(Noise) \/ Noise[i + 1] \notin Marker

LEMMA NoiseIsWhole == QuietNoise => Whole(Noise, <<>>)
<1> SUFFICES ASSUME QuietNoise, NEW c \in Seq(Byte), Extends(c, Noise),
                    Len(c) > Len(Noise) => c[Len(Noise) + 1] = Start1
             PROVE  Parsed(c) = <<>> \o FramesFrom(c)[Len(Noise) + 1]
  BY DEF Whole
<1> DEFINE m == Len(Noise)
           n == Len(c)
           r == FramesFrom(c)[m + 1]
<1>1. /\ Noise \in Seq(Byte) /\ m \in Nat /\ n \in Nat /\ m <= n
      /\ \A i \in 1 .. m : c[i] = Noise[i]
  BY LinkAssumption, LenProperties DEF Extends
<1>2. n > m => c[m + 1] = Start1
  OBVIOUS
<1>3. \A i \in 1 .. m : Noise[i] = Start1 => i = m \/ Noise[i + 1] \notin Marker
  BY DEF QuietNoise
<1>4. Start1 \notin Marker
  BY DEF Start1, Marker
<1>5. ASSUME NEW i \in 1 .. m PROVE ~ IsHeader(c, i)
  <2> HIDE DEF m
  <2>1. CASE i = m
    <3>1. IsHeader(c, i) => i + 3 <= n /\ c[i + 1] \in Marker
      BY DEF IsHeader
    <3> HIDE DEF n
    <3>2. i + 3 <= n => n > m /\ i + 1 = m + 1
      BY <1>1, <2>1
    <3> QED
      BY <1>2, <1>4, <3>1, <3>2
  <2>2. CASE i # m
    <3>1. i + 1 \in 1 .. m
      BY <1>1, <2>2
    <3>2. c[i] = Noise[i] /\ c[i + 1] = Noise[i + 1]
      BY <1>1, <3>1
    <3> QED
      BY <1>3, <2>2, <3>2 DEF IsHeader
  <2> QED
    BY <2>1, <2>2
<1>6. /\ 1 \in 1 .. n + 1 /\ m + 1 \in 1 .. n + 1 /\ 1 <= m + 1
      /\ \A k \in 1 .. (m + 1) - 1 : k \in 1 .. m
  <2> HIDE DEF m, n
  <2> QED
    BY <1>1
<1>7. FramesFrom(c)[1] = r
  BY <1>5, <1>6, Skipped
<1>8. r \in Seq(Frame)
  BY <1>6, FramesAreFrames
<1> HIDE DEF r
<1>9. <<>> \o r = r
  BY <1>8, ConcatEmptySeq
<1> QED
  BY <1>7, <1>9 DEF Parsed, r, m

LEMMA ExtendsFirst ==
    ASSUME NEW c \in Seq(Byte), NEW x \in Seq(Byte), NEW y \in Seq(Byte), Extends(c, x \o y)
    PROVE  /\ Extends(c, x)
           /\ Len(x) + Len(y) <= Len(c)
           /\ \A i \in 1 .. Len(y) : c[Len(x) + i] = y[i]
<1> DEFINE l == Len(x)
           m == Len(y)
           n == Len(c)
<1>1. /\ l \in Nat /\ m \in Nat /\ n \in Nat /\ Len(x \o y) = l + m
      /\ \A i \in 1 .. l + m : (x \o y)[i] = IF i <= l THEN x[i] ELSE y[i - l]
  BY ConcatProperties, LenProperties
<1>2. l + m <= n /\ \A i \in 1 .. l + m : c[i] = (x \o y)[i]
  BY <1>1 DEF Extends
<1> HIDE DEF l, m, n
<1>3. \A i \in 1 .. l : i \in 1 .. l + m /\ i <= l
  BY <1>1
<1>4. \A i \in 1 .. m : l + i \in 1 .. l + m /\ ~ (l + i <= l) /\ (l + i) - l = i
  BY <1>1
<1>5. \A i \in 1 .. l : c[i] = x[i]
  BY <1>1, <1>2, <1>3
<1>6. \A i \in 1 .. m : c[l + i] = y[i]
  BY <1>1, <1>2, <1>4
<1>7. l <= n
  BY <1>1, <1>2
<1> QED
  BY <1>2, <1>5, <1>6, <1>7 DEF Extends, l, m, n

\* A frame more.
LEMMA WholeMore ==
    ASSUME NEW B \in Seq(Byte), NEW d \in Seq(Frame), NEW f \in Frame, Fits(f), Whole(B, d)
    PROVE  Whole(B \o Encoded(f), Append(d, f))
<1> DEFINE e == Encoded(f)
           m == Len(B)
           n == Len(f.payload)
<1>1. /\ e \in Seq(Byte) /\ n \in Nat /\ Len(e) = 4 + n
      /\ e[1] = Start1 /\ e[2] = f.marker /\ f.marker \in Marker /\ Number(e[3], e[4]) = n
      /\ \A i \in 1 .. n : e[4 + i] = f.payload[i]
  BY EncodedIs
<1> HIDE DEF e, n
<1>2. m \in Nat /\ Len(B \o e) = m + (4 + n)
  <2>1. Len(B \o e) = m + Len(e)
    BY <1>1, ConcatProperties
  <2> QED
    BY <1>1, <2>1, LenProperties
<1> SUFFICES ASSUME NEW c \in Seq(Byte), Extends(c, B \o e)
             PROVE  Parsed(c) = Append(d, f) \o FramesFrom(c)[Len(B \o e) + 1]
  BY DEF Whole, e
<1>3. Extends(c, B) /\ m + (4 + n) <= Len(c) /\ \A i \in 1 .. 4 + n : c[m + i] = e[i]
  <2>1. Extends(c, B) /\ m + Len(e) <= Len(c) /\ \A i \in 1 .. Len(e) : c[m + i] = e[i]
    BY <1>1, ExtendsFirst
  <2> QED
    BY <1>1, <2>1, Zenon
<1>4. Len(c) \in Nat
  BY LenProperties
<1> DEFINE k == m + 1
           l == m + (4 + n) + 1
           r == FramesFrom(c)[l]
<1>5. /\ k \in 1 .. Len(c) + 1 /\ k \in Nat /\ k >= 1 /\ k + 3 <= Len(c) /\ k + 3 + n <= Len(c)
      /\ k + 4 + n = l /\ l \in 1 .. Len(c) + 1 /\ k = m + 1 /\ k + 1 = m + 2 /\ k + 2 = m + 3
      /\ k + 3 = m + 4 /\ Len(c) > m
      /\ 1 \in 1 .. 4 + n /\ 2 \in 1 .. 4 + n /\ 3 \in 1 .. 4 + n /\ 4 \in 1 .. 4 + n
  <2> DEFINE v == Len(c)
  <2>1. m \in Nat /\ n \in Nat /\ v \in Nat /\ m + (4 + n) <= v
    BY <1>1, <1>2, <1>3, <1>4
  <2> HIDE DEF m, v
  <2>2. /\ k \in 1 .. v + 1 /\ k \in Nat /\ k >= 1 /\ k + 3 <= v /\ k + 3 + n <= v
        /\ l \in 1 .. v + 1 /\ v > m
    BY <2>1
  <2>3. /\ k + 4 + n = l /\ k = m + 1 /\ k + 1 = m + 2 /\ k + 2 = m + 3 /\ k + 3 = m + 4
    BY <2>1
  <2>4. 1 \in 1 .. 4 + n /\ 2 \in 1 .. 4 + n /\ 3 \in 1 .. 4 + n /\ 4 \in 1 .. 4 + n
    BY <2>1
  <2> QED
    BY <2>2, <2>3, <2>4 DEF v
<1> HIDE DEF k, l
<1>6. c[k] = Start1 /\ c[k + 1] = f.marker /\ c[k + 2] = e[3] /\ c[k + 3] = e[4]
  <2>1. c[m + 1] = e[1] /\ c[m + 2] = e[2] /\ c[m + 3] = e[3] /\ c[m + 4] = e[4]
    BY <1>3, <1>5
  <2> QED
    BY <1>1, <1>5, <2>1
<1>7. IsHeader(c, k)
  BY <1>1, <1>5, <1>6 DEF IsHeader
<1>8. LenAt(c, k) = n
  BY <1>1, <1>5, <1>6, LengthAt
<1>9. FramesFrom(c)[k] = <<[marker |-> c[k + 1], payload |-> SubSeq(c, k + 4, k + 3 + LenAt(c, k))]>>
                            \o FramesFrom(c)[k + 4 + LenAt(c, k)]
  BY <1>5, <1>7, <1>8, FrameFirst
<1>10. SubSeq(c, k + 4, k + 3 + n) = f.payload
  <2> DEFINE p == f.payload
             q == SubSeq(c, k + 4, k + 3 + n)
  <2>1. p \in Seq(Byte) /\ Len(p) = n
    BY DEF Frame, n
  <2>2. /\ k + 4 \in Int /\ k + 3 + n \in Int
        /\ \A i \in k + 4 .. k + 3 + n : i \in 1 .. Len(c)
    BY <1>1, <1>4, <1>5
  <2>3. \A i \in k + 4 .. k + 3 + n : c[i] \in Byte
    BY <2>2, ElementOfSeq
  <2>4. /\ q \in Seq(Byte)
        /\ Len(q) = IF k + 4 <= k + 3 + n THEN (k + 3 + n) - (k + 4) + 1 ELSE 0
        /\ \A i \in 1 .. (k + 3 + n) - (k + 4) + 1 : q[i] = c[(k + 4) + i - 1]
    BY <2>2, <2>3, SubSeqProperties
  <2>5. Len(q) = n
    BY <1>1, <1>5, <2>4
  <2>6. \A i \in 1 .. n : /\ i \in 1 .. (k + 3 + n) - (k + 4) + 1 /\ (k + 4) + i - 1 = m + (4 + i)
                          /\ 4 + i \in 1 .. 4 + n
    BY <1>1, <1>2, <1>5
  <2> HIDE DEF q
  <2>7. \A i \in 1 .. n : q[i] = p[i]
    <3>1. \A i \in 1 .. n : q[i] = c[m + (4 + i)] /\ c[m + (4 + i)] = e[4 + i]
      BY <1>3, <2>4, <2>6
    <3> QED
      BY <1>1, <3>1
  <2> HIDE DEF p
  <2>8. q = p
    BY <2>1, <2>4, <2>5, <2>7, SeqEqual
  <2> QED
    BY <2>8 DEF p, q
<1>11. [marker |-> c[k + 1], payload |-> f.payload] = f
  BY <1>6 DEF Frame
<1>12. FramesFrom(c)[k] = <<f>> \o r
  BY <1>5, <1>8, <1>9, <1>10, <1>11
<1>13. Parsed(c) = d \o FramesFrom(c)[k]
  BY <1>3, <1>5, <1>6 DEF Whole
<1>14. r \in Seq(Frame) /\ <<f>> \in Seq(Frame)
  BY <1>5, FramesAreFrames
<1> HIDE DEF r
<1>15. d \o (<<f>> \o r) = (d \o <<f>>) \o r
  BY <1>14, FramesInARow
<1>16. d \o <<f>> = Append(d, f)
  BY AppendIsConcat
<1> QED
  BY <1>2, <1>12, <1>13, <1>15, <1>16 DEF r, l

-----------------------------------------------------------------------------
(* What is on the line *)

\* x followed by y.  (The proofs below leave \o unexpanded: that it can be
\* regrouped is all they need.)
Joined(x, y) == x \o y

LEMMA JoinedInARow == \A x, y, z \in Seq(Byte) : Joined(Joined(x, y), z) = Joined(x, Joined(y, z))
<1> SUFFICES ASSUME NEW x \in Seq(Byte), NEW y \in Seq(Byte), NEW z \in Seq(Byte)
             PROVE  (x \o y) \o z = x \o (y \o z)
  BY Zenon DEF Joined
<1> QED
  BY ConcatAssociative

\* A part moved from one stretch of the line to the one before it.
LEMMA JoinedMoved ==
    \A x, y, z, s \in Seq(Byte) : Joined(y, z) = s => Joined(Joined(x, y), z) = Joined(x, s)
  BY JoinedInARow

LEMMA JoinedIsBytes == \A x, y \in Seq(Byte) : Joined(x, y) \in Seq(Byte)
<1> SUFFICES ASSUME NEW x \in Seq(Byte), NEW y \in Seq(Byte) PROVE x \o y \in Seq(Byte)
  BY Zenon DEF Joined
<1> QED
  BY ConcatProperties

LEMMA NoBytes == \A x \in Seq(Byte) : Joined(x, <<>>) = x /\ Joined(<<>>, x) = x
<1> SUFFICES ASSUME NEW x \in Seq(Byte) PROVE x \o <<>> = x /\ <<>> \o x = x
  BY Zenon DEF Joined
<1> QED
  BY ConcatEmptySeq

\* A sequence is what is taken from it and what is left.
LEMMA Halves ==
    /\ \A s \in Seq(Byte) : \A n \in 0 .. Len(s) : Joined(SubSeq(s, 1, n), Dropped(s, n)) = s
    /\ \A s \in Seq(Byte) : \A n \in Nat : Joined(Upto(n, s), Dropped(s, n)) = s
<1>1. ASSUME NEW s \in Seq(Byte), NEW n \in 0 .. Len(s)
      PROVE  Joined(SubSeq(s, 1, n), Dropped(s, n)) = s
  <2>1. /\ 1 \in 1 .. Len(s) + 1 /\ n \in 1 - 1 .. Len(s) /\ Len(s) \in n .. Len(s)
    BY LenProperties
  <2>2. SubSeq(s, 1, n) \o SubSeq(s, n + 1, Len(s)) = SubSeq(s, 1, Len(s))
    BY <2>1, ConcatAdjacentSubSeq
  <2> QED
    BY <2>2, SubSeqFull DEF Dropped, Joined
<1>2. ASSUME NEW s \in Seq(Byte), NEW n \in Nat
      PROVE  Joined(Upto(n, s), Dropped(s, n)) = s
  <2>1. Len(s) \in Nat
    BY LenProperties
  <2>2. CASE n < Len(s)
    <3>1. n \in 0 .. Len(s)
      BY <2>1, <2>2
    <3>2. Upto(n, s) = SubSeq(s, 1, n)
      BY <2>2, Zenon DEF Upto
    <3> QED
      BY <1>1, <3>1, <3>2
  <2>3. CASE ~ (n < Len(s))
    <3>1. Upto(n, s) = s
      <4>1. Upto(n, s) = SubSeq(s, 1, Len(s))
        BY <2>3, Zenon DEF Upto
      <4> QED
        BY <4>1, SubSeqFull
    <3>2. Dropped(s, n) = <<>>
      <4>1. n + 1 \in Int /\ Len(s) \in Int /\ Len(s) < n + 1
        BY <2>1, <2>3
      <4> QED
        BY <4>1, SubSeqEmpty DEF Dropped
    <3> QED
      BY <3>1, <3>2, NoBytes
  <2> QED
    BY <2>2, <2>3
<1> QED
  BY <1>1, <1>2

\* A sequence extends each of its beginnings.
LEMMA ExtendsSelf == \A x, y \in Seq(Byte) : Extends(Joined(x, y), x)
<1> SUFFICES ASSUME NEW x \in Seq(Byte), NEW y \in Seq(Byte) PROVE Extends(x \o y, x)
  BY Zenon DEF Joined
<1>1. /\ x \o y \in Seq(Byte) /\ Len(x) \in Nat /\ Len(y) \in Nat
      /\ Len(x \o y) = Len(x) + Len(y)
      /\ \A i \in 1 .. Len(x) + Len(y) : (x \o y)[i] = IF i <= Len(x) THEN x[i] ELSE y[i - Len(x)]
  BY ConcatProperties, LenProperties
<1>2. \A l, m \in Nat : l <= l + m /\ \A i \in 1 .. l : i \in 1 .. l + m /\ i <= l
  OBVIOUS
<1> QED
  BY <1>1, <1>2 DEF Extends

LEMMA ExtendsAll ==
    \A x, y, z \in Seq(Byte) : Extends(x, Joined(y, z)) => Extends(x, y)
<1> SUFFICES ASSUME NEW x \in Seq(Byte), NEW y \in Seq(Byte), NEW z \in Seq(Byte),
                    Extends(x, y \o z)
             PROVE  Extends(x, y)
  BY Zenon DEF Joined
<1> QED
  BY ExtendsFirst

LEMMA ExtendsMore ==
    \A x, y, z \in Seq(Byte) : Extends(x, y) => Extends(Joined(x, z), y)
<1> SUFFICES ASSUME NEW x \in Seq(Byte), NEW y \in Seq(Byte), NEW z \in Seq(Byte), Extends(x, y)
             PROVE  Extends(Joined(x, z), y)
  OBVIOUS
<1>1. /\ Len(x) \in Nat /\ Len(y) \in Nat /\ Len(Joined(x, z)) \in Nat
      /\ Extends(Joined(x, z), x) /\ Joined(x, z) \in Seq(Byte)
  BY ExtendsSelf, JoinedIsBytes, LenProperties
<1>2. Len(y) <= Len(x) /\ \A i \in 1 .. Len(y) : x[i] = y[i]
  BY DEF Extends
<1>3. Len(x) <= Len(Joined(x, z)) /\ \A i \in 1 .. Len(x) : Joined(x, z)[i] = x[i]
  BY <1>1, Zenon DEF Extends
<1>4. \A l, m, n \in Nat : l <= m /\ m <= n => l <= n /\ \A i \in 1 .. l : i \in 1 .. m
  OBVIOUS
<1>5. Len(y) <= Len(Joined(x, z)) /\ \A i \in 1 .. Len(y) : i \in 1 .. Len(x)
  BY <1>1, <1>2, <1>3, <1>4
<1> QED
  BY <1>2, <1>3, <1>5 DEF Extends

\* The bytes that have been written and are not lost.
Line == Joined(Joined(got, pending), wire)

\* While no send failed, what has been written and what thread w still has of its
\* frame are the frames it has begun; after a break some of it is missing at
\* the end.
Sending(w, B) ==
    /\ Whole(B, sent) /\ Extends(B, Line)
    /\ conn # "reset" => B = Joined(Line, rest[w])

Orderly(w) == failed = 0 => \E B \in Seq(Byte) : Sending(w, B)

\* The sender closes when it has written all, read_loop ends when it has read
\* all, and only the TLS library holds bytes back.
Closing(w) ==
    /\ conn = "eof" => todo[w] = <<>> /\ rest[w] = <<>>
    /\ pc = "ended" => conn # "open" /\ wire = <<>> /\ pending = <<>>
    /\ ~ tls => pending = <<>>

SInv(w) == Orderly(w) /\ Closing(w)

LEMMA LineIs ==
    ASSUME TypeOK
    PROVE  /\ Joined(got, pending) \in Seq(Byte) /\ Line \in Seq(Byte)
           /\ wire \in Seq(Byte) /\ pending \in Seq(Byte) /\ got \in Seq(Byte)
           /\ \A w \in Writer : rest[w] \in Seq(Byte) /\ todo[w] \in Seq(Frame)
           /\ sent \in Seq(Frame) /\ failed \in Nat
<1>1. /\ wire \in Seq(Byte) /\ pending \in Seq(Byte) /\ got \in Seq(Byte)
      /\ rest \in [Writer -> Seq(Byte)] /\ todo \in [Writer -> Seq(Frame)]
      /\ sent \in Seq(Frame) /\ failed \in Nat
  BY TypesAre
<1>2. Joined(got, pending) \in Seq(Byte)
  BY <1>1, JoinedIsBytes
<1>3. Line \in Seq(Byte)
  BY <1>1, <1>2, JoinedIsBytes DEF Line
<1> QED
  BY <1>1, <1>2, <1>3

\* The network and the reader leave the senders alone.
LEMMA SameLine ==
    ASSUME NEW w \in Writer, Orderly(w), UNCHANGED <<rest, sent, failed>>, Line' = Line,
           conn' # "reset" => conn # "reset"
    PROVE  Orderly(w)'
  BY DEF Orderly, Sending

\* A call puts a frame on what is to be written, or nothing.
LEMMA StartSendSends ==
    ASSUME TypeOK, NEW w \in Writer, Orderly(w), StartSend(w)
    PROVE  Orderly(w)'
<1> DEFINE f == Head(todo[w])
           e == Encoded(f)
<1>1. /\ rest[w] = <<>> /\ todo[w] # <<>> /\ rest' = [rest EXCEPT ![w] = e]
      /\ sent' = (IF Fits(f) THEN Append(sent, f) ELSE sent)
      /\ UNCHANGED <<failed, conn, wire, pending, got>>
  BY DEF StartSend
<1>2. /\ todo[w] \in Seq(Frame) /\ Line \in Seq(Byte) /\ sent \in Seq(Frame)
      /\ rest \in [Writer -> Seq(Byte)]
  BY LineIs, TypesAre
<1>3. f \in Frame
  BY <1>1, <1>2, HeadTailProperties
<1> HIDE DEF f
<1>4. e \in Seq(Byte) /\ Fits(f) = (Len(f.payload) <= MaxPayload)
  BY <1>3, EncodedBytes DEF Fits
<1>5. ~ Fits(f) => e = <<>>
  BY DEF Encoded
<1>6. rest'[w] = e /\ Line' = Line
  BY <1>1, <1>2 DEF Line
<1> HIDE DEF e
<1>7. ASSUME failed' = 0, NEW B \in Seq(Byte), Sending(w, B)
      PROVE  \E C \in Seq(Byte) : Sending(w, C)'
  <2>1. Whole(B, sent) /\ Extends(B, Line) /\ (conn # "reset" => B = Line)
    BY <1>1, <1>2, <1>7, NoBytes DEF Sending
  <2>2. B \in Seq(Byte) /\ Joined(B, e) \in Seq(Byte)
    BY <1>4, <1>7, JoinedIsBytes
  <2>3. Whole(Joined(B, e), sent')
    <3>1. CASE Fits(f)
      <4>1. Whole(B \o Encoded(f), Append(sent, f))
        BY <1>2, <1>3, <2>1, <2>2, <3>1, WholeMore
      <4> QED
        BY <1>1, <3>1, <4>1 DEF e, Joined
    <3>2. CASE ~ Fits(f)
      <4>1. Joined(B, e) = B /\ sent' = sent
        BY <1>1, <1>5, <2>2, <3>2, NoBytes
      <4> QED
        BY <2>1, <4>1
    <3> QED
      BY <3>1, <3>2
  <2>4. Extends(Joined(B, e), Line')
    BY <1>2, <1>4, <1>6, <2>1, <2>2, ExtendsMore
  <2>5. conn' # "reset" => Joined(B, e) = Joined(Line', rest'[w])
    BY <1>1, <1>6, <2>1
  <2> QED
    BY <2>2, <2>3, <2>4, <2>5 DEF Sending
<1> QED
  BY <1>1, <1>7 DEF Orderly

\* A write moves bytes from the frame to the line; a send that fails is out of it.
LEMMA WriteSends ==
    ASSUME TypeOK, NEW w \in Writer, Orderly(w), Write(w)
    PROVE  Orderly(w)'
<1>1. /\ rest \in [Writer -> Seq(Byte)] /\ wire \in Seq(Byte) /\ Joined(got, pending) \in Seq(Byte)
      /\ Line \in Seq(Byte) /\ failed \in Nat /\ rest[w] \in Seq(Byte)
  BY LineIs, TypesAre
<1>2. UNCHANGED <<sent, conn, pending, got>>
  BY DEF Write
<1>3. ASSUME GiveUp(w) PROVE Orderly(w)'
  <2>1. failed' = failed + 1
    BY <1>3 DEF GiveUp
  <2>2. failed' # 0
    BY <1>1, <2>1
  <2> QED
    BY <2>2 DEF Orderly
<1>4. ASSUME UNCHANGED <<rest, failed, wire>> PROVE Orderly(w)'
  BY <1>2, <1>4, SameLine DEF Line
<1>5. ASSUME NEW n \in 1 .. Len(rest[w]), wire' = wire \o SubSeq(rest[w], 1, n),
             rest' = [rest EXCEPT ![w] = Dropped(rest[w], n)], UNCHANGED failed, conn = "open"
      PROVE  Orderly(w)'
  <2> DEFINE a == SubSeq(rest[w], 1, n)
             z == Dropped(rest[w], n)
  <2>1. n \in 0 .. Len(rest[w])
    BY <1>1, LenProperties
  <2>2. a \in Seq(Byte) /\ z \in Seq(Byte) /\ Joined(a, z) = rest[w]
    BY <1>1, <2>1, SubSeqBytes, Halves
  <2>3. wire' = Joined(wire, a) /\ rest'[w] = z
    BY <1>1, <1>5 DEF Joined
  <2> HIDE DEF a, z
  <2>4. Line' = Joined(Line, a)
    <3>1. Line' = Joined(Joined(got, pending), Joined(wire, a))
      BY <1>2, <2>3 DEF Line
    <3> QED
      BY <1>1, <2>2, <3>1, JoinedInARow DEF Line
  <2>5. Joined(Line', z) = Joined(Line, rest[w]) /\ Line' \in Seq(Byte)
    BY <1>1, <2>2, <2>4, JoinedMoved, JoinedIsBytes
  <2>6. ASSUME NEW B \in Seq(Byte), Sending(w, B) PROVE Sending(w, B)'
    <3>1. Whole(B, sent) /\ B = Joined(Line, rest[w])
      BY <1>5, <2>6 DEF Sending
    <3>2. B = Joined(Line', rest'[w])
      BY <2>3, <2>5, <3>1
    <3>3. Extends(B, Line')
      <4>1. Extends(Joined(Line', z), Line')
        BY <2>2, <2>5, ExtendsSelf
      <4> QED
        BY <2>3, <3>2, <4>1
    <3> QED
      BY <1>2, <3>1, <3>2, <3>3 DEF Sending
  <2> QED
    BY <1>5, <2>6 DEF Orderly
<1> QED
  BY <1>3, <1>4, <1>5 DEF Write

\* Reading moves bytes along the line.
LEMMA ReadPlainSends ==
    ASSUME TypeOK, NEW w \in Writer, SInv(w), ReadPlain
    PROVE  Orderly(w)'
<1>1. wire \in Seq(Byte) /\ got \in Seq(Byte) /\ ReadMax \in Nat /\ pending = <<>>
  BY LineIs, LinkAssumption DEF SInv, Closing, ReadPlain
<1>2. PICK n \in 1 .. ReadMax : /\ n <= Len(wire) /\ Take(SubSeq(wire, 1, n))
                                /\ wire' = Dropped(wire, n)
  BY DEF ReadPlain
<1> DEFINE a == SubSeq(wire, 1, n)
           z == Dropped(wire, n)
<1>3. n \in 0 .. Len(wire)
  BY <1>1, <1>2, LenProperties
<1>4. a \in Seq(Byte) /\ z \in Seq(Byte) /\ Joined(a, z) = wire
  BY <1>1, <1>3, SubSeqBytes, Halves
<1>5. /\ got' = Joined(got, a) /\ wire' = z /\ pending' = <<>>
      /\ UNCHANGED <<rest, sent, failed, conn>>
  BY <1>1, <1>2 DEF Take, ReadPlain, Joined
<1> HIDE DEF a, z
<1>6. Line' = Line
  <2>1. Joined(got, pending) = got /\ Joined(Joined(got, a), pending') = Joined(got, a)
    BY <1>1, <1>4, <1>5, NoBytes, JoinedIsBytes
  <2>2. Joined(Joined(got, a), z) = Joined(got, wire)
    BY <1>1, <1>4, JoinedMoved
  <2> QED
    BY <1>5, <2>1, <2>2 DEF Line
<1> QED
  BY <1>5, <1>6, SameLine DEF SInv

LEMMA ReadTlsSends ==
    ASSUME TypeOK, NEW w \in Writer, SInv(w), ReadTls
    PROVE  Orderly(w)'
<1>1. wire \in Seq(Byte) /\ got \in Seq(Byte) /\ pending \in Seq(Byte) /\ ReadMax \in Nat
  BY LineIs, LinkAssumption
<1>2. ASSUME Take(Upto(ReadMax, pending)), pending' = Dropped(pending, ReadMax), UNCHANGED wire
      PROVE  Orderly(w)'
  <2> DEFINE a == Upto(ReadMax, pending)
             z == Dropped(pending, ReadMax)
  <2>1. a \in Seq(Byte) /\ z \in Seq(Byte) /\ Joined(a, z) = pending
    BY <1>1, DroppedIsBytes, Halves
  <2>2. got' = Joined(got, a) /\ pending' = z /\ UNCHANGED <<rest, sent, failed, conn>>
    BY <1>2 DEF Take, Joined
  <2> HIDE DEF a, z
  <2>3. Joined(Joined(got, a), z) = Joined(got, pending)
    BY <1>1, <2>1, JoinedMoved
  <2>4. Line' = Line
    BY <1>2, <2>2, <2>3 DEF Line
  <2> QED
    BY <2>2, <2>4, SameLine DEF SInv
<1>3. ASSUME NEW n \in 1 .. Len(wire), Take(Upto(ReadMax, SubSeq(wire, 1, n))), pending = <<>>,
             pending' = Dropped(SubSeq(wire, 1, n), ReadMax), wire' = Dropped(wire, n)
      PROVE  Orderly(w)'
  <2> DEFINE r == SubSeq(wire, 1, n)
             y == Dropped(wire, n)
  <2>1. n \in 0 .. Len(wire)
    BY <1>1, LenProperties
  <2>2. r \in Seq(Byte) /\ y \in Seq(Byte) /\ Joined(r, y) = wire
    BY <1>1, <2>1, SubSeqBytes, Halves
  <2> HIDE DEF r
  <2> DEFINE a == Upto(ReadMax, r)
             z == Dropped(r, ReadMax)
  <2>3. a \in Seq(Byte) /\ z \in Seq(Byte) /\ Joined(a, z) = r
    BY <1>1, <2>2, DroppedIsBytes, Halves
  <2>4. /\ got' = Joined(got, a) /\ pending' = z /\ wire' = y
        /\ UNCHANGED <<rest, sent, failed, conn>>
    BY <1>3 DEF Take, r, Joined
  <2> HIDE DEF a, z, y
  <2>5. /\ Joined(Joined(got, a), z) = Joined(got, r)
        /\ Joined(Joined(got, r), y) = Joined(got, wire)
        /\ Joined(got, pending) = got
    <3>1. Joined(Joined(got, a), z) = Joined(got, r)
      BY <1>1, <2>2, <2>3, JoinedMoved
    <3>2. Joined(Joined(got, r), y) = Joined(got, wire)
      BY <1>1, <2>2, JoinedMoved
    <3>3. Joined(got, pending) = got
      BY <1>1, <1>3, NoBytes
    <3> QED
      BY <3>1, <3>2, <3>3
  <2>6. Line' = Line
    BY <2>4, <2>5 DEF Line
  <2> QED
    BY <2>4, <2>6, SameLine DEF SInv
<1> QED
  BY <1>2, <1>3 DEF ReadTls

\* What a break takes is the end of the line.
LEMMA ResetSends ==
    ASSUME TypeOK, NEW w \in Writer, Orderly(w), Reset
    PROVE  Orderly(w)'
<1>1. wire \in Seq(Byte) /\ Joined(got, pending) \in Seq(Byte)
  BY LineIs
<1>2. conn' = "reset" /\ wire' = <<>> /\ UNCHANGED <<rest, sent, failed, pending, got>>
  BY DEF Reset
<1>3. Line' = Joined(got, pending)
  BY <1>1, <1>2, NoBytes DEF Line
<1>4. ASSUME NEW B \in Seq(Byte), Sending(w, B) PROVE Sending(w, B)'
  <2>1. Whole(B, sent) /\ Extends(B, Joined(Joined(got, pending), wire))
    BY <1>4 DEF Sending, Line
  <2>2. Extends(B, Line')
    BY <1>1, <1>3, <2>1, ExtendsAll
  <2> QED
    BY <1>2, <2>1, <2>2 DEF Sending
<1> QED
  BY <1>2, <1>4 DEF Orderly

LEMMA InitSends ==
    ASSUME NEW w, Writer = {w}, QuietNoise, Init
    PROVE  SInv(w)
<1>1. /\ Noise \in Seq(Byte) /\ <<>> \in Seq(Byte)
  BY LinkAssumption, EmptySeq
<1>2. /\ conn = "open" /\ wire = Noise /\ pending = <<>> /\ got = <<>> /\ sent = <<>>
      /\ rest[w] = <<>> /\ pc = "poll"
  BY DEF Init
<1>3. Line = Noise /\ Joined(Line, rest[w]) = Noise
  BY <1>1, <1>2, NoBytes DEF Line
<1>4. Extends(Noise, Noise)
  BY <1>1, LenProperties DEF Extends
<1>5. Whole(Noise, sent)
  BY <1>2, NoiseIsWhole
<1>6. Sending(w, Noise)
  BY <1>3, <1>4, <1>5 DEF Sending
<1> QED
  BY <1>1, <1>2, <1>6 DEF SInv, Orderly, Closing

LEMMA StepOrderly ==
    ASSUME NEW w, Writer = {w}, TypeOK, SInv(w), [Next]_vars
    PROVE  Orderly(w)'
<1>1. w \in Writer /\ Orderly(w)
  BY DEF SInv
<1>2. ASSUME NEW v \in Writer, StartSend(v) PROVE Orderly(w)'
  <2>1. v = w
    OBVIOUS
  <2> QED
    BY <1>1, <1>2, <2>1, StartSendSends
<1>3. ASSUME NEW v \in Writer, Write(v) PROVE Orderly(w)'
  <2>1. v = w
    OBVIOUS
  <2> QED
    BY <1>1, <1>3, <2>1, WriteSends
<1>4. CASE ReadPlain
  BY <1>1, <1>4, ReadPlainSends
<1>5. CASE ReadTls
  BY <1>1, <1>5, ReadTlsSends
<1>6. CASE ReadEnd
  BY <1>1, <1>6, SameLine DEF ReadEnd, Line
<1>7. CASE Parse
  BY <1>1, <1>7, SameLine DEF Parse, Line
<1>8. CASE Close
  <2>1. conn = "open" /\ UNCHANGED <<rest, sent, failed, wire, pending, got>>
    BY <1>8 DEF Close
  <2> QED
    BY <1>1, <2>1, SameLine DEF Line
<1>9. CASE Reset
  BY <1>1, <1>9, ResetSends
<1>10. CASE UNCHANGED vars
  BY <1>1, <1>10, SameLine DEF vars, Line
<1> QED
  BY <1>2, <1>3, <1>4, <1>5, <1>6, <1>7, <1>8, <1>9, <1>10 DEF Next, Reader

LEMMA StepClosing ==
    ASSUME NEW w, Writer = {w}, TypeOK, Closing(w), [Next]_vars
    PROVE  Closing(w)'
<1>1. ASSUME NEW v \in Writer, StartSend(v) PROVE Closing(w)'
  <2>1. v = w /\ todo[w] # <<>> /\ UNCHANGED <<tls, conn, pc, wire, pending>>
    BY <1>1 DEF StartSend
  <2> QED
    BY <2>1 DEF Closing
<1>2. ASSUME NEW v \in Writer, Write(v) PROVE Closing(w)'
  <2>1. v = w /\ rest[w] # <<>> /\ UNCHANGED <<tls, todo, conn, pc, pending>>
    BY <1>2 DEF Write
  <2>2. conn # "open" => UNCHANGED wire
    BY <1>2 DEF Write, GiveUp
  <2> QED
    BY <2>1, <2>2 DEF Closing
<1>3. CASE ReadPlain
  <2>1. pc' = "parse" /\ ~ tls /\ UNCHANGED <<tls, todo, rest, conn, pending>>
    BY <1>3 DEF ReadPlain, Take
  <2> QED
    BY <2>1 DEF Closing
<1>4. CASE ReadTls
  <2>1. pc' = "parse" /\ tls /\ UNCHANGED <<tls, todo, rest, conn>>
    BY <1>4 DEF ReadTls, Take
  <2> QED
    BY <2>1 DEF Closing
<1>5. CASE ReadEnd
  BY <1>5 DEF ReadEnd, Closing
<1>6. CASE Parse
  <2>1. pc' \in {"poll", "parse"} /\ UNCHANGED <<tls, todo, rest, conn, pending>>
    BY <1>6 DEF Parse
  <2> QED
    BY <2>1 DEF Closing
<1>7. CASE Close
  <2>1. /\ AllWritten /\ w \in Writer /\ conn = "open" /\ conn' = "eof"
        /\ UNCHANGED <<tls, todo, rest, wire, pending, pc>>
    BY <1>7 DEF Close
  <2> QED
    BY <2>1 DEF Closing, AllWritten
<1>8. CASE Reset
  <2>1. /\ conn = "open" /\ conn' = "reset" /\ wire' = <<>>
        /\ UNCHANGED <<tls, todo, rest, pending, pc>>
    BY <1>8 DEF Reset
  <2> QED
    BY <2>1 DEF Closing
<1>9. CASE UNCHANGED vars
  BY <1>9 DEF vars, Closing
<1> QED
  BY <1>1, <1>2, <1>3, <1>4, <1>5, <1>6, <1>7, <1>8, <1>9 DEF Next, Reader

\* With one thread that sends, and quiet noise, what it has begun is what is on
\* the line.
LEMMA OneSender ==
    ASSUME NEW w, Writer = {w}, QuietNoise
    PROVE  Spec => []SInv(w)
<1>1. Init => SInv(w)
  BY InitSends
<1>2. TypeOK /\ SInv(w) /\ [Next]_vars => SInv(w)'
  <2> SUFFICES ASSUME TypeOK, SInv(w), [Next]_vars PROVE SInv(w)'
    OBVIOUS
  <2>1. Orderly(w)'
    BY StepOrderly
  <2>2. Closing(w)'
    BY StepClosing DEF SInv
  <2> QED
    BY <2>1, <2>2 DEF SInv
<1>3. Spec => []TypeOK
  BY Invariance, PTL DEF IInv
<1> QED
  BY <1>1, <1>2, <1>3, PTL DEF Spec

\* The frames of the bytes sent are the frames handed on and those that the
\* parser has not completed.
LEMMA FramesSent ==
    ASSUME NEW w, IInv, Orderly(w), failed = 0
    PROVE  /\ \E r \in Seq(Frame) : sent = delivered \o r
           /\ conn # "reset" /\ rest[w] = <<>> /\ wire = <<>> /\ pending = <<>>
                => sent = Parsed(got)
<1>1. PICK B \in Seq(Byte) : Sending(w, B)
  BY DEF Orderly
<1>2. /\ got \in Seq(Byte) /\ pending \in Seq(Byte) /\ wire \in Seq(Byte)
      /\ Joined(got, pending) \in Seq(Byte) /\ sent \in Seq(Frame) /\ parser \in Parser
      /\ Line \in Seq(Byte)
  BY LineIs, TypesAre DEF IInv
<1> DEFINE f == Front(parser, Len(got))
           r == FramesFrom(B)[f]
           m == Len(B)
<1>3. m \in Nat /\ m <= m /\ ~ (m > m) /\ m + 1 \in 1 .. m + 1 /\ m + 1 > m
  <2>1. m \in Nat
    BY LenProperties
  <2> HIDE DEF m
  <2> QED
    BY <2>1
<1>4. Parsed(B) = sent
  <2>1. Extends(B, B) /\ ~ (Len(B) > Len(B))
    BY <1>3 DEF Extends
  <2>2. Parsed(B) = sent \o FramesFrom(B)[m + 1]
    BY <1>1, <2>1 DEF Sending, Whole
  <2>3. FramesFrom(B)[m + 1] = <<>>
    <3>1. (m + 1) + 3 > m
      <4> HIDE DEF m
      <4> QED
        BY <1>3
    <3> QED
      BY <1>3, <3>1, TooShort
  <2> QED
    BY <1>2, <2>2, <2>3, ConcatEmptySeq
<1>5. Extends(B, got)
  <2>1. Extends(B, Joined(Joined(got, pending), wire))
    BY <1>1 DEF Sending, Line
  <2> QED
    BY <1>2, <2>1, ExtendsAll
<1>6. Reads(parser, B, Len(got)) /\ Parsed(B) = delivered \o r
  BY <1>5 DEF IInv, Understood, Understands
<1>7. f \in 1 .. Len(B) + 1
  <2>1. Len(got) \in 0 .. Len(B)
    BY <1>2, <1>5, LenProperties DEF Extends
  <2>2. /\ Started(parser) \in Running /\ Reads(Started(parser), B, Len(got))
        /\ Front(Started(parser), Len(got)) = f
    BY <1>2, <1>6, <2>1, StartedReads
  <2> QED
    BY <2>1, <2>2, FrontIsAPlace
<1>8. r \in Seq(Frame)
  BY <1>7, FramesAreFrames
<1>9. ASSUME conn # "reset", rest[w] = <<>>, wire = <<>>, pending = <<>>
      PROVE  sent = Parsed(got)
  <2>1. B = Joined(Line, <<>>)
    BY <1>1, <1>9 DEF Sending
  <2>2. Line = got
    BY <1>2, <1>9, NoBytes DEF Line
  <2>3. B = got
    BY <1>2, <2>1, <2>2, NoBytes
  <2> QED
    BY <1>4, <2>3
<1> HIDE DEF r
<1> QED
  BY <1>4, <1>6, <1>8, <1>9

\* One thread that sends, over a line whose log output looks like no header:
\* unless a send fails, the frames that arrive are the frames it sent, in their
\* order, whatever is cut, read late or lost at the end.
THEOREM FramesArriveInOrder ==
    ASSUME NEW w, Writer = {w}, QuietNoise
    PROVE  Spec => []SentInOrder
<1>1. IInv /\ SInv(w) => SentInOrder
  <2> SUFFICES ASSUME IInv, Orderly(w), failed = 0 PROVE IsPrefixOf(delivered, sent)
    BY DEF SInv, SentInOrder
  <2>1. PICK r \in Seq(Frame) : sent = delivered \o r
    BY FramesSent
  <2>2. delivered \in Seq(Frame)
    BY TypesAre DEF IInv
  <2> QED
    BY <2>1, <2>2, Beginning
<1>2. Spec => []SInv(w)
  BY OneSender
<1> QED
  BY <1>1, <1>2, Invariance, PTL

\* Then a close by the other end loses nothing: when read_loop has ended all that
\* was sent is handed on, but for a last frame with fewer than four bytes left.
THEOREM ClosingLosesNothing ==
    ASSUME NEW w, Writer = {w}, QuietNoise
    PROVE  Spec => []NothingLostAtClose
<1>1. IInv /\ SInv(w) => NothingLostAtClose
  <2> SUFFICES ASSUME IInv, SInv(w), pc = "ended", conn = "eof", failed = 0
               PROVE  Owed = 0 \/ (Owed = 1 /\ Len(parser.buf) < 4)
    BY DEF NothingLostAtClose
  <2>1. rest[w] = <<>> /\ wire = <<>> /\ pending = <<>>
    BY DEF SInv, Closing
  <2>2. sent = Parsed(got)
    BY <2>1, FramesSent DEF SInv
  <2>3. \/ Len(delivered) = Len(sent)
        \/ Len(delivered) + 1 = Len(sent) /\ Len(parser.buf) < 4
    BY <2>2, HandedOn
  <2>4. Len(delivered) \in Nat /\ Len(sent) \in Nat
    BY TypesAre, LenProperties DEF IInv
  <2>5. \A x, y \in Nat : (x = y => y - x = 0) /\ (x + 1 = y => y - x = 1)
    OBVIOUS
  <2>6. /\ Len(delivered) = Len(sent) => Owed = 0
        /\ Len(delivered) + 1 = Len(sent) => Owed = 1
    BY <2>4, <2>5 DEF Owed
  <2> QED
    BY <2>3, <2>6, Zenon
<1>2. Spec => []SInv(w)
  BY OneSender
<1> QED
  BY <1>1, <1>2, Invariance, PTL
=============================================================================
