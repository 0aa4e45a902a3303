----------------------------- MODULE DeskProofs -----------------------------
(***************************************************************************)
(* Theorems of Desk, for all devices, channels, peers, messages and stored *)
(* rows, and all bounds: the windows of the terminal UI.                   *)
(***************************************************************************)
EXTENDS Desk, SequenceTheorems, FiniteSetTheorems, WellFoundedInduction, TLAPS

Ids == Devices \cup {NoDevice, AllDevices}
Titles == Talks \cup {<<"status", Primary>>, <<"nodelist", Primary>>}
Texts == Messages \cup {Ack}
Windows == [device : Ids, talk : Titles, named : BOOLEAN, lines : Seq(Texts), unread : BOOLEAN]

-----------------------------------------------------------------------------
(* Induction, and ranges of sequences *)

LEMMA AllNumbers ==
    ASSUME NEW S \in SUBSET Nat,
           \A n \in Nat : (\A m \in Nat : m < n => m \in S) => n \in S
    PROVE  S = Nat
<1> DEFINE R == OpToRel(<, Nat)
           T == Nat \ S
<1>1. IsWellFoundedOn(R, Nat)
  BY NatLessThanWellFounded
<1>2. \A x, y \in Nat : y < x => <<y, x>> \in R
  BY DEF OpToRel
<1> HIDE DEF R
<1>3. T # {} => \E x \in T : \A y \in T : ~ (<<y, x>> \in R)
  BY <1>1, WFMin
<1>4. ASSUME NEW x \in T, \A y \in T : ~ (<<y, x>> \in R) PROVE FALSE
  <2>1. \A m \in Nat : m < x => m \in S
    BY <1>2, <1>4
  <2> QED
    BY <2>1
<1> QED
  BY <1>3, <1>4

LEMMA RangeIs ==
    ASSUME NEW S, NEW s \in Seq(S)
    PROVE  /\ Range(s) \subseteq S
           /\ \A x : x \in Range(s) <=> \E i \in 1 .. Len(s) : s[i] = x
<1>1. DOMAIN s = 1 .. Len(s) /\ \A i \in 1 .. Len(s) : s[i] \in S
  BY LenProperties, ElementOfSeq
<1> QED
  BY <1>1 DEF Range

LEMMA AppendedIs ==
    ASSUME NEW S, NEW s \in Seq(S), NEW x \in S
    PROVE  /\ Append(s, x) \in Seq(S) /\ Len(Append(s, x)) = Len(s) + 1
           /\ \A i \in 1 .. Len(s) : Append(s, x)[i] = s[i]
           /\ Append(s, x)[Len(s) + 1] = x
           /\ \A y : y \in Range(Append(s, x)) <=> y \in Range(s) \/ y = x
<1>1. /\ Append(s, x) \in Seq(S) /\ Len(Append(s, x)) = Len(s) + 1
      /\ \A i \in 1 .. Len(s) : Append(s, x)[i] = s[i]
      /\ Append(s, x)[Len(s) + 1] = x
  BY AppendProperties
<1>2. Len(s) \in Nat
  BY LenProperties
<1> DEFINE t == Append(s, x)
<1>3. \A y : y \in Range(t) <=> \E i \in 1 .. Len(t) : t[i] = y
  BY <1>1, RangeIs
<1>4. \A y : y \in Range(s) <=> \E i \in 1 .. Len(s) : s[i] = y
  BY RangeIs
<1> HIDE DEF t
<1>5. 1 .. Len(t) = 1 .. Len(s) \cup {Len(s) + 1}
  BY <1>1, <1>2 DEF t
<1>6. \A y : (\E i \in 1 .. Len(t) : t[i] = y) <=> (\E i \in 1 .. Len(s) : s[i] = y) \/ y = x
  BY <1>1, <1>5 DEF t
<1> QED
  BY <1>1, <1>3, <1>4, <1>6 DEF t

-----------------------------------------------------------------------------
(* Lines *)

LEMMA ExtendedIs ==
    ASSUME NEW S, NEW s \in Seq(S), NEW x \in S
    PROVE  /\ Extended(s, x) \in Seq(S)
           /\ \A y : y \in Range(Extended(s, x)) <=> y \in Range(s) \/ y = x
           /\ Extended(s, x) # <<>>
<1>1. CASE s # <<>> /\ Last(s) = x
  <2>1. Len(s) \in 1 .. Len(s) /\ s[Len(s)] = x
    BY <1>1, EmptySeq, LenProperties DEF Last
  <2>2. x \in Range(s)
    BY <2>1, RangeIs
  <2>3. Extended(s, x) = s \/ Extended(s, x) = Append(s, x)
    BY DEF Extended
  <2>4. Append(s, x) # <<>>
    BY AppendProperties
  <2>5. CASE Extended(s, x) = s
    BY <1>1, <2>2, <2>5
  <2>6. CASE Extended(s, x) = Append(s, x)
    BY <2>4, <2>6, AppendedIs
  <2> QED
    BY <2>3, <2>5, <2>6
<1>2. CASE ~ (s # <<>> /\ Last(s) = x)
  <2>1. Extended(s, x) = Append(s, x)
    BY <1>2 DEF Extended
  <2>2. Append(s, x) # <<>>
    BY AppendProperties
  <2> QED
    BY <2>1, <2>2, AppendedIs
<1> QED
  BY <1>1, <1>2

\* What the lines are after n rows, if f says what they are before.
LinesAt(rs, device, talk, f, n) ==
    IF n = 0 THEN <<>>
    ELSE IF rs[n].talk = talk /\ device \in {NoDevice, rs[n].device}
         THEN Extended(f[n - 1], rs[n].msg) ELSE f[n - 1]

LinesUpTo(rs, device, talk) ==
    CHOOSE f : f = [n \in 0 .. Len(rs) |-> LinesAt(rs, device, talk, f, n)]

LEMMA LinesOfLast == ASSUME NEW rs, NEW device, NEW talk
                     PROVE  LinesOf(rs, device, talk) = LinesUpTo(rs, device, talk)[Len(rs)]
  BY DEF LinesOf, LinesUpTo, LinesAt

\* There is a function that does this at every place, by induction.
LEMMA LinesExist ==
    ASSUME NEW rs \in Seq(Rows), NEW device, NEW talk
    PROVE  \E f : f = [n \in 0 .. Len(rs) |-> LinesAt(rs, device, talk, f, n)]
<1> DEFINE At(f, n) == LinesAt(rs, device, talk, f, n)
           S == {m \in Nat : \E f : f = [n \in 0 .. m |-> f[n]] /\ \A n \in 0 .. m : f[n] = At(f, n)}
<1>1. ASSUME NEW f, NEW g, NEW n \in Nat, n # 0 => f[n - 1] = g[n - 1]
      PROVE  At(f, n) = At(g, n)
  BY <1>1 DEF LinesAt
<1> HIDE DEF At
<1>2. ASSUME NEW m \in Nat, \A k \in Nat : k < m => k \in S
      PROVE  \E f : f = [n \in 0 .. m |-> f[n]] /\ \A n \in 0 .. m : f[n] = At(f, n)
  <2>1. PICK f : \A n \in 0 .. m - 1 : f[n] = At(f, n)
    <3>1. CASE m = 0
      BY <3>1
    <3>2. CASE m > 0
      <4>1. m - 1 \in Nat /\ m - 1 < m
        BY <1>2, <3>2
      <4> QED
        BY <1>2, <4>1
    <3> QED
      BY <3>1, <3>2
  <2> DEFINE g == [n \in 0 .. m |-> IF n = m THEN At(f, m) ELSE f[n]]
  <2>2. g = [n \in 0 .. m |-> g[n]]
    OBVIOUS
  <2>3. \A n \in 0 .. m : n = m \/ n \in 0 .. m - 1
    OBVIOUS
  <2>4. \A n \in 0 .. m : n \in Nat /\ (n # 0 => n - 1 \in 0 .. m /\ n - 1 # m)
    OBVIOUS
  <2>5. \A n \in 0 .. m : n # 0 => f[n - 1] = g[n - 1]
    BY <2>4
  <2>6. \A n \in 0 .. m : g[n] = At(f, n)
    BY <2>1, <2>3
  <2> HIDE DEF g
  <2>7. \A n \in 0 .. m : At(f, n) = At(g, n)
    BY <1>1, <2>4, <2>5
  <2> QED
    BY <2>2, <2>6, <2>7
<1>3. \A m \in Nat : (\A k \in Nat : k < m => k \in S) => m \in S
  BY <1>2
<1>4. S \in SUBSET Nat /\ Len(rs) \in Nat
  BY LenProperties
<1> HIDE DEF S
<1>5. Len(rs) \in S
  BY <1>3, <1>4, AllNumbers
<1>6. PICK f : f = [n \in 0 .. Len(rs) |-> f[n]] /\ \A n \in 0 .. Len(rs) : f[n] = At(f, n)
  BY <1>5 DEF S
<1> QED
  BY <1>6 DEF At

\* Row i belongs to a talk, as a device hears it or any does.
Belongs(rs, i, device, talk) == rs[i].talk = talk /\ device \in {NoDevice, rs[i].device}

LEMMA LinesOfIs ==
    ASSUME NEW rs \in Seq(Rows), NEW device, NEW talk
    PROVE  /\ LinesOf(rs, device, talk) \in Seq(Messages)
           /\ \A x : x \in Range(LinesOf(rs, device, talk))
                <=> \E i \in 1 .. Len(rs) : Belongs(rs, i, device, talk) /\ rs[i].msg = x
<1> DEFINE f == LinesUpTo(rs, device, talk)
           Of(n, x) == \E i \in 1 .. n : Belongs(rs, i, device, talk) /\ rs[i].msg = x
           S == {n \in Nat : n <= Len(rs) => f[n] \in Seq(Messages) /\ \A x : x \in Range(f[n]) <=> Of(n, x)}
<1>1. f = [n \in 0 .. Len(rs) |-> LinesAt(rs, device, talk, f, n)]
  BY LinesExist DEF LinesUpTo
<1> HIDE DEF f
<1>2. Len(rs) \in Nat /\ \A i \in 1 .. Len(rs) : rs[i] \in Rows
  BY LenProperties, ElementOfSeq
<1>3. ASSUME NEW n \in Nat, \A k \in Nat : k < n => k \in S, n <= Len(rs)
      PROVE  f[n] \in Seq(Messages) /\ \A x : x \in Range(f[n]) <=> Of(n, x)
  <2>1. n \in 0 .. Len(rs) /\ f[n] = LinesAt(rs, device, talk, f, n)
    BY <1>1, <1>2, <1>3
  <2>2. CASE n = 0
    <3>1. f[n] = <<>>
      BY <2>1, <2>2 DEF LinesAt
    <3>2. Range(<<>>) = {} /\ <<>> \in Seq(Messages)
      BY EmptySeq DEF Range
    <3>3. \A x : ~ Of(n, x)
      BY <2>2
    <3> QED
      BY <3>1, <3>2, <3>3
  <2>3. CASE n > 0
    <3>1. n - 1 \in Nat /\ n - 1 < n /\ n - 1 <= Len(rs) /\ n \in 1 .. Len(rs) /\ n # 0
      BY <1>2, <1>3, <2>3
    <3>2. f[n - 1] \in Seq(Messages) /\ \A x : x \in Range(f[n - 1]) <=> Of(n - 1, x)
      BY <1>3, <3>1
    <3>3. \A i : i \in 1 .. n <=> i \in 1 .. n - 1 \/ i = n
      BY <3>1
    <3>4. \A x : Of(n, x) <=> Of(n - 1, x) \/ (Belongs(rs, n, device, talk) /\ rs[n].msg = x)
      BY <3>3
    <3>5. rs[n] \in Rows /\ rs[n].msg \in Messages
      BY <1>2, <3>1 DEF Rows
    <3> HIDE DEF Of
    <3>6. CASE Belongs(rs, n, device, talk)
      <4>1. f[n] = Extended(f[n - 1], rs[n].msg)
        BY <2>1, <3>1, <3>6 DEF LinesAt, Belongs
      <4>2. /\ Extended(f[n - 1], rs[n].msg) \in Seq(Messages)
            /\ \A x : x \in Range(Extended(f[n - 1], rs[n].msg)) <=> x \in Range(f[n - 1]) \/ x = rs[n].msg
        <5>1. \A l \in Seq(Messages), m \in Messages :
                 /\ Extended(l, m) \in Seq(Messages)
                 /\ \A x : x \in Range(Extended(l, m)) <=> x \in Range(l) \/ x = m
          BY ExtendedIs
        <5> QED
          BY <3>2, <3>5, <5>1
      <4> QED
        BY <3>2, <3>4, <3>6, <4>1, <4>2
    <3>7. CASE ~ Belongs(rs, n, device, talk)
      <4>1. f[n] = f[n - 1]
        BY <2>1, <3>1, <3>7 DEF LinesAt, Belongs
      <4> QED
        BY <3>2, <3>4, <3>7, <4>1
    <3> QED
      BY <3>6, <3>7
  <2> QED
    BY <1>3, <2>2, <2>3
<1>4. \A n \in Nat : (\A k \in Nat : k < n => k \in S) => n \in S
  BY <1>3
<1>5. S \in SUBSET Nat
  OBVIOUS
<1> HIDE DEF S
<1>6. S = Nat
  BY <1>4, <1>5, AllNumbers
<1>7. Len(rs) \in S /\ Len(rs) <= Len(rs)
  BY <1>2, <1>6
<1> QED
  BY <1>7, LinesOfLast DEF S, f

\* The rows of a talk come from one device.
OfOne(rs, talk) ==
    \A j, k \in 1 .. Len(rs) : rs[j].talk = talk /\ rs[k].talk = talk => rs[j].device = rs[k].device

LEMMA HistoryIs ==
    ASSUME NEW rs \in Seq(Rows), NEW device, NEW talk
    PROVE  /\ History(rs, device, talk) \in Seq(Texts)
           /\ \A x \in Range(History(rs, device, talk)) :
                 \E i \in 1 .. Len(rs) : rs[i].talk = talk /\ rs[i].msg = x
           /\ OfOne(rs, talk) => \A i \in 1 .. Len(rs) :
                 rs[i].talk = talk => rs[i].msg \in Range(History(rs, device, talk))
<1> DEFINE own == LinesOf(rs, device, talk)
           all == LinesOf(rs, NoDevice, talk)
<1>1. History(rs, device, talk) = IF own # <<>> THEN own ELSE all
  BY DEF History
<1>2. /\ own \in Seq(Messages)
      /\ \A x : x \in Range(own) <=> \E i \in 1 .. Len(rs) : Belongs(rs, i, device, talk) /\ rs[i].msg = x
  BY LinesOfIs
<1>3. /\ all \in Seq(Messages)
      /\ \A x : x \in Range(all) <=> \E i \in 1 .. Len(rs) : Belongs(rs, i, NoDevice, talk) /\ rs[i].msg = x
  BY LinesOfIs
<1> HIDE DEF own, all
<1>4. CASE own # <<>>
  <2>1. \E x : x \in Range(own)
    <3>1. Len(own) \in Nat /\ Len(own) # 0
      BY <1>2, <1>4, EmptySeq
    <3>2. 1 \in 1 .. Len(own)
      BY <3>1
    <3> QED
      BY <1>2, <3>2, RangeIs
  <2>2. PICK i \in 1 .. Len(rs) : Belongs(rs, i, device, talk)
    BY <1>2, <2>1
  <2>3. OfOne(rs, talk) => \A j \in 1 .. Len(rs) : rs[j].talk = talk => Belongs(rs, j, device, talk)
    BY <2>2 DEF OfOne, Belongs
  <2>4. own \in Seq(Texts)
    BY <1>2, SeqMonotonic DEF Texts
  <2> QED
    BY <1>1, <1>2, <1>4, <2>3, <2>4 DEF Belongs
<1>5. CASE own = <<>>
  <2>1. all \in Seq(Texts)
    BY <1>3, SeqMonotonic DEF Texts
  <2> QED
    BY <1>1, <1>3, <1>5, <2>1 DEF Belongs
<1> QED
  BY <1>4, <1>5

-----------------------------------------------------------------------------
(* The window manager *)

Desk(d) ==
    /\ d = [windows |-> d.windows, by_key |-> d.by_key, current |-> d.current]
    /\ d.windows \in Seq(Windows)

Count(d) == Len(d.windows)

\* by_key_ has the keys of the windows, and no two windows are of one talk.
KeysAreRight(d) ==
    /\ \A i \in 1 .. Count(d) : /\ KeyOf(d.windows[i]) \in DOMAIN d.by_key
                                /\ d.by_key[KeyOf(d.windows[i])] = i
    /\ \A k \in DOMAIN d.by_key : d.by_key[k] \in 1 .. Count(d) /\ KeyOf(d.windows[d.by_key[k]]) = k
    /\ \A i, j \in 1 .. Count(d) : d.windows[i].talk = d.windows[j].talk => i = j

Orderly(d) == Desk(d) /\ d.current \in 1 .. Count(d) /\ KeysAreRight(d)

LEMMA DeskIs ==
    ASSUME NEW d, Desk(d)
    PROVE  Count(d) \in Nat /\ \A i \in 1 .. Count(d) : d.windows[i] \in Windows
  BY LenProperties, ElementOfSeq DEF Desk, Count

\* d with another window i.
SetWindow(d, i, w) == [d EXCEPT !.windows = [d.windows EXCEPT ![i] = w]]

LEMMA SetWindowIs ==
    ASSUME NEW d, Desk(d), NEW i \in 1 .. Count(d), NEW w \in Windows
    PROVE  /\ Desk(SetWindow(d, i, w))
           /\ Count(SetWindow(d, i, w)) = Count(d)
           /\ SetWindow(d, i, w).current = d.current /\ SetWindow(d, i, w).by_key = d.by_key
           /\ \A j \in 1 .. Count(d) :
                 SetWindow(d, i, w).windows[j] = IF j = i THEN w ELSE d.windows[j]
<1> DEFINE s == d.windows
           t == [s EXCEPT ![i] = w]
<1>1. SetWindow(d, i, w) = [windows |-> t, by_key |-> d.by_key, current |-> d.current]
  BY DEF SetWindow, Desk
<1>2. s \in Seq(Windows) /\ i \in 1 .. Len(s)
  BY DEF Desk, Count
<1> HIDE DEF s
<1>3. /\ t \in Seq(Windows) /\ Len(t) = Len(s)
      /\ \A j \in 1 .. Len(s) : t[j] = IF j = i THEN w ELSE s[j]
  BY <1>2, ExceptSeq
<1> HIDE DEF t
<1> QED
  BY <1>1, <1>3 DEF Desk, Count, s

\* A window that keeps its device and talk keeps the order.
LEMMA SetWindowOrderly ==
    ASSUME NEW d, Orderly(d), NEW i \in 1 .. Count(d), NEW w \in Windows,
           KeyOf(w) = KeyOf(d.windows[i])
    PROVE  Orderly(SetWindow(d, i, w))
<1> DEFINE e == SetWindow(d, i, w)
<1>1. /\ Desk(e) /\ Count(e) = Count(d) /\ e.current = d.current /\ e.by_key = d.by_key
      /\ \A j \in 1 .. Count(d) : e.windows[j] = IF j = i THEN w ELSE d.windows[j]
  BY SetWindowIs DEF Orderly
<1> HIDE DEF e
<1>2. \A j \in 1 .. Count(d) : KeyOf(e.windows[j]) = KeyOf(d.windows[j])
  BY <1>1
<1>3. \A j \in 1 .. Count(d) : e.windows[j].talk = d.windows[j].talk
  BY <1>2 DEF KeyOf
<1>4. KeysAreRight(e)
  BY <1>1, <1>2, <1>3 DEF Orderly, KeysAreRight
<1> QED
  BY <1>1, <1>4 DEF Orderly, e

\* e is d with another window i, of the same device and talk.
Changes(d, e, i, lines, unread) ==
    /\ Orderly(e) /\ Count(e) = Count(d) /\ e.current = d.current
    /\ e.windows[i].talk = d.windows[i].talk /\ e.windows[i].device = d.windows[i].device
    /\ e.windows[i].lines = lines /\ e.windows[i].unread = unread
    /\ \A j \in 1 .. Count(d) : j # i => e.windows[j] = d.windows[j]

LEMMA ChangesIs ==
    ASSUME NEW d, Orderly(d), NEW i \in 1 .. Count(d),
           NEW named \in BOOLEAN, NEW lines \in Seq(Texts), NEW unread \in BOOLEAN
    PROVE  Changes(d, SetWindow(d, i, [d.windows[i] EXCEPT !.named = named, !.lines = lines, !.unread = unread]),
                   i, lines, unread)
<1> DEFINE w == d.windows[i]
           v == [w EXCEPT !.named = named, !.lines = lines, !.unread = unread]
<1>1. w \in Windows
  BY DeskIs DEF Orderly
<1> HIDE DEF w
<1>2. v \in Windows /\ v.device = w.device /\ v.talk = w.talk /\ v.lines = lines /\ v.unread = unread
  BY <1>1 DEF Windows
<1> HIDE DEF v
<1>3. KeyOf(v) = KeyOf(d.windows[i])
  BY <1>2 DEF KeyOf, w
<1> DEFINE e == SetWindow(d, i, v)
<1>4. Orderly(e)
  BY <1>2, <1>3, SetWindowOrderly
<1>5. /\ Count(e) = Count(d) /\ e.current = d.current
      /\ \A j \in 1 .. Count(d) : e.windows[j] = IF j = i THEN v ELSE d.windows[j]
  BY <1>2, SetWindowIs DEF Orderly
<1> HIDE DEF e
<1>6. Changes(d, e, i, lines, unread)
  BY <1>2, <1>4, <1>5 DEF Changes, w
<1> QED
  BY <1>6 DEF e, v, w

\* The operators that change one window.
LEMMA MarkReadIs ==
    ASSUME NEW d, Orderly(d), NEW i \in 1 .. Count(d)
    PROVE  Changes(d, MarkRead(d, i), i, d.windows[i].lines, FALSE)
<1>1. d.windows[i] \in Windows
  BY DeskIs DEF Orderly
<1>2. d.windows[i].named \in BOOLEAN /\ d.windows[i].lines \in Seq(Texts)
  BY <1>1 DEF Windows
<1>3. \A w \in Windows : [w EXCEPT !.unread = FALSE]
                         = [w EXCEPT !.named = w.named, !.lines = w.lines, !.unread = FALSE]
  BY DEF Windows
<1>4. MarkRead(d, i) = SetWindow(d, i, [d.windows[i] EXCEPT !.unread = FALSE])
  BY <1>1 DEF MarkRead, SetWindow, Windows, Orderly, Desk
<1> DEFINE v == [d.windows[i] EXCEPT !.named = d.windows[i].named, !.lines = d.windows[i].lines, !.unread = FALSE]
<1>5. Changes(d, SetWindow(d, i, v), i, d.windows[i].lines, FALSE)
  BY <1>1, <1>2, ChangesIs
<1>6. [d.windows[i] EXCEPT !.unread = FALSE] = v
  BY <1>1, <1>3
<1> HIDE DEF v
<1> QED
  BY <1>4, <1>5, <1>6

LEMMA BumpIs ==
    ASSUME NEW d, Orderly(d), NEW i \in 1 .. Count(d), i # d.current
    PROVE  Changes(d, Bump(d, i), i, d.windows[i].lines, TRUE)
<1>1. d.windows[i] \in Windows
  BY DeskIs DEF Orderly
<1>2. d.windows[i].named \in BOOLEAN /\ d.windows[i].lines \in Seq(Texts)
  BY <1>1 DEF Windows
<1>3. \A w \in Windows : [w EXCEPT !.unread = TRUE]
                         = [w EXCEPT !.named = w.named, !.lines = w.lines, !.unread = TRUE]
  BY DEF Windows
<1>4. Bump(d, i) = SetWindow(d, i, [d.windows[i] EXCEPT !.unread = TRUE])
  BY <1>1 DEF Bump, SetWindow, Windows, Orderly, Desk
<1> DEFINE v == [d.windows[i] EXCEPT !.named = d.windows[i].named, !.lines = d.windows[i].lines, !.unread = TRUE]
<1>5. Changes(d, SetWindow(d, i, v), i, d.windows[i].lines, TRUE)
  BY <1>1, <1>2, ChangesIs
<1>6. [d.windows[i] EXCEPT !.unread = TRUE] = v
  BY <1>1, <1>3
<1> HIDE DEF v
<1> QED
  BY <1>4, <1>5, <1>6

\* d with other lines in window i.
WithLines(d, i, lines) == [d EXCEPT !.windows[i].lines = lines]

LEMMA LinesChange ==
    ASSUME NEW d, Orderly(d), NEW i \in 1 .. Count(d), NEW lines \in Seq(Texts)
    PROVE  Changes(d, WithLines(d, i, lines), i, lines, d.windows[i].unread)
<1>1. d.windows[i] \in Windows
  BY DeskIs DEF Orderly
<1>2. d.windows[i].named \in BOOLEAN /\ d.windows[i].unread \in BOOLEAN
  BY <1>1 DEF Windows
<1>3. \A w \in Windows : [w EXCEPT !.lines = lines]
                         = [w EXCEPT !.named = w.named, !.lines = lines, !.unread = w.unread]
  BY DEF Windows
<1>4. WithLines(d, i, lines) = SetWindow(d, i, [d.windows[i] EXCEPT !.lines = lines])
  BY <1>1 DEF WithLines, SetWindow, Windows, Orderly, Desk
<1> DEFINE v == [d.windows[i] EXCEPT !.named = d.windows[i].named, !.lines = lines, !.unread = d.windows[i].unread]
<1>5. Changes(d, SetWindow(d, i, v), i, lines, d.windows[i].unread)
  <2>1. \A n, u \in BOOLEAN :
           Changes(d, SetWindow(d, i, [d.windows[i] EXCEPT !.named = n, !.lines = lines, !.unread = u]),
                   i, lines, u)
    BY ChangesIs
  <2> QED
    BY <1>2, <2>1
<1>6. [d.windows[i] EXCEPT !.lines = lines] = v
  BY <1>1, <1>3
<1> HIDE DEF v
<1> QED
  BY <1>4, <1>5, <1>6

LEMMA AddLineIs ==
    ASSUME NEW d, Orderly(d), NEW i \in 1 .. Count(d), NEW x \in Texts
    PROVE  /\ d.windows[i].lines \in Seq(Texts)
           /\ Changes(d, AddLine(d, i, x), i, Extended(d.windows[i].lines, x), d.windows[i].unread)
<1>1. d.windows[i].lines \in Seq(Texts)
  BY DeskIs DEF Orderly, Windows
<1>2. \A l \in Seq(Texts) : Extended(l, x) \in Seq(Texts)
  BY ExtendedIs
<1>3. Extended(d.windows[i].lines, x) \in Seq(Texts)
  BY <1>1, <1>2
<1>4. AddLine(d, i, x) = WithLines(d, i, Extended(d.windows[i].lines, x))
  BY DEF AddLine, WithLines
<1>5. \A l \in Seq(Texts) : Changes(d, WithLines(d, i, l), i, l, d.windows[i].unread)
  BY LinesChange
<1> QED
  BY <1>1, <1>3, <1>4, <1>5

LEMMA LoadHistoryIs ==
    ASSUME NEW d, Orderly(d), NEW i \in 1 .. Count(d), NEW rs \in Seq(Rows)
    PROVE  Changes(d, LoadHistory(d, rs, i), i,
                   IF d.windows[i].lines = <<>> THEN History(rs, d.windows[i].device, d.windows[i].talk)
                   ELSE d.windows[i].lines,
                   d.windows[i].unread)
<1> DEFINE h == History(rs, d.windows[i].device, d.windows[i].talk)
           l == IF d.windows[i].lines = <<>> THEN h ELSE d.windows[i].lines
<1>1. d.windows[i].lines \in Seq(Texts)
  BY DeskIs DEF Orderly, Windows
<1>2. h \in Seq(Texts)
  BY HistoryIs
<1>3. LoadHistory(d, rs, i) = WithLines(d, i, l)
  BY DEF LoadHistory, WithLines
<1> HIDE DEF h
<1>4. l \in Seq(Texts)
  BY <1>1, <1>2
<1> HIDE DEF l
<1>5. Changes(d, LoadHistory(d, rs, i), i, l, d.windows[i].unread)
  BY <1>3, <1>4, LinesChange
<1> QED
  BY <1>5 DEF l, h

-----------------------------------------------------------------------------
(* Windows are added, get another device, and close *)

LEMMA DeskExcept ==
    ASSUME NEW d, Desk(d), NEW x, NEW y
    PROVE  [d EXCEPT !.windows = x, !.by_key = y] = [windows |-> x, by_key |-> y, current |-> d.current]
<1>1. d = [windows |-> d.windows, by_key |-> d.by_key, current |-> d.current]
  BY DEF Desk
<1> DEFINE e == [d EXCEPT !.windows = x]
<1>2. [d EXCEPT !.windows = x, !.by_key = y] = [e EXCEPT !.by_key = y]
  OBVIOUS
<1>3. e = [windows |-> x, by_key |-> d.by_key, current |-> d.current]
  BY <1>1
<1> HIDE DEF e
<1>4. e = [windows |-> e.windows, by_key |-> e.by_key, current |-> e.current] /\ e.windows = x
      /\ e.current = d.current
  BY <1>3
<1>5. [e EXCEPT !.by_key = y] = [windows |-> e.windows, by_key |-> y, current |-> e.current]
  BY <1>4
<1> QED
  BY <1>2, <1>4, <1>5

LEMMA AddWindowIs ==
    ASSUME NEW d, Desk(d), KeysAreRight(d), d.current \in 1 .. Count(d) + 1, NEW w \in Windows,
           \A j \in 1 .. Count(d) : d.windows[j].talk # w.talk
    PROVE  /\ Orderly(AddWindow(d, w))
           /\ Count(AddWindow(d, w)) = Count(d) + 1
           /\ AddWindow(d, w).current = d.current
           /\ AddWindow(d, w).windows[Count(d) + 1] = w
           /\ \A j \in 1 .. Count(d) : AddWindow(d, w).windows[j] = d.windows[j]
<1> DEFINE n == Count(d)
           s == Append(d.windows, w)
           map == Keyed(d.by_key, DOMAIN d.by_key, KeyOf(w), n + 1)
           e == AddWindow(d, w)
<1>1. n \in Nat /\ n = Len(d.windows)
  BY DeskIs DEF Count
<1>2. /\ s \in Seq(Windows) /\ Len(s) = n + 1 /\ s[n + 1] = w
      /\ \A j \in 1 .. n : s[j] = d.windows[j]
  BY <1>1, AppendedIs DEF Desk
<1>3. e = [windows |-> s, by_key |-> map, current |-> d.current]
  <2>1. e = [d EXCEPT !.windows = s, !.by_key = map]
    BY DEF AddWindow, Count
  <2> HIDE DEF e, s, map
  <2> QED
    BY <2>1, DeskExcept
<1> HIDE DEF n, s, e
<1>4. /\ Desk(e) /\ Count(e) = n + 1 /\ e.by_key = map /\ e.current = d.current
      /\ e.windows[n + 1] = w /\ \A j \in 1 .. n : e.windows[j] = d.windows[j]
  BY <1>2, <1>3 DEF Desk, Count
<1>5. \A j : j \in 1 .. n + 1 <=> j \in 1 .. n \/ j = n + 1
  BY <1>1
<1>6. /\ DOMAIN map = DOMAIN d.by_key \cup {KeyOf(w)} /\ map[KeyOf(w)] = n + 1
      /\ \A k \in DOMAIN d.by_key : k # KeyOf(w) => map[k] = d.by_key[k]
  BY DEF Keyed
<1> HIDE DEF map
<1>7. n + 1 \notin 1 .. n
  BY <1>1
<1>8. \A j \in 1 .. n : KeyOf(d.windows[j]) # KeyOf(w)
  BY DEF KeyOf, n
<1>9. \A k \in DOMAIN d.by_key : d.by_key[k] \in 1 .. n /\ KeyOf(d.windows[d.by_key[k]]) = k
  BY DEF KeysAreRight, n
<1>10. \A k \in DOMAIN d.by_key : k # KeyOf(w)
  BY <1>8, <1>9
<1>11. \A j \in 1 .. n + 1 : KeyOf(e.windows[j]) \in DOMAIN map /\ map[KeyOf(e.windows[j])] = j
  <2>1. \A j \in 1 .. n : KeyOf(d.windows[j]) \in DOMAIN d.by_key /\ d.by_key[KeyOf(d.windows[j])] = j
    BY DEF KeysAreRight, n
  <2> QED
    BY <1>4, <1>5, <1>6, <1>8, <2>1
<1>12. \A k \in DOMAIN map : map[k] \in 1 .. n + 1 /\ KeyOf(e.windows[map[k]]) = k
  BY <1>4, <1>5, <1>6, <1>9, <1>10
<1>13. \A i, j \in 1 .. n + 1 : e.windows[i].talk = e.windows[j].talk => i = j
  <2>1. \A i, j \in 1 .. n : d.windows[i].talk = d.windows[j].talk => i = j
    BY DEF KeysAreRight, n
  <2>2. \A j \in 1 .. n : d.windows[j].talk # w.talk
    BY DEF n
  <2> QED
    BY <1>4, <1>5, <2>1, <2>2
<1>14. d.current \in 1 .. n + 1
  BY DEF n
<1> QED
  BY <1>4, <1>11, <1>12, <1>13, <1>14 DEF Orderly, KeysAreRight, e, n

\* d with another device for window i, which the user may have named.
Moved(d, i, device, named) == [Retarget(d, i, device) EXCEPT !.windows[i].named = @ \/ named]

LEMMA MovedIs ==
    ASSUME NEW d, Orderly(d), NEW i \in 1 .. Count(d), NEW device \in Ids, NEW named \in BOOLEAN
    PROVE  LET e == Moved(d, i, device, named)
           IN  /\ Orderly(e) /\ Count(e) = Count(d) /\ e.current = d.current
               /\ e.windows[i].talk = d.windows[i].talk /\ e.windows[i].device = device
               /\ e.windows[i].lines = d.windows[i].lines /\ e.windows[i].unread = d.windows[i].unread
               /\ \A j \in 1 .. Count(d) : j # i => e.windows[j] = d.windows[j]
<1> DEFINE n == Count(d)
           w == d.windows[i]
           v == [w EXCEPT !.device = device, !.named = w.named \/ named]
           s == [d.windows EXCEPT ![i] = v]
           key == <<device, w.talk>>
           kept == DOMAIN d.by_key \ {KeyOf(w)}
           map == Keyed(d.by_key, kept, key, i)
           e == Moved(d, i, device, named)
<1>1. w \in Windows /\ n = Len(d.windows) /\ n \in Nat /\ d.windows \in Seq(Windows)
  BY DeskIs DEF Orderly, Desk, Count
<1>2. /\ v \in Windows /\ v.device = device /\ v.talk = w.talk /\ v.lines = w.lines
      /\ v.unread = w.unread
  BY <1>1 DEF Windows
<1>3. e = [windows |-> s, by_key |-> map, current |-> d.current]
  <2>1. Desk(d)
    BY DEF Orderly
  <2> DEFINE x == [d.windows EXCEPT ![i] = [w EXCEPT !.device = device]]
             y == [windows |-> x, by_key |-> map, current |-> d.current]
  <2>2. Retarget(d, i, device) = [d EXCEPT !.windows = x, !.by_key = map]
    BY DEF Retarget
  <2>3. Retarget(d, i, device) = y
    <3> HIDE DEF x, map
    <3> QED
      BY <2>1, <2>2, DeskExcept
  <2>4. e = [y EXCEPT !.windows[i].named = @ \/ named]
    BY <2>3 DEF Moved
  <2> DEFINE z == [x EXCEPT ![i] = [x[i] EXCEPT !.named = x[i].named \/ named]]
  <2>5. e = [y EXCEPT !.windows = z]
    BY <2>4
  <2>6. z = s
    <3>1. x[i] = [w EXCEPT !.device = device]
      BY <1>1 DEF Count
    <3>2. [x[i] EXCEPT !.named = x[i].named \/ named] = v
      BY <1>1, <3>1 DEF Windows
    <3> HIDE DEF v
    <3> QED
      BY <3>2
  <2> HIDE DEF e, x, map, s
  <2> QED
    BY <2>5, <2>6
<1> HIDE DEF v
<1>4. s \in Seq(Windows) /\ Len(s) = n /\ \A j \in 1 .. n : s[j] = IF j = i THEN v ELSE d.windows[j]
  BY <1>1, <1>2, ExceptSeq
<1> HIDE DEF s, e
<1>5. /\ Desk(e) /\ Count(e) = n /\ e.by_key = map /\ e.current = d.current
      /\ \A j \in 1 .. n : e.windows[j] = IF j = i THEN v ELSE d.windows[j]
  BY <1>3, <1>4 DEF Desk, Count
<1>6. /\ DOMAIN map = kept \cup {key} /\ map[key] = i
      /\ \A k \in kept : k # key => map[k] = d.by_key[k]
  BY DEF Keyed
<1> HIDE DEF map
<1>7. KeyOf(v) = key /\ KeyOf(w) = <<w.device, w.talk>>
  BY <1>2 DEF KeyOf
<1>8. /\ \A j \in 1 .. n : KeyOf(d.windows[j]) \in DOMAIN d.by_key /\ d.by_key[KeyOf(d.windows[j])] = j
      /\ \A k \in DOMAIN d.by_key : d.by_key[k] \in 1 .. n /\ KeyOf(d.windows[d.by_key[k]]) = k
      /\ \A j, k \in 1 .. n : d.windows[j].talk = d.windows[k].talk => j = k
      /\ d.current \in 1 .. n /\ i \in 1 .. n
  BY DEF Orderly, KeysAreRight
<1>9. \A j \in 1 .. n : j # i => KeyOf(d.windows[j]) # key /\ KeyOf(d.windows[j]) # KeyOf(w)
  BY <1>8 DEF KeyOf
<1>10. \A k \in kept : k # key /\ d.by_key[k] # i
  BY <1>8, <1>9
<1> HIDE DEF n, w, key
<1>11. \A j \in 1 .. n : KeyOf(e.windows[j]) \in DOMAIN map /\ map[KeyOf(e.windows[j])] = j
  <2> SUFFICES ASSUME NEW j \in 1 .. n
               PROVE  KeyOf(e.windows[j]) \in DOMAIN map /\ map[KeyOf(e.windows[j])] = j
    OBVIOUS
  <2>1. CASE j = i
    BY <1>5, <1>6, <1>7, <2>1
  <2>2. CASE j # i
    <3>1. KeyOf(e.windows[j]) = KeyOf(d.windows[j])
      BY <1>5, <2>2
    <3>2. KeyOf(d.windows[j]) \in kept /\ KeyOf(d.windows[j]) # key
      BY <1>8, <1>9, <2>2
    <3> QED
      BY <1>6, <1>8, <3>1, <3>2
  <2> QED
    BY <2>1, <2>2
<1>12. \A k \in DOMAIN map : map[k] \in 1 .. n /\ KeyOf(e.windows[map[k]]) = k
  <2> SUFFICES ASSUME NEW k \in DOMAIN map PROVE map[k] \in 1 .. n /\ KeyOf(e.windows[map[k]]) = k
    OBVIOUS
  <2>1. CASE k = key
    BY <1>5, <1>6, <1>7, <1>8, <2>1
  <2>2. CASE k # key
    <3>1. k \in kept /\ map[k] = d.by_key[k] /\ d.by_key[k] \in 1 .. n /\ d.by_key[k] # i
      BY <1>6, <1>8, <1>10, <2>2
    <3> QED
      BY <1>5, <1>8, <3>1
  <2> QED
    BY <2>1, <2>2
<1>13. \A j \in 1 .. n : e.windows[j].talk = d.windows[j].talk
  BY <1>2, <1>5 DEF w
<1>14. \A j, k \in 1 .. n : e.windows[j].talk = e.windows[k].talk => j = k
  BY <1>8, <1>13
<1>15. Orderly(e)
  BY <1>5, <1>8, <1>11, <1>12, <1>14 DEF Orderly, KeysAreRight
<1>16. e.windows[i] = v
  BY <1>5, <1>8
<1> QED
  BY <1>2, <1>5, <1>15, <1>16 DEF e, n, w

LEMMA FoundIs ==
    ASSUME NEW d, Orderly(d), NEW device, NEW talk
    PROVE  /\ \A i \in Found(d, device, talk) : i \in 1 .. Count(d) /\ d.windows[i].talk = talk
           /\ Found(d, device, talk) = {} => \A i \in 1 .. Count(d) : d.windows[i].talk # talk
<1>1. /\ \A k \in DOMAIN d.by_key : d.by_key[k] \in 1 .. Count(d) /\ KeyOf(d.windows[d.by_key[k]]) = k
      /\ \A i, j \in 1 .. Count(d) : d.windows[i].talk = d.windows[j].talk => i = j
  BY DEF Orderly, KeysAreRight
<1> DEFINE same == {i \in 1 .. Count(d) : d.windows[i].talk = talk}
<1>2. CASE <<device, talk>> \in DOMAIN d.by_key
  <2>1. Found(d, device, talk) = {d.by_key[<<device, talk>>]}
    BY <1>2 DEF Found
  <2>2. d.windows[d.by_key[<<device, talk>>]].talk = talk
    BY <1>1, <1>2 DEF KeyOf
  <2> QED
    BY <1>1, <1>2, <2>1, <2>2
<1>3. CASE <<device, talk>> \notin DOMAIN d.by_key
  <2>1. Found(d, device, talk) = {i \in same : \A j \in same : i <= j}
    BY <1>3 DEF Found, Count
  <2>2. \A i, j \in same : i <= j
    BY <1>1
  <2> QED
    BY <2>1, <2>2
<1> QED
  BY <1>2, <1>3

\* In e the talk has window i, which has the stored lines if it had none; the
\* others are those of d.
Opens(d, e, i, lines, talk) ==
    /\ Orderly(e) /\ e.current = d.current /\ i \in 1 .. Count(e) /\ e.windows[i].talk = talk
    /\ 1 .. Count(d) \subseteq 1 .. Count(e)
    /\ \A j \in 1 .. Count(e) : j # i => j \in 1 .. Count(d) /\ e.windows[j] = d.windows[j]
    /\ i \in 1 .. Count(d) =>
          /\ d.windows[i].talk = talk /\ e.windows[i].unread = d.windows[i].unread
          /\ e.windows[i].lines = IF d.windows[i].lines = <<>> THEN lines ELSE d.windows[i].lines
    /\ i \notin 1 .. Count(d) =>
          /\ \A j \in 1 .. Count(d) : d.windows[j].talk # talk
          /\ e.windows[i].lines = lines /\ ~ e.windows[i].unread

LEMMA EnsureIs ==
    ASSUME NEW d, Orderly(d), NEW rs \in Seq(Rows), NEW device \in Ids, NEW talk \in Titles,
           NEW named \in BOOLEAN
    PROVE  Opens(d, Ensure(d, rs, device, talk, named),
                 Where(Ensure(d, rs, device, talk, named), device, talk),
                 History(rs, device, talk), talk)
<1> DEFINE e == Ensure(d, rs, device, talk, named)
           h == History(rs, device, talk)
<1>1. Count(d) \in Nat /\ Count(d) = Len(d.windows)
  BY DeskIs DEF Orderly, Count
<1>2. ASSUME NEW f, NEW i \in 1 .. Count(f), Orderly(f), f.windows[i].talk = talk, f.windows[i].device = device,
             e = LoadHistory(f, rs, i)
      PROVE  /\ Orderly(e) /\ Count(e) = Count(f) /\ e.current = f.current /\ Where(e, device, talk) = i
             /\ e.windows[i].talk = talk /\ e.windows[i].unread = f.windows[i].unread
             /\ e.windows[i].lines = IF f.windows[i].lines = <<>> THEN h ELSE f.windows[i].lines
             /\ \A j \in 1 .. Count(f) : j # i => e.windows[j] = f.windows[j]
  <2> HIDE DEF e
  <2>1. Changes(f, e, i, IF f.windows[i].lines = <<>> THEN h ELSE f.windows[i].lines, f.windows[i].unread)
    BY <1>2, LoadHistoryIs
  <2>2. KeyOf(e.windows[i]) = <<device, talk>>
    BY <1>2, <2>1 DEF Changes, KeyOf
  <2>3. Where(e, device, talk) = i
    BY <1>2, <2>1, <2>2 DEF Changes, Orderly, KeysAreRight, Where
  <2> QED
    BY <1>2, <2>1, <2>3 DEF Changes
<1>3. CASE Found(d, device, talk) = {}
  <2> DEFINE w == NewWindow(device, talk, named)
             f == AddWindow(d, w)
             n == Count(d) + 1
  <2>1. /\ w \in Windows /\ w.talk = talk /\ w.device = device /\ w.lines = <<>> /\ w.unread = FALSE
    BY EmptySeq DEF NewWindow, Windows
  <2>2. \A j \in 1 .. Count(d) : d.windows[j].talk # talk
    BY <1>3, FoundIs
  <2>3. d.current \in 1 .. n /\ Desk(d) /\ KeysAreRight(d)
    BY <1>1 DEF Orderly
  <2>4. e = LoadHistory(f, rs, n)
    BY <1>1, <1>3 DEF Ensure
  <2> HIDE DEF w, e
  <2>5. /\ Orderly(f) /\ Count(f) = n /\ f.current = d.current /\ f.windows[n] = w
        /\ \A j \in 1 .. Count(d) : f.windows[j] = d.windows[j]
    BY <2>1, <2>2, <2>3, AddWindowIs
  <2> HIDE DEF f
  <2>6. n \in 1 .. n /\ n \notin 1 .. Count(d) /\ \A j : j \in 1 .. n <=> j \in 1 .. Count(d) \/ j = n
    BY <1>1
  <2> HIDE DEF n
  <2>7. /\ Orderly(e) /\ Count(e) = n /\ e.current = d.current /\ Where(e, device, talk) = n
        /\ e.windows[n].talk = talk /\ e.windows[n].unread = FALSE /\ e.windows[n].lines = h
        /\ \A j \in 1 .. n : j # n => e.windows[j] = f.windows[j]
    BY <1>2, <2>1, <2>4, <2>5, <2>6
  <2> HIDE DEF h
  <2>8. Opens(d, e, n, h, talk)
    BY <2>2, <2>5, <2>6, <2>7 DEF Opens
  <2> QED
    BY <2>7, <2>8 DEF e, h
<1>4. CASE Found(d, device, talk) # {}
  <2> DEFINE i == CHOOSE x \in Found(d, device, talk) : TRUE
             f == Moved(d, i, device, named)
  <2>1. i \in Found(d, device, talk)
    BY <1>4
  <2>2. e = LoadHistory(f, rs, i)
    BY <1>4 DEF Ensure, Moved
  <2> HIDE DEF i, e
  <2>3. i \in 1 .. Count(d) /\ d.windows[i].talk = talk
    BY <2>1, FoundIs
  <2>4. /\ Orderly(f) /\ Count(f) = Count(d) /\ f.current = d.current
        /\ f.windows[i].talk = d.windows[i].talk /\ f.windows[i].device = device
        /\ f.windows[i].lines = d.windows[i].lines /\ f.windows[i].unread = d.windows[i].unread
        /\ \A j \in 1 .. Count(d) : j # i => f.windows[j] = d.windows[j]
    BY <2>3, MovedIs
  <2> HIDE DEF f
  <2>5. /\ Orderly(e) /\ Count(e) = Count(d) /\ e.current = d.current /\ Where(e, device, talk) = i
        /\ e.windows[i].talk = talk /\ e.windows[i].unread = d.windows[i].unread
        /\ e.windows[i].lines = IF d.windows[i].lines = <<>> THEN h ELSE d.windows[i].lines
        /\ \A j \in 1 .. Count(d) : j # i => e.windows[j] = f.windows[j]
    BY <1>2, <2>2, <2>3, <2>4
  <2> HIDE DEF h
  <2>6. Opens(d, e, i, h, talk)
    BY <2>3, <2>4, <2>5 DEF Opens
  <2> QED
    BY <2>5, <2>6 DEF e, h
<1> QED
  BY <1>3, <1>4

\* What a list is after the removal of one of its places.
LEMMA RemoveAtIs ==
    ASSUME NEW S, NEW seq \in Seq(S), NEW k \in 1 .. Len(seq)
    PROVE  /\ RemoveAt(seq, k) \in Seq(S)
           /\ Len(RemoveAt(seq, k)) = Len(seq) - 1
           /\ \A i \in 1 .. Len(seq) - 1 :
                 RemoveAt(seq, k)[i] = IF i < k THEN seq[i] ELSE seq[i + 1]
<1> DEFINE n == Len(seq)
           front == SubSeq(seq, 1, k - 1)
           back == SubSeq(seq, k + 1, n)
           both == front \o back
<1>1. n \in Nat /\ k \in 1 .. n
  BY LenProperties
<1>2. \A i \in 1 .. n : seq[i] \in S
  BY ElementOfSeq
<1>3. RemoveAt(seq, k) = both
  BY DEF RemoveAt
<1> HIDE DEF n
<1>4. /\ front \in Seq(S) /\ Len(front) = k - 1
      /\ \A i \in 1 .. k - 1 : front[i] = seq[i]
  <2>1. 1 \in Int /\ k - 1 \in Int /\ \A i \in 1 .. k - 1 : seq[i] \in S
    BY <1>1, <1>2
  <2>2. front \in Seq(S) /\ Len(front) = IF 1 <= k - 1 THEN (k - 1) - 1 + 1 ELSE 0
    BY <2>1, SubSeqProperties
  <2>3. \A i \in 1 .. (k - 1) - 1 + 1 : front[i] = seq[1 + i - 1]
    BY <2>1, SubSeqProperties
  <2> HIDE DEF front
  <2>4. ASSUME NEW i \in 1 .. k - 1 PROVE front[i] = seq[i]
    <3>1. i \in 1 .. (k - 1) - 1 + 1 /\ 1 + i - 1 = i
      BY <1>1
    <3> QED
      BY <2>3, <3>1
  <2>5. Len(front) = k - 1
    BY <1>1, <2>2
  <2> QED
    BY <2>2, <2>4, <2>5
<1>5. /\ back \in Seq(S) /\ Len(back) = n - k
      /\ \A i \in 1 .. n - k : back[i] = seq[k + i]
  <2>1. k + 1 \in Int /\ n \in Int /\ \A i \in k + 1 .. n : seq[i] \in S
    BY <1>1, <1>2
  <2>2. back \in Seq(S) /\ Len(back) = IF k + 1 <= n THEN n - (k + 1) + 1 ELSE 0
    BY <2>1, SubSeqProperties
  <2>3. \A i \in 1 .. n - (k + 1) + 1 : back[i] = seq[(k + 1) + i - 1]
    BY <2>1, SubSeqProperties
  <2> HIDE DEF back
  <2>4. ASSUME NEW i \in 1 .. n - k PROVE back[i] = seq[k + i]
    <3>1. i \in 1 .. n - (k + 1) + 1 /\ (k + 1) + i - 1 = k + i
      BY <1>1
    <3> QED
      BY <2>3, <3>1
  <2>5. Len(back) = n - k
    BY <1>1, <2>2
  <2> QED
    BY <2>2, <2>4, <2>5
<1> HIDE DEF front, back
<1>6. /\ both \in Seq(S) /\ Len(both) = Len(front) + Len(back)
      /\ \A i \in 1 .. Len(front) + Len(back) :
            both[i] = IF i <= Len(front) THEN front[i] ELSE back[i - Len(front)]
  BY <1>4, <1>5, ConcatProperties
<1> HIDE DEF both
<1>7. Len(both) = n - 1 /\ Len(front) + Len(back) = n - 1
  BY <1>1, <1>4, <1>5, <1>6
<1>8. ASSUME NEW i \in 1 .. n - 1
      PROVE  both[i] = IF i < k THEN seq[i] ELSE seq[i + 1]
  <2>1. CASE i < k
    <3>1. i \in 1 .. k - 1 /\ i <= Len(front)
      BY <1>1, <1>4, <2>1
    <3> QED
      BY <1>4, <1>6, <1>7, <2>1, <3>1
  <2>2. CASE ~ (i < k)
    <3>1. ~ (i <= Len(front)) /\ i - Len(front) \in 1 .. n - k /\ k + (i - Len(front)) = i + 1
      BY <1>1, <1>4, <2>2
    <3>2. both[i] = back[i - Len(front)]
      BY <1>6, <1>7, <3>1
    <3>3. back[i - Len(front)] = seq[i + 1]
      BY <1>5, <3>1
    <3> QED
      BY <2>2, <3>2, <3>3
  <2> QED
    BY <2>1, <2>2
<1> QED
  BY <1>3, <1>6, <1>7, <1>8 DEF n

\* Window k of d is window j of e.
Same(d, k, e, j) == e.windows[j].talk = d.windows[k].talk /\ e.windows[j].lines = d.windows[k].lines

\* In e window i of d is gone, and another one marked read if it became current.
Closes(d, e, i) ==
    /\ Orderly(e) /\ Count(e) = Count(d) - 1
    /\ e.current = IF d.current < i THEN d.current ELSE d.current - 1
    /\ ~ e.windows[e.current].unread
    /\ \A j \in 1 .. Count(e) :
          LET k == IF j < i THEN j ELSE j + 1
          IN  k \in 1 .. Count(d) /\ Same(d, k, e, j)
              /\ (j # e.current => e.windows[j].unread = d.windows[k].unread)

LEMMA CloseWindowIs ==
    ASSUME NEW d, Orderly(d), NEW i \in 2 .. Count(d)
    PROVE  Closes(d, CloseWindow(d, i), i)
<1> DEFINE n == Count(d)
           c == IF d.current < i THEN d.current ELSE d.current - 1
           s == RemoveAt(d.windows, i)
           left == DOMAIN d.by_key \ {KeyOf(d.windows[i])}
           map == [k \in left |-> IF d.by_key[k] > i THEN d.by_key[k] - 1 ELSE d.by_key[k]]
           r == [windows |-> s, by_key |-> map, current |-> c]
           To(j) == IF j < i THEN j ELSE j + 1
<1>1. n \in Nat /\ n = Len(d.windows) /\ d.windows \in Seq(Windows) /\ i \in 1 .. n /\ i \in 2 .. n
      /\ d.current \in 1 .. n
  BY DeskIs DEF Orderly, Desk, Count
<1>2. CloseWindow(d, i) = MarkRead(r, c)
  <2>1. c = IF d.current = i THEN (IF i > 2 THEN i - 1 ELSE 1)
            ELSE IF d.current > i THEN d.current - 1 ELSE d.current
    BY <1>1
  <2> HIDE DEF c
  <2> QED
    BY <2>1 DEF CloseWindow
<1>3. c \in 1 .. n - 1
  BY <1>1
<1> HIDE DEF c
<1>4. /\ s \in Seq(Windows) /\ Len(s) = n - 1
      /\ \A j \in 1 .. n - 1 : s[j] = IF j < i THEN d.windows[j] ELSE d.windows[j + 1]
  <2> DEFINE t == d.windows
  <2>1. t \in Seq(Windows) /\ i \in 1 .. Len(t) /\ n = Len(t)
    BY <1>1
  <2> HIDE DEF t, n
  <2>2. /\ RemoveAt(t, i) \in Seq(Windows) /\ Len(RemoveAt(t, i)) = Len(t) - 1
        /\ \A j \in 1 .. Len(t) - 1 : RemoveAt(t, i)[j] = IF j < i THEN t[j] ELSE t[j + 1]
    BY <2>1, RemoveAtIs
  <2> QED
    BY <2>1, <2>2 DEF t
<1> HIDE DEF s
<1>5. \A j \in 1 .. n - 1 : To(j) \in 1 .. n /\ To(j) # i /\ (IF To(j) > i THEN To(j) - 1 ELSE To(j)) = j
  BY <1>1
<1>6. \A j \in 1 .. n - 1 : s[j] = d.windows[To(j)]
  BY <1>4
<1>7. \A k \in 1 .. n : k # i => (IF k > i THEN k - 1 ELSE k) \in 1 .. n - 1
                              /\ To(IF k > i THEN k - 1 ELSE k) = k
  BY <1>1
<1>8. /\ \A j \in 1 .. n : KeyOf(d.windows[j]) \in DOMAIN d.by_key /\ d.by_key[KeyOf(d.windows[j])] = j
      /\ \A k \in DOMAIN d.by_key : d.by_key[k] \in 1 .. n /\ KeyOf(d.windows[d.by_key[k]]) = k
      /\ \A j, k \in 1 .. n : d.windows[j].talk = d.windows[k].talk => j = k
  BY DEF Orderly, KeysAreRight
<1> HIDE DEF To, n
<1>9. \A j \in 1 .. n - 1 : KeyOf(s[j]) \in left /\ map[KeyOf(s[j])] = j
  <2> SUFFICES ASSUME NEW j \in 1 .. n - 1 PROVE KeyOf(s[j]) \in left /\ map[KeyOf(s[j])] = j
    OBVIOUS
  <2> DEFINE k == To(j)
  <2>1. k \in 1 .. n /\ k # i /\ s[j] = d.windows[k] /\ (IF k > i THEN k - 1 ELSE k) = j
    BY <1>5, <1>6
  <2> HIDE DEF k
  <2>2. KeyOf(d.windows[k]) # KeyOf(d.windows[i])
    BY <1>1, <1>8, <2>1
  <2>3. KeyOf(d.windows[k]) \in left /\ d.by_key[KeyOf(d.windows[k])] = k
    BY <1>8, <2>1, <2>2
  <2>4. map[KeyOf(d.windows[k])] = IF k > i THEN k - 1 ELSE k
    BY <2>3
  <2> HIDE DEF map, left
  <2> QED
    BY <2>1, <2>3, <2>4
<1>10. \A k \in left : map[k] \in 1 .. n - 1 /\ KeyOf(s[map[k]]) = k
  <2> SUFFICES ASSUME NEW k \in left PROVE map[k] \in 1 .. n - 1 /\ KeyOf(s[map[k]]) = k
    OBVIOUS
  <2> DEFINE m == d.by_key[k]
  <2>1. m \in 1 .. n /\ KeyOf(d.windows[m]) = k /\ m # i
    BY <1>8
  <2>2. map[k] = IF m > i THEN m - 1 ELSE m
    OBVIOUS
  <2> HIDE DEF m, map, left
  <2>3. map[k] \in 1 .. n - 1 /\ To(map[k]) = m
    BY <1>7, <2>1, <2>2
  <2> QED
    BY <1>6, <2>1, <2>3
<1>11. \A j, k \in 1 .. n - 1 : s[j].talk = s[k].talk => j = k
  <2> SUFFICES ASSUME NEW j \in 1 .. n - 1, NEW k \in 1 .. n - 1, s[j].talk = s[k].talk PROVE j = k
    OBVIOUS
  <2>1. To(j) = To(k)
    BY <1>5, <1>6, <1>8
  <2> QED
    BY <1>5, <2>1
<1>12. DOMAIN map = left
  OBVIOUS
<1> HIDE DEF map, left
<1>13. Desk(r) /\ Count(r) = n - 1 /\ r.windows = s /\ r.by_key = map /\ r.current = c
  BY <1>4 DEF Desk, Count
<1> HIDE DEF r
<1>14. Orderly(r)
  BY <1>3, <1>9, <1>10, <1>11, <1>12, <1>13 DEF Orderly, KeysAreRight
<1> DEFINE e == MarkRead(r, c)
<1>15. Changes(r, e, c, s[c].lines, FALSE)
  BY <1>3, <1>13, <1>14, MarkReadIs
<1> HIDE DEF e
<1>16. \A j \in 1 .. n - 1 : e.windows[j].talk = s[j].talk /\ e.windows[j].lines = s[j].lines
                          /\ (j # c => e.windows[j].unread = s[j].unread)
  BY <1>13, <1>15 DEF Changes
<1>17. /\ Orderly(e) /\ Count(e) = n - 1 /\ e.current = c /\ ~ e.windows[c].unread
  BY <1>13, <1>15 DEF Changes
<1>18. \A j \in 1 .. n - 1 : Same(d, To(j), e, j) /\ (j # c => e.windows[j].unread = d.windows[To(j)].unread)
  BY <1>6, <1>16 DEF Same
<1>19. Closes(d, e, i)
  BY <1>5, <1>17, <1>18 DEF Closes, To, c, n
<1> QED
  BY <1>2, <1>19 DEF e

\* Another window becomes the current one, and is marked read.
Goes(d, e, i) ==
    /\ Orderly(e) /\ Count(e) = Count(d) /\ e.current = i /\ ~ e.windows[i].unread
    /\ \A j \in 1 .. Count(d) : Same(d, j, e, j) /\ (j # i => e.windows[j].unread = d.windows[j].unread)

LEMMA GoesIs ==
    ASSUME NEW d, Orderly(d), NEW i \in 1 .. Count(d)
    PROVE  Goes(d, MarkRead([d EXCEPT !.current = i], i), i)
<1> DEFINE r == [d EXCEPT !.current = i]
           e == MarkRead(r, i)
<1>1. d = [windows |-> d.windows, by_key |-> d.by_key, current |-> d.current]
  BY DEF Orderly, Desk
<1>2. r = [windows |-> d.windows, by_key |-> d.by_key, current |-> i]
  BY <1>1
<1> HIDE DEF r
<1>3. Desk(r) /\ Count(r) = Count(d) /\ r.windows = d.windows /\ r.by_key = d.by_key /\ r.current = i
  BY <1>2 DEF Desk, Count, Orderly
<1>4. Orderly(r)
  BY <1>3 DEF Orderly, KeysAreRight
<1>5. Changes(r, e, i, d.windows[i].lines, FALSE)
  BY <1>3, <1>4, MarkReadIs
<1> HIDE DEF e
<1>6. Goes(d, e, i)
  BY <1>3, <1>5 DEF Changes, Goes, Same
<1> QED
  BY <1>6 DEF e, r

-----------------------------------------------------------------------------
(* What the windows show: of the rows rs, when the messages h were handled, s *)
(* seen, p passed over and c cleared.                                         *)

Shows(d, i) == Range(d.windows[i].lines)

\* x was sent to the talk, if it was heard or posted.
Meant(x, talk) == x \in Carried => ShownIn(Packet[x]) = talk

\* x may stand in a window of the talk: one that was heard or posted is stored, in
\* the talk if it was not sent to it; any other is stored in no other talk.
Right(rs, x, talk) ==
    /\ x \notin Carried => \A j \in 1 .. Len(rs) : rs[j].msg = x => rs[j].talk = talk
    /\ x \in Carried => \E j \in 1 .. Len(rs) : rs[j].msg = x /\ (rs[j].talk = talk \/ Meant(x, talk))

TalkRight(d, rs) == \A i \in 1 .. Count(d) : \A x \in Shows(d, i) : Right(rs, x, d.windows[i].talk)

\* What was handled is in a window it was sent to, or was seen.
Kept(d, h, s) ==
    \A m \in h : m \in s \/ \E i \in 1 .. Count(d) : m \in Shows(d, i) /\ Meant(m, d.windows[i].talk)

\* It is stored where it was not sent to.
Astray(rs, x) == \E j \in 1 .. Len(rs) : rs[j].msg = x /\ ~ Meant(x, rs[j].talk)

\* A window of a talk on one device has all of it that was handled, but what is astray.
Complete(d, rs, h, c) ==
    \A i \in 1 .. Count(d) :
        OfOne(rs, d.windows[i].talk) =>
            \A j \in 1 .. Len(rs) : rs[j].talk = d.windows[i].talk /\ rs[j].msg \in h
                                    => rs[j].msg \in Shows(d, i) \cup c \/ Astray(rs, rs[j].msg)

Marked(d, h, s, p) ==
    \A i \in 1 .. Count(d) : \A m \in Shows(d, i) :
        m \in h /\ Meant(m, d.windows[i].talk) => m \in s \/ m \in p \/ d.windows[i].unread

\* The current window is seen.
Seen(d, s) == ~ d.windows[d.current].unread /\ Shows(d, d.current) \subseteq s

Fine(d, rs, h, s, p, c) ==
    TalkRight(d, rs) /\ Kept(d, h, s) /\ Complete(d, rs, h, c) /\ Marked(d, h, s, p) /\ Seen(d, s)

\* Fine, but that the current window was not seen yet.
Hidden(d, rs, h, s, p, c) ==
    TalkRight(d, rs) /\ Kept(d, h, s) /\ Complete(d, rs, h, c) /\ Marked(d, h, s, p)

\* The same window as in d, but for marks of unread lines.
Keeps(d, e) ==
    /\ Orderly(e) /\ Count(e) = Count(d) /\ e.current = d.current
    /\ \A j \in 1 .. Count(d) : Same(d, j, e, j) /\ (d.windows[j].unread => e.windows[j].unread)
    /\ ~ e.windows[e.current].unread

LEMMA KeepsFine ==
    ASSUME NEW d, NEW e, NEW rs, NEW h, NEW s, NEW p, NEW c, Fine(d, rs, h, s, p, c), Orderly(d), Keeps(d, e)
    PROVE  Fine(e, rs, h, s, p, c)
<1>1. /\ Count(e) = Count(d) /\ e.current = d.current /\ d.current \in 1 .. Count(d)
      /\ \A j \in 1 .. Count(d) : Shows(e, j) = Shows(d, j) /\ e.windows[j].talk = d.windows[j].talk
                                  /\ (d.windows[j].unread => e.windows[j].unread)
      /\ ~ e.windows[e.current].unread
  BY DEF Keeps, Same, Shows, Orderly
<1>2. TalkRight(e, rs)
  BY <1>1 DEF Fine, TalkRight
<1>3. Kept(e, h, s)
  BY <1>1 DEF Fine, Kept
<1>4. Complete(e, rs, h, c)
  BY <1>1 DEF Fine, Complete
<1>5. Marked(e, h, s, p) /\ Seen(e, s)
  BY <1>1 DEF Fine, Marked, Seen
<1> QED
  BY <1>2, <1>3, <1>4, <1>5 DEF Fine

\* More is seen, or passed over, or cleared.
LEMMA MoreFine ==
    ASSUME NEW d, NEW rs, NEW h, NEW s, NEW p, NEW c, Fine(d, rs, h, s, p, c),
           NEW s2, NEW p2, NEW c2, s \subseteq s2, p \subseteq p2, c \subseteq c2
    PROVE  Fine(d, rs, h, s2, p2, c2)
<1>1. TalkRight(d, rs) /\ Kept(d, h, s2) /\ Seen(d, s2)
  BY DEF Fine, Kept, Seen
<1>2. Complete(d, rs, h, c2)
  BY DEF Fine, Complete
<1>3. Marked(d, h, s2, p2)
  BY DEF Fine, Marked
<1> QED
  BY <1>1, <1>2, <1>3 DEF Fine

\* A message that was neither heard nor posted has one talk, one that was is stored
\* where it was sent to or answers another, and what was handled has a row.
RowsRight(rs, h) ==
    /\ rs \in Seq(Rows)
    /\ \A i, j \in 1 .. Len(rs) : rs[i].msg = rs[j].msg /\ rs[i].msg \notin Carried => rs[i].talk = rs[j].talk
    /\ \A j \in 1 .. Len(rs) : ~ Meant(rs[j].msg, rs[j].talk) => Packet[rs[j].msg].reply # NoMessage
    /\ \A m \in h : \E j \in 1 .. Len(rs) : rs[j].msg = m

\* A window that is opened anew reads what is stored of its talk.
LEMMA OpensHidden ==
    ASSUME NEW d, NEW e, NEW rs, NEW h, NEW s, NEW p, NEW c, Fine(d, rs, h, s, p, c), Orderly(d),
           RowsRight(rs, h), NEW i, NEW device, NEW talk, Opens(d, e, i, History(rs, device, talk), talk),
           NEW s2, s \subseteq s2
    PROVE  Hidden(e, rs, h, s2, p, c)
<1> DEFINE l == History(rs, device, talk)
<1>1. /\ \A x \in Range(l) : \E j \in 1 .. Len(rs) : rs[j].talk = talk /\ rs[j].msg = x
      /\ OfOne(rs, talk) => \A j \in 1 .. Len(rs) : rs[j].talk = talk => rs[j].msg \in Range(l)
  BY HistoryIs DEF RowsRight
<1> HIDE DEF l
<1>2. /\ e.current = d.current /\ d.current \in 1 .. Count(d) /\ i \in 1 .. Count(e)
      /\ e.windows[i].talk = talk /\ 1 .. Count(d) \subseteq 1 .. Count(e)
      /\ \A j \in 1 .. Count(e) : j # i => j \in 1 .. Count(d) /\ e.windows[j] = d.windows[j]
      /\ \A j, k \in 1 .. Count(e) : e.windows[j].talk = e.windows[k].talk => j = k
  BY DEF Opens, Orderly, KeysAreRight
<1>3. ASSUME NEW j \in 1 .. Count(e), j # i
      PROVE  j \in 1 .. Count(d) /\ Shows(e, j) = Shows(d, j) /\ e.windows[j].talk = d.windows[j].talk
             /\ e.windows[j].unread = d.windows[j].unread
  BY <1>2, <1>3 DEF Shows
<1>4. \/ /\ i \in 1 .. Count(d) /\ d.windows[i].talk = talk /\ Shows(e, i) = Shows(d, i)
         /\ e.windows[i].unread = d.windows[i].unread
      \/ Shows(e, i) = Range(l) /\ \A j \in 1 .. Count(d) : d.windows[j].talk = talk => Shows(d, j) = {}
  <2>1. CASE i \notin 1 .. Count(d)
    BY <2>1 DEF Opens, Shows, l
  <2>2. CASE i \in 1 .. Count(d)
    <3>1. d.windows[i].talk = talk /\ e.windows[i].unread = d.windows[i].unread
      BY <2>2 DEF Opens
    <3>2. CASE d.windows[i].lines # <<>>
      BY <2>2, <3>1, <3>2 DEF Opens, Shows
    <3>3. CASE d.windows[i].lines = <<>>
      <4>1. Shows(e, i) = Range(l)
        BY <2>2, <3>3 DEF Opens, Shows, l
      <4>2. Shows(d, i) = {}
        BY <3>3, EmptySeq DEF Shows, Range
      <4>3. \A j \in 1 .. Count(d) : d.windows[j].talk = talk => j = i
        BY <2>2, <3>1 DEF Orderly, KeysAreRight
      <4> QED
        BY <4>1, <4>2, <4>3
    <3> QED
      BY <3>2, <3>3
  <2> QED
    BY <2>1, <2>2
<1>5. TalkRight(e, rs)
  <2> SUFFICES ASSUME NEW j \in 1 .. Count(e), NEW x \in Shows(e, j)
               PROVE  Right(rs, x, e.windows[j].talk)
    BY DEF TalkRight
  <2>1. CASE j # i
    BY <1>3, <2>1 DEF Fine, TalkRight
  <2>2. CASE j = i
    <3>1. CASE i \in 1 .. Count(d) /\ d.windows[i].talk = talk /\ Shows(e, i) = Shows(d, i)
      BY <1>2, <2>2, <3>1 DEF Fine, TalkRight
    <3>2. CASE Shows(e, i) = Range(l)
      BY <1>1, <1>2, <2>2, <3>2 DEF RowsRight, Right
    <3> QED
      BY <1>4, <3>1, <3>2
  <2> QED
    BY <2>1, <2>2
<1>6. ASSUME NEW j \in 1 .. Count(d) PROVE Shows(d, j) \subseteq Shows(e, j)
  <2>1. CASE j # i
    BY <1>2, <1>3, <2>1
  <2>2. CASE j = i
    <3>1. CASE Shows(e, i) = Shows(d, i)
      BY <2>2, <3>1
    <3>2. CASE \A k \in 1 .. Count(d) : d.windows[k].talk = talk => Shows(d, k) = {}
      <4>1. d.windows[i].talk = talk
        BY <2>2 DEF Opens
      <4> QED
        BY <2>2, <3>2, <4>1
    <3> QED
      BY <1>4, <3>1, <3>2
  <2> QED
    BY <2>1, <2>2
<1>7. Kept(e, h, s2)
  <2>1. \A j \in 1 .. Count(d) : j \in 1 .. Count(e) /\ e.windows[j].talk = d.windows[j].talk
    <3>1. i \in 1 .. Count(d) => d.windows[i].talk = talk
      BY DEF Opens
    <3> QED
      BY <1>2, <3>1
  <2> QED
    BY <1>6, <2>1 DEF Fine, Kept
<1>8. Complete(e, rs, h, c)
  <2> SUFFICES ASSUME NEW j \in 1 .. Count(e), OfOne(rs, e.windows[j].talk),
                      NEW k \in 1 .. Len(rs), rs[k].talk = e.windows[j].talk, rs[k].msg \in h
               PROVE  rs[k].msg \in Shows(e, j) \cup c \/ Astray(rs, rs[k].msg)
    BY DEF Complete
  <2>1. CASE j # i
    BY <1>3, <2>1 DEF Fine, Complete
  <2>2. CASE j = i
    <3>1. CASE i \in 1 .. Count(d) /\ d.windows[i].talk = talk /\ Shows(e, i) = Shows(d, i)
      BY <1>2, <2>2, <3>1 DEF Fine, Complete
    <3>2. CASE Shows(e, i) = Range(l)
      BY <1>1, <1>2, <2>2, <3>2
    <3> QED
      BY <1>4, <3>1, <3>2
  <2> QED
    BY <2>1, <2>2
<1>9. Marked(e, h, s2, p)
  <2> SUFFICES ASSUME NEW j \in 1 .. Count(e), NEW m \in Shows(e, j), m \in h, Meant(m, e.windows[j].talk)
               PROVE  m \in s2 \/ m \in p \/ e.windows[j].unread
    BY DEF Marked
  <2>1. CASE j # i
    BY <1>3, <2>1 DEF Fine, Marked
  <2>2. CASE j = i
    <3>1. CASE i \in 1 .. Count(d) /\ d.windows[i].talk = talk /\ Shows(e, i) = Shows(d, i)
               /\ e.windows[i].unread = d.windows[i].unread
      BY <1>2, <2>2, <3>1 DEF Fine, Marked
    <3>2. CASE Shows(e, i) = Range(l) /\ \A k \in 1 .. Count(d) : d.windows[k].talk = talk => Shows(d, k) = {}
      <4>1. \E k \in 1 .. Len(rs) : rs[k].talk = talk /\ rs[k].msg = m
        BY <1>1, <2>2, <3>2
      <4>2. \A k \in 1 .. Count(d) : m \in Shows(d, k) /\ Meant(m, d.windows[k].talk) => d.windows[k].talk = talk
        <5>1. CASE m \in Carried
          BY <1>2, <2>2, <5>1 DEF Meant
        <5>2. CASE m \notin Carried
          BY <4>1, <5>2 DEF Fine, TalkRight, Right
        <5> QED
          BY <5>1, <5>2
      <4>3. \A k \in 1 .. Count(d) : ~ (m \in Shows(d, k) /\ Meant(m, d.windows[k].talk))
        BY <3>2, <4>2
      <4> QED
        BY <4>3 DEF Fine, Kept
    <3> QED
      BY <1>4, <3>1, <3>2
  <2> QED
    BY <2>1, <2>2
<1> QED
  BY <1>5, <1>7, <1>8, <1>9 DEF Hidden

LEMMA OpensFine ==
    ASSUME NEW d, NEW e, NEW rs, NEW h, NEW s, NEW p, NEW c, Fine(d, rs, h, s, p, c), Orderly(d),
           RowsRight(rs, h), NEW i, NEW device, NEW talk, Opens(d, e, i, History(rs, device, talk), talk),
           NEW s2, s \subseteq s2, Shows(e, e.current) \subseteq s2
    PROVE  Fine(e, rs, h, s2, p, c)
<1>1. ~ e.windows[e.current].unread
  <2>1. ~ d.windows[d.current].unread /\ e.current = d.current /\ d.current \in 1 .. Count(d)
    BY DEF Fine, Seen, Opens, Orderly
  <2>2. CASE d.current = i
    BY <2>1, <2>2 DEF Opens
  <2>3. CASE d.current # i
    BY <2>1, <2>3 DEF Opens
  <2> QED
    BY <2>2, <2>3
<1>2. Hidden(e, rs, h, s2, p, c)
  BY OpensHidden
<1> QED
  BY <1>1, <1>2 DEF Hidden, Fine, Seen

\* Window i gets the line x, and may be marked unread.
Adds(d, e, i, x) ==
    /\ Orderly(e) /\ Count(e) = Count(d) /\ e.current = d.current /\ i \in 1 .. Count(d)
    /\ e.windows[i].talk = d.windows[i].talk
    /\ \A y : y \in Shows(e, i) <=> y \in Shows(d, i) \/ y = x
    /\ d.windows[i].unread => e.windows[i].unread
    /\ ~ e.windows[e.current].unread
    /\ \A j \in 1 .. Count(d) : j # i => e.windows[j] = d.windows[j]

\* The line is a message of the window's talk, or of no talk; if it was handled
\* the window is marked.
LEMMA AddsFine ==
    ASSUME NEW d, NEW e, NEW rs, NEW h, NEW s, NEW p, NEW c, Fine(d, rs, h, s, p, c), Orderly(d),
           NEW i, NEW x, Adds(d, e, i, x),
           NEW h2, h \subseteq h2, h2 \subseteq h \cup {x}, RowsRight(rs, h2),
           Right(rs, x, d.windows[i].talk), Meant(x, d.windows[i].talk),
           NEW s2, s \subseteq s2, Shows(e, e.current) \subseteq s2,
           x \in h2 => i = d.current \/ e.windows[i].unread
    PROVE  Fine(e, rs, h2, s2, p, c)
<1>1. /\ e.current = d.current /\ Count(e) = Count(d) /\ i \in 1 .. Count(d)
      /\ \A j \in 1 .. Count(d) : e.windows[j].talk = d.windows[j].talk
      /\ \A j \in 1 .. Count(d) : d.windows[j].unread => e.windows[j].unread
      /\ \A j \in 1 .. Count(d) : j # i => Shows(e, j) = Shows(d, j)
      /\ \A y : y \in Shows(e, i) <=> y \in Shows(d, i) \/ y = x
      /\ \A j, k \in 1 .. Count(d) : d.windows[j].talk = d.windows[k].talk => j = k
  BY DEF Adds, Shows, Orderly, KeysAreRight
<1>2. TalkRight(e, rs)
  <2> SUFFICES ASSUME NEW j \in 1 .. Count(d), NEW y \in Shows(e, j)
               PROVE  Right(rs, y, e.windows[j].talk)
    BY <1>1 DEF TalkRight
  <2>1. CASE y \in Shows(d, j)
    BY <1>1, <2>1 DEF Fine, TalkRight
  <2>2. CASE y \notin Shows(d, j)
    <3>1. j = i /\ y = x
      BY <1>1, <2>2
    <3> QED
      BY <1>1, <3>1
  <2> QED
    BY <2>1, <2>2
<1>3. ASSUME NEW j \in 1 .. Count(d) PROVE Shows(d, j) \subseteq Shows(e, j)
  BY <1>1
<1>4. Kept(e, h2, s2)
  <2>1. \A m \in h2 : m \in h \/ m \in Shows(e, i)
    BY <1>1
  <2> QED
    BY <1>1, <1>3, <2>1 DEF Fine, Kept
<1>5. Complete(e, rs, h2, c)
  <2> SUFFICES ASSUME NEW j \in 1 .. Count(d), OfOne(rs, d.windows[j].talk),
                      NEW k \in 1 .. Len(rs), rs[k].talk = d.windows[j].talk, rs[k].msg \in h2
               PROVE  rs[k].msg \in Shows(e, j) \cup c \/ Astray(rs, rs[k].msg)
    BY <1>1 DEF Complete
  <2>1. CASE rs[k].msg \in h
    BY <1>3, <2>1 DEF Fine, Complete
  <2>2. CASE rs[k].msg = x
    <3>1. CASE j = i
      BY <1>1, <2>2, <3>1
    <3>2. CASE j # i
      <4>1. rs[k].talk # d.windows[i].talk
        BY <1>1, <3>2
      <4>2. x \in Carried
        BY <2>2, <4>1 DEF Right
      <4>3. ~ Meant(x, rs[k].talk)
        BY <4>1, <4>2 DEF Meant
      <4> QED
        BY <2>2, <4>3 DEF Astray
    <3> QED
      BY <3>1, <3>2
  <2> QED
    BY <2>1, <2>2
<1>6. Marked(e, h2, s2, p)
  <2> SUFFICES ASSUME NEW j \in 1 .. Count(d), NEW m \in Shows(e, j), m \in h2, Meant(m, d.windows[j].talk)
               PROVE  m \in s2 \/ m \in p \/ e.windows[j].unread
    BY <1>1 DEF Marked
  <2>1. CASE m \in h /\ m \in Shows(d, j)
    BY <1>1, <2>1 DEF Fine, Marked
  <2>2. CASE m = x
    <3>1. PICK k \in 1 .. Len(rs) : rs[k].msg = x
      BY <2>2 DEF RowsRight
    <3>2. d.windows[i].talk = d.windows[j].talk
      <4>1. CASE x \in Carried
        BY <2>2, <4>1 DEF Meant
      <4>2. CASE x \notin Carried
        BY <1>1, <1>2, <2>2, <3>1, <4>2 DEF TalkRight, Right
      <4> QED
        BY <4>1, <4>2
    <3>3. j = i
      BY <1>1, <3>2
    <3>4. CASE i = d.current
      BY <1>1, <3>3, <3>4
    <3> QED
      BY <2>2, <3>3, <3>4
  <2>3. m \in h \/ m = x
    OBVIOUS
  <2>4. m \in Shows(d, j) \/ m = x
    BY <1>1
  <2> QED
    BY <2>1, <2>2, <2>3, <2>4
<1>7. Seen(e, s2)
  BY DEF Adds, Seen
<1> QED
  BY <1>2, <1>4, <1>5, <1>6, <1>7 DEF Fine

\* A row is stored, of a message that was heard or posted or that is new.
LEMMA RowFine ==
    ASSUME NEW d, NEW rs, NEW h, NEW s, NEW p, NEW c, Fine(d, rs, h, s, p, c), RowsRight(rs, h),
           NEW r \in Rows,
           r.msg \notin Carried => r.msg \notin h /\ \A i \in 1 .. Count(d) : r.msg \notin Shows(d, i)
    PROVE  Fine(d, Append(rs, r), h, s, p, c)
<1> DEFINE rs2 == Append(rs, r)
           n == Len(rs)
<1>1. n \in Nat /\ Len(rs2) = n + 1 /\ rs2[n + 1] = r /\ \A i \in 1 .. n : rs2[i] = rs[i]
  BY AppendedIs, LenProperties DEF RowsRight
<1>2. \A i : i \in 1 .. n + 1 <=> i \in 1 .. n \/ i = n + 1
  BY <1>1
<1> HIDE DEF rs2
<1>3. TalkRight(d, rs2)
  <2> SUFFICES ASSUME NEW i \in 1 .. Count(d), NEW x \in Shows(d, i)
               PROVE  Right(rs2, x, d.windows[i].talk)
    BY DEF TalkRight
  <2>1. Right(rs, x, d.windows[i].talk)
    BY DEF Fine, TalkRight
  <2>2. x \notin Carried => \A j \in 1 .. n : rs[j].msg = x => rs[j].talk = d.windows[i].talk
    BY <2>1 DEF Right
  <2>3. x \in Carried => \E j \in 1 .. n : rs[j].msg = x /\ (rs[j].talk = d.windows[i].talk
                                                            \/ Meant(x, d.windows[i].talk))
    BY <2>1 DEF Right
  <2> HIDE DEF n
  <2>4. CASE x \in Carried
    BY <1>1, <1>2, <2>3, <2>4 DEF Right
  <2>5. CASE x \notin Carried
    <3>1. x # r.msg
      BY <2>5
    <3> QED
      BY <1>1, <1>2, <2>2, <2>5, <3>1 DEF Right
  <2> QED
    BY <2>4, <2>5
<1>4. \A x : Astray(rs, x) => Astray(rs2, x)
  <2> SUFFICES ASSUME NEW x, NEW j \in 1 .. n, rs[j].msg = x, ~ Meant(x, rs[j].talk) PROVE Astray(rs2, x)
    BY DEF Astray
  <2>1. j \in 1 .. Len(rs2) /\ rs2[j] = rs[j]
    <3> HIDE DEF n
    <3> QED
      BY <1>1, <1>2
  <2> QED
    BY <2>1 DEF Astray
<1>5. ASSUME NEW i \in 1 .. Count(d), OfOne(rs2, d.windows[i].talk),
             NEW j \in 1 .. Len(rs2), rs2[j].talk = d.windows[i].talk, rs2[j].msg \in h
      PROVE  rs2[j].msg \in Shows(d, i) \cup c \/ Astray(rs2, rs2[j].msg)
  <2>1. OfOne(rs, d.windows[i].talk)
    <3> HIDE DEF n
    <3>1. \A k, m \in 1 .. n : rs[k].talk = d.windows[i].talk /\ rs[m].talk = d.windows[i].talk
                               => rs[k].device = rs[m].device
      BY <1>1, <1>2, <1>5 DEF OfOne
    <3> QED
      BY <3>1 DEF OfOne, n
  <2>2. \/ \E k \in 1 .. n : rs[k].msg = rs2[j].msg /\ rs[k].talk = rs2[j].talk
        \/ Astray(rs2, rs2[j].msg)
    <3>1. CASE j \in 1 .. n
      BY <1>1, <3>1
    <3>2. CASE j = n + 1
      <4>1. rs2[j] = r /\ r.msg \in h
        BY <1>1, <1>5, <3>2
      <4>2. r.msg \in Carried
        BY <4>1
      <4>3. PICK k \in 1 .. n : rs[k].msg = r.msg
        BY <4>1 DEF RowsRight
      <4>4. CASE ~ Meant(r.msg, r.talk)
        BY <4>1, <4>4 DEF Astray
      <4>5. CASE ~ Meant(r.msg, rs[k].talk)
        <5>1. Astray(rs, r.msg)
          BY <4>3, <4>5 DEF Astray
        <5> QED
          BY <1>4, <4>1, <5>1
      <4>6. CASE Meant(r.msg, r.talk) /\ Meant(r.msg, rs[k].talk)
        BY <4>1, <4>2, <4>3, <4>6 DEF Meant
      <4> QED
        BY <4>4, <4>5, <4>6
    <3>3. j \in 1 .. n \/ j = n + 1
      <4> HIDE DEF n
      <4> QED
        BY <1>1, <1>2
    <3> QED
      BY <3>1, <3>2, <3>3
  <2>3. CASE Astray(rs2, rs2[j].msg)
    BY <2>3
  <2>4. CASE \E k \in 1 .. n : rs[k].msg = rs2[j].msg /\ rs[k].talk = rs2[j].talk
    <3>1. rs2[j].msg \in Shows(d, i) \cup c \/ Astray(rs, rs2[j].msg)
      BY <1>5, <2>1, <2>4 DEF Fine, Complete
    <3> QED
      BY <1>4, <3>1
  <2> QED
    BY <2>2, <2>3, <2>4
<1>6. Complete(d, rs2, h, c)
  BY <1>5 DEF Complete
<1> QED
  BY <1>3, <1>6 DEF Fine, rs2

\* A window is closed, after it was seen.
LEMMA ClosesFine ==
    ASSUME NEW d, NEW e, NEW rs, NEW h, NEW s, NEW p, NEW c, Hidden(d, rs, h, s, p, c), Orderly(d),
           NEW i \in 1 .. Count(d), Closes(d, e, i),
           NEW s2, s \subseteq s2, Shows(d, i) \subseteq s2,
           NEW p2, p \subseteq p2, Shows(e, e.current) \subseteq s2 \cup p2
    PROVE  Hidden(e, rs, h, s2, p2, c)
<1> DEFINE To(j) == IF j < i THEN j ELSE j + 1
           n == Count(d)
<1>1. n \in Nat /\ i \in 1 .. n
  BY DeskIs DEF Orderly
<1>2. /\ Count(e) = n - 1 /\ ~ e.windows[e.current].unread
      /\ \A j \in 1 .. n - 1 : /\ To(j) \in 1 .. n /\ Shows(e, j) = Shows(d, To(j))
                               /\ e.windows[j].talk = d.windows[To(j)].talk
                               /\ (j # e.current => e.windows[j].unread = d.windows[To(j)].unread)
  BY DEF Closes, Same, Shows
<1>3. \A k \in 1 .. n : k # i => \E j \in 1 .. n - 1 : To(j) = k
  <2> SUFFICES ASSUME NEW k \in 1 .. n, k # i PROVE \E j \in 1 .. n - 1 : To(j) = k
    OBVIOUS
  <2>1. CASE k < i
    <3>1. k \in 1 .. n - 1 /\ To(k) = k
      BY <1>1, <2>1
    <3> QED
      BY <3>1
  <2>2. CASE ~ (k < i)
    <3>1. k - 1 \in 1 .. n - 1 /\ To(k - 1) = k
      BY <1>1, <2>2
    <3> QED
      BY <3>1
  <2> QED
    BY <2>1, <2>2
<1> HIDE DEF To
<1>4. TalkRight(e, rs)
  BY <1>2 DEF Hidden, TalkRight
<1>5. Kept(e, h, s2)
  <2> SUFFICES ASSUME NEW m \in h, m \notin s2
               PROVE  \E j \in 1 .. n - 1 : m \in Shows(e, j) /\ Meant(m, e.windows[j].talk)
    BY <1>2 DEF Kept
  <2>1. PICK k \in 1 .. n : m \in Shows(d, k) /\ Meant(m, d.windows[k].talk)
    BY DEF Hidden, Kept
  <2>2. k # i
    BY <2>1
  <2> QED
    BY <1>2, <1>3, <2>1, <2>2
<1>6. Complete(e, rs, h, c)
  BY <1>2 DEF Hidden, Complete
<1>7. Marked(e, h, s2, p2)
  <2> SUFFICES ASSUME NEW j \in 1 .. n - 1, NEW m \in Shows(e, j), m \in h, Meant(m, e.windows[j].talk)
               PROVE  m \in s2 \/ m \in p2 \/ e.windows[j].unread
    BY <1>2 DEF Marked
  <2>1. CASE j = e.current
    BY <2>1
  <2>2. CASE j # e.current
    BY <1>2, <2>2 DEF Hidden, Marked
  <2> QED
    BY <2>1, <2>2
<1> QED
  BY <1>4, <1>5, <1>6, <1>7 DEF Hidden

\* The user goes to a window and sees it.
LEMMA GoesFine ==
    ASSUME NEW d, NEW e, NEW rs, NEW h, NEW s, NEW p, NEW c, Orderly(d),
           Hidden(d, rs, h, s, p, c), NEW i \in 1 .. Count(d), Goes(d, e, i),
           NEW s2, s \subseteq s2, Shows(e, i) \subseteq s2
    PROVE  Fine(e, rs, h, s2, p, c)
<1>1. /\ Count(e) = Count(d) /\ e.current = i /\ ~ e.windows[i].unread
      /\ \A j \in 1 .. Count(d) : Shows(e, j) = Shows(d, j) /\ e.windows[j].talk = d.windows[j].talk
                                  /\ (j # i => e.windows[j].unread = d.windows[j].unread)
  BY DEF Goes, Same, Shows
<1>2. TalkRight(e, rs) /\ Seen(e, s2)
  BY <1>1 DEF Hidden, TalkRight, Seen
<1>3. Kept(e, h, s2)
  BY <1>1 DEF Hidden, Kept
<1>4. Complete(e, rs, h, c)
  BY <1>1 DEF Hidden, Complete
<1>5. Marked(e, h, s2, p)
  <2> SUFFICES ASSUME NEW j \in 1 .. Count(d), NEW m \in Shows(d, j), m \in h, Meant(m, d.windows[j].talk)
               PROVE  m \in s2 \/ m \in p \/ e.windows[j].unread
    BY <1>1 DEF Marked
  <2>1. CASE j = i
    BY <1>1, <2>1
  <2>2. CASE j # i
    BY <1>1, <2>2 DEF Hidden, Marked
  <2> QED
    BY <2>1, <2>2
<1> QED
  BY <1>2, <1>3, <1>4, <1>5 DEF Fine

-----------------------------------------------------------------------------
(* What the operators of the window manager do to it *)

LEMMA BumpKeeps ==
    ASSUME NEW d, Orderly(d), NEW i \in 1 .. Count(d), ~ d.windows[d.current].unread
    PROVE  Keeps(d, Bump(d, i))
<1>1. CASE i = d.current
  <2>1. Bump(d, i) = d
    BY <1>1 DEF Bump
  <2> QED
    BY <2>1 DEF Keeps, Same
<1>2. CASE i # d.current
  <2> DEFINE e == Bump(d, i)
  <2>1. Changes(d, e, i, d.windows[i].lines, TRUE)
    BY <1>2, BumpIs
  <2> HIDE DEF e
  <2>2. d.current \in 1 .. Count(d)
    BY DEF Orderly
  <2>3. Keeps(d, e)
    BY <1>2, <2>1, <2>2 DEF Changes, Keeps, Same
  <2> QED
    BY <2>3 DEF e
<1> QED
  BY <1>1, <1>2

LEMMA StatusKeeps ==
    ASSUME NEW d, Orderly(d), ~ d.windows[d.current].unread
    PROVE  Keeps(d, AppendStatus(d))
<1>1. 1 \in 1 .. Count(d)
  BY DeskIs DEF Orderly
<1> QED
  BY <1>1, BumpKeeps DEF AppendStatus

LEMMA MarkKeeps ==
    ASSUME NEW d, Orderly(d), ~ d.windows[d.current].unread
    PROVE  Keeps(d, MarkRead(d, d.current))
<1> DEFINE i == d.current
           e == MarkRead(d, i)
<1>1. i \in 1 .. Count(d)
  BY DEF Orderly
<1>2. Changes(d, e, i, d.windows[i].lines, FALSE)
  BY <1>1, MarkReadIs
<1> HIDE DEF e
<1>3. Keeps(d, e)
  BY <1>1, <1>2 DEF Changes, Keeps, Same
<1> QED
  BY <1>3 DEF e

LEMMA AddsIs ==
    ASSUME NEW d, Orderly(d), NEW i \in 1 .. Count(d), NEW x \in Texts, ~ d.windows[d.current].unread
    PROVE  /\ Adds(d, AddLine(d, i, x), i, x)
           /\ Adds(d, Bump(AddLine(d, i, x), i), i, x)
           /\ i # d.current => Bump(AddLine(d, i, x), i).windows[i].unread
<1> DEFINE a == AddLine(d, i, x)
           l == d.windows[i].lines
           g == Bump(a, i)
<1>1. l \in Seq(Texts) /\ Changes(d, a, i, Extended(l, x), d.windows[i].unread)
  BY AddLineIs
<1>2. \A y : y \in Range(Extended(l, x)) <=> y \in Range(l) \/ y = x
  <2> HIDE DEF l
  <2> QED
    BY <1>1, ExtendedIs
<1> HIDE DEF a
<1>3. \A y : y \in Shows(a, i) <=> y \in Shows(d, i) \/ y = x
  BY <1>1, <1>2 DEF Changes, Shows
<1>4. Adds(d, a, i, x)
  <2>1. d.current \in 1 .. Count(d) /\ ~ a.windows[d.current].unread
    BY <1>1 DEF Changes, Orderly
  <2> QED
    BY <1>1, <1>3, <2>1 DEF Changes, Adds
<1>5. CASE i = d.current
  <2>1. g = a
    BY <1>4, <1>5 DEF Adds, Bump
  <2> QED
    BY <1>4, <1>5, <2>1 DEF a, g
<1>6. CASE i # d.current
  <2>1. i # a.current /\ i \in 1 .. Count(a) /\ Orderly(a)
    BY <1>4, <1>6 DEF Adds
  <2>2. Changes(a, g, i, a.windows[i].lines, TRUE)
    BY <2>1, BumpIs
  <2> HIDE DEF g
  <2>3. \A y : y \in Shows(g, i) <=> y \in Shows(d, i) \/ y = x
    BY <1>3, <2>2 DEF Changes, Shows
  <2>4. d.current \in 1 .. Count(d) /\ ~ g.windows[d.current].unread
    BY <1>4, <1>6, <2>2 DEF Changes, Adds, Orderly
  <2>5. Adds(d, g, i, x)
    BY <1>4, <2>2, <2>3, <2>4 DEF Changes, Adds
  <2> QED
    BY <1>4, <2>2, <2>5 DEF Changes, a, g
<1> QED
  BY <1>5, <1>6

\* A window of the talk is opened.
LEMMA EnsureFine ==
    ASSUME NEW d, Orderly(d), NEW rs, NEW h, NEW s, NEW p, NEW c, Fine(d, rs, h, s, p, c), RowsRight(rs, h),
           NEW device \in Ids, NEW talk \in Titles, NEW named \in BOOLEAN,
           NEW s2, s \subseteq s2,
           Shows(Ensure(d, rs, device, talk, named), Ensure(d, rs, device, talk, named).current) \subseteq s2
    PROVE  /\ Orderly(Ensure(d, rs, device, talk, named))
           /\ Fine(Ensure(d, rs, device, talk, named), rs, h, s2, p, c)
<1> DEFINE e == Ensure(d, rs, device, talk, named)
           i == Where(e, device, talk)
<1>1. rs \in Seq(Rows)
  BY DEF RowsRight
<1>2. Opens(d, e, i, History(rs, device, talk), talk)
  BY <1>1, EnsureIs
<1>3. Shows(e, e.current) \subseteq s2
  OBVIOUS
<1> HIDE DEF e, i
<1>4. Fine(e, rs, h, s2, p, c)
  BY <1>2, <1>3, OpensFine
<1>5. Orderly(e)
  BY <1>2 DEF Opens
<1> QED
  BY <1>4, <1>5 DEF e

LEMMA AddsShows ==
    ASSUME NEW d, Orderly(d), NEW e, NEW i, NEW x, Adds(d, e, i, x)
    PROVE  Orderly(e) /\ e.current = d.current /\ Shows(d, d.current) \subseteq Shows(e, e.current)
<1>1. Orderly(e) /\ e.current = d.current /\ d.current \in 1 .. Count(d)
  BY DEF Adds, Orderly
<1>2. CASE d.current = i
  BY <1>1, <1>2 DEF Adds
<1>3. CASE d.current # i
  <2>1. e.windows[d.current] = d.windows[d.current]
    BY <1>1, <1>3 DEF Adds
  <2> QED
    BY <1>1, <2>1 DEF Shows
<1> QED
  BY <1>1, <1>2, <1>3

\* A window i of the talk is opened and gets a line; e is what that leads to.
LEMMA LineFine ==
    ASSUME NEW d, Orderly(d), NEW rs, NEW h, NEW s, NEW p, NEW c, Fine(d, rs, h, s, p, c), RowsRight(rs, h),
           NEW device, NEW talk, NEW o, NEW i, Opens(d, o, i, History(rs, device, talk), talk),
           NEW x, NEW g, Adds(o, g, i, x), NEW e, Keeps(g, e),
           NEW h2, h \subseteq h2, h2 \subseteq h \cup {x}, RowsRight(rs, h2),
           Right(rs, x, talk), Meant(x, talk),
           x \in h2 => i = d.current \/ g.windows[i].unread,
           NEW s2, s \subseteq s2, Shows(e, e.current) \subseteq s2
    PROVE  Orderly(e) /\ Fine(e, rs, h2, s2, p, c)
<1>1. Orderly(o) /\ o.current = d.current /\ o.windows[i].talk = talk
  BY DEF Opens
<1>2. Orderly(g) /\ g.current = o.current /\ Shows(o, o.current) \subseteq Shows(g, g.current)
  BY <1>1, AddsShows
<1>3. Orderly(e) /\ Shows(g, g.current) = Shows(e, e.current)
  BY <1>2 DEF Keeps, Same, Shows, Orderly
<1>4. Shows(o, o.current) \subseteq s2 /\ Shows(g, g.current) \subseteq s2
  BY <1>2, <1>3
<1>5. Fine(o, rs, h, s2, p, c)
  BY <1>4, OpensFine
<1>6. Fine(g, rs, h2, s2, p, c)
  <2>1. Right(rs, x, o.windows[i].talk) /\ Meant(x, o.windows[i].talk)
    BY <1>1
  <2>2. x \in h2 => i = o.current \/ g.windows[i].unread
    BY <1>1
  <2>3. s2 \subseteq s2
    OBVIOUS
  <2> QED
    BY <1>1, <1>4, <1>5, <2>1, <2>2, <2>3, AddsFine
<1>7. Fine(e, rs, h2, s2, p, c)
  BY <1>2, <1>6, KeepsFine
<1> QED
  BY <1>3, <1>7

LEMMA OpensCurrent ==
    ASSUME NEW d, Orderly(d), ~ d.windows[d.current].unread,
           NEW o, NEW i, NEW lines, NEW talk, Opens(d, o, i, lines, talk)
    PROVE  /\ Orderly(o) /\ i \in 1 .. Count(o) /\ o.current = d.current /\ d.current \in 1 .. Count(d)
           /\ ~ o.windows[o.current].unread
<1>1. Orderly(o) /\ i \in 1 .. Count(o) /\ o.current = d.current /\ d.current \in 1 .. Count(d)
  BY DEF Opens, Orderly
<1>2. CASE d.current = i
  BY <1>1, <1>2 DEF Opens
<1>3. CASE d.current # i
  BY <1>1, <1>3 DEF Opens
<1> QED
  BY <1>1, <1>2, <1>3

LEMMA TextFine ==
    ASSUME NEW d, Orderly(d), NEW rs, NEW h, NEW s, NEW p, NEW c, Fine(d, rs, h, s, p, c), RowsRight(rs, h),
           NEW v, v.device \in Ids, ShownIn(v) \in Titles, v.msg \in Texts,
           NEW k \in 1 .. Len(rs), rs[k].msg = v.msg,
           v.msg \in Carried \/ rs[k].talk = ShownIn(v), Meant(v.msg, ShownIn(v)),
           NEW s2, s \subseteq s2,
           Shows(AppendText(d, rs, v), AppendText(d, rs, v).current) \subseteq s2
    PROVE  /\ Orderly(AppendText(d, rs, v))
           /\ Fine(AppendText(d, rs, v), rs, h \cup {v.msg}, s2, p, c)
           /\ RowsRight(rs, h \cup {v.msg})
<1> DEFINE device == v.device
           talk == ShownIn(v)
           x == v.msg
           o == Ensure(d, rs, device, talk, FALSE)
           i == Where(o, device, talk)
           a == AddLine(o, i, x)
           g == Bump(a, i)
           e == AppendText(d, rs, v)
           h2 == h \cup {x}
<1>1. /\ rs \in Seq(Rows) /\ device \in Ids /\ talk \in Titles /\ x \in Texts
      /\ rs[k].msg = x /\ (x \in Carried \/ rs[k].talk = talk) /\ Meant(x, talk)
      /\ Shows(e, e.current) \subseteq s2
  BY DEF RowsRight
<1>2. e = IF i = d.current THEN MarkRead(a, i) ELSE AppendStatus(g)
  BY DEF AppendText
<1> HIDE DEF device, talk, x
<1>3. Opens(d, o, i, History(rs, device, talk), talk)
  BY <1>1, EnsureIs
<1> HIDE DEF o, i, e
<1>4. /\ Orderly(o) /\ i \in 1 .. Count(o) /\ o.current = d.current /\ d.current \in 1 .. Count(d)
      /\ ~ o.windows[o.current].unread
  BY <1>3, OpensCurrent DEF Fine, Seen
<1>5. Adds(o, a, i, x) /\ Adds(o, g, i, x) /\ (i # o.current => g.windows[i].unread)
  BY <1>1, <1>4, AddsIs
<1> HIDE DEF a
<1>6. /\ Orderly(a) /\ a.current = d.current /\ ~ a.windows[a.current].unread
      /\ Orderly(g) /\ g.current = d.current /\ ~ g.windows[g.current].unread
  BY <1>4, <1>5 DEF Adds
<1>7. Keeps(g, e)
  <2>1. CASE i = d.current
    <3>1. g = a /\ e = MarkRead(a, a.current)
      BY <1>2, <1>6, <2>1 DEF Bump
    <3> QED
      BY <1>6, <3>1, MarkKeeps
  <2>2. CASE i # d.current
    <3>1. e = AppendStatus(g)
      BY <1>2, <2>2
    <3> HIDE DEF g
    <3> QED
      BY <1>6, <3>1, StatusKeeps
  <2> QED
    BY <2>1, <2>2
<1> HIDE DEF g
<1>8. RowsRight(rs, h2)
  BY <1>1 DEF RowsRight
<1>9. Right(rs, x, talk) /\ Meant(x, talk)
  BY <1>1 DEF RowsRight, Right
<1>10. h \subseteq h2 /\ h2 \subseteq h \cup {x} /\ (i = d.current \/ g.windows[i].unread)
  BY <1>4, <1>5
<1> HIDE DEF h2
<1>11. Orderly(e) /\ Fine(e, rs, h2, s2, p, c)
  BY <1>1, <1>3, <1>5, <1>7, <1>8, <1>9, <1>10, LineFine
<1> QED
  BY <1>8, <1>11 DEF e, h2, x

LEMMA MetaFine ==
    ASSUME NEW d, Orderly(d), NEW rs, NEW h, NEW s, NEW p, NEW c, Fine(d, rs, h, s, p, c), RowsRight(rs, h),
           NEW device \in Ids, NEW talk \in Titles, NEW s2, s \subseteq s2,
           Shows(AppendMeta(d, rs, device, talk), AppendMeta(d, rs, device, talk).current) \subseteq s2
    PROVE  /\ Orderly(AppendMeta(d, rs, device, talk))
           /\ Fine(AppendMeta(d, rs, device, talk), rs, h, s2, p, c)
<1> DEFINE o == Ensure(d, rs, device, talk, FALSE)
           i == Where(o, device, talk)
           g == Bump(AddLine(o, i, Ack), i)
           e == AppendMeta(d, rs, device, talk)
<1>1. /\ rs \in Seq(Rows) /\ Shows(e, e.current) \subseteq s2 /\ e = g
      /\ \A j \in 1 .. Len(rs) : rs[j] \in Rows
  BY ElementOfSeq DEF RowsRight, AppendMeta
<1>2. Opens(d, o, i, History(rs, device, talk), talk)
  BY <1>1, EnsureIs
<1> HIDE DEF o, i, e
<1>3. /\ Orderly(o) /\ i \in 1 .. Count(o) /\ o.current = d.current /\ d.current \in 1 .. Count(d)
      /\ ~ o.windows[o.current].unread
  BY <1>2, OpensCurrent DEF Fine, Seen
<1>4. Ack \in Texts /\ Ack \notin Messages
  BY DeskAssumption DEF DeskAssumption, Texts
<1>5. Adds(o, g, i, Ack) /\ (i # o.current => g.windows[i].unread)
  BY <1>3, <1>4, AddsIs
<1> HIDE DEF g
<1>6. Keeps(g, e)
  BY <1>1, <1>5 DEF Adds, Keeps, Same
<1>7. Right(rs, Ack, talk) /\ Meant(Ack, talk)
  BY <1>1, <1>4 DEF Rows, Messages, Right, Meant
<1>8. h \subseteq h /\ h \subseteq h \cup {Ack} /\ (Ack \in h => i = d.current \/ g.windows[i].unread)
  BY <1>3, <1>5
<1>9. Orderly(e) /\ Fine(e, rs, h, s2, p, c)
  BY <1>1, <1>2, <1>5, <1>6, <1>7, <1>8, LineFine
<1> QED
  BY <1>9 DEF e

LEMMA OutgoingFine ==
    ASSUME NEW d, Orderly(d), NEW rs, NEW h, NEW s, NEW p, NEW c, Fine(d, rs, h, s, p, c), RowsRight(rs, h),
           NEW device \in Ids, NEW talk \in Titles, NEW m \in Typed,
           \A j \in 1 .. Len(rs) : rs[j].msg = m => rs[j].talk = talk, m \notin h,
           NEW s2, s \subseteq s2,
           Shows(AppendOutgoing(d, rs, device, talk, m), AppendOutgoing(d, rs, device, talk, m).current) \subseteq s2
    PROVE  /\ Orderly(AppendOutgoing(d, rs, device, talk, m))
           /\ Fine(AppendOutgoing(d, rs, device, talk, m), rs, h, s2, p, c)
<1> DEFINE o == Ensure(d, rs, device, talk, FALSE)
           i == Where(o, device, talk)
           g == AddLine(o, i, m)
           e == AppendOutgoing(d, rs, device, talk, m)
<1>1. /\ rs \in Seq(Rows) /\ Shows(e, e.current) \subseteq s2
      /\ e = IF i = d.current THEN MarkRead(g, i) ELSE g
  BY DEF RowsRight, AppendOutgoing
<1>2. Opens(d, o, i, History(rs, device, talk), talk)
  BY <1>1, EnsureIs
<1> HIDE DEF o, i, e
<1>3. /\ Orderly(o) /\ i \in 1 .. Count(o) /\ o.current = d.current /\ d.current \in 1 .. Count(d)
      /\ ~ o.windows[o.current].unread
  BY <1>2, OpensCurrent DEF Fine, Seen
<1>4. m \in Texts /\ m \notin Carried
  BY DeskAssumption DEF DeskAssumption, Texts, Messages
<1>5. Adds(o, g, i, m)
  BY <1>3, <1>4, AddsIs
<1> HIDE DEF g
<1>6. Orderly(g) /\ g.current = d.current /\ ~ g.windows[g.current].unread
  BY <1>3, <1>5 DEF Adds
<1>7. Keeps(g, e)
  <2>1. CASE i = d.current
    <3>1. e = MarkRead(g, g.current)
      BY <1>1, <1>6, <2>1
    <3> QED
      BY <1>6, <3>1, MarkKeeps
  <2>2. CASE i # d.current
    BY <1>1, <1>6, <2>2 DEF Keeps, Same
  <2> QED
    BY <2>1, <2>2
<1>8. h \subseteq h /\ h \subseteq h \cup {m} /\ Right(rs, m, talk) /\ Meant(m, talk)
  BY <1>4 DEF Right, Meant
<1>9. Orderly(e) /\ Fine(e, rs, h, s2, p, c)
  BY <1>1, <1>2, <1>4, <1>5, <1>7, <1>8, LineFine
<1> QED
  BY <1>9 DEF e

LEMMA SelectFine ==
    ASSUME NEW d, Orderly(d), NEW rs, NEW h, NEW s, NEW p, NEW c, Hidden(d, rs, h, s, p, c),
           NEW i \in 1 .. Count(d),
           NEW s2, s \subseteq s2, Shows(SelectWindow(d, i), SelectWindow(d, i).current) \subseteq s2,
           NEW p2, p \subseteq p2,
           i # d.current /\ d.current > 1 /\ Closable(d.windows[d.current]) => Shows(d, d.current - 1) \subseteq p2
    PROVE  Orderly(SelectWindow(d, i)) /\ Fine(SelectWindow(d, i), rs, h, s2, p2, c)
<1> DEFINE old == d.current
           closes == old # i /\ old > 1 /\ Closable(d.windows[old])
           rest == IF closes THEN CloseWindow(d, old) ELSE d
           at == IF closes /\ old < i THEN i - 1 ELSE i
           e == SelectWindow(d, i)
<1>1. e = IF at \notin 1 .. Count(rest) THEN rest ELSE MarkRead([rest EXCEPT !.current = at], at)
  BY DEF SelectWindow, Count
<1>2. Shows(e, e.current) \subseteq s2
  OBVIOUS
<1>3. Count(d) \in Nat /\ old \in 1 .. Count(d) /\ (closes => Shows(d, old - 1) \subseteq p2)
  BY DeskIs DEF Orderly
<1> HIDE DEF e
<1>4. /\ Orderly(rest) /\ at \in 1 .. Count(rest)
      /\ Hidden(rest, rs, h, s, p2, c)
  <2>1. CASE closes
    <3> DEFINE f == CloseWindow(d, old)
    <3>1. old \in 2 .. Count(d)
      BY <1>3, <2>1
    <3>2. Closes(d, f, old)
      BY <3>1, CloseWindowIs
    <3>3. rest = f /\ at = IF old < i THEN i - 1 ELSE i
      BY <2>1
    <3>4. d.windows[old].lines = <<>> /\ old # i
      BY <2>1 DEF Closable
    <3> HIDE DEF f, rest, at, closes, old
    <3>5. Count(f) = Count(d) - 1 /\ f.current = old - 1 /\ old - 1 \in 1 .. Count(f) /\ old - 1 < old
      BY <1>3, <3>1, <3>2 DEF Closes, old
    <3>6. Shows(f, f.current) = Shows(d, old - 1)
      BY <3>2, <3>5 DEF Closes, Same, Shows
    <3>7. Shows(d, old) = {}
      BY <3>4, EmptySeq DEF Shows, Range
    <3>8. Shows(d, old) \subseteq s /\ Shows(f, f.current) \subseteq s \cup p2 /\ s \subseteq s
      BY <1>3, <2>1, <3>6, <3>7
    <3>9. Hidden(f, rs, h, s, p2, c)
      BY <1>3, <3>2, <3>8, ClosesFine
    <3>10. at \in 1 .. Count(f)
      BY <1>3, <3>1, <3>3, <3>4, <3>5
    <3> QED
      BY <3>2, <3>3, <3>9, <3>10 DEF Closes
  <2>2. CASE ~ closes
    <3>1. rest = d /\ at = i
      BY <2>2
    <3>2. Marked(d, h, s, p2)
      BY DEF Hidden, Marked
    <3> HIDE DEF rest, at, closes, old
    <3> QED
      BY <3>1, <3>2 DEF Hidden
  <2> QED
    BY <2>1, <2>2
<1>5. e = MarkRead([rest EXCEPT !.current = at], at)
  BY <1>1, <1>4
<1> HIDE DEF rest, at, closes, old
<1>6. Goes(rest, e, at)
  BY <1>4, <1>5, GoesIs
<1>7. Orderly(e) /\ Shows(e, at) \subseteq s2
  BY <1>2, <1>6 DEF Goes
<1>8. Fine(e, rs, h, s2, p2, c)
  BY <1>4, <1>6, <1>7, GoesFine
<1> QED
  BY <1>7, <1>8 DEF e

LEMMA CloseFine ==
    ASSUME NEW d, Orderly(d), NEW rs, NEW h, NEW s, NEW p, NEW c, Fine(d, rs, h, s, p, c),
           NEW i \in 2 .. Count(d), NEW e, e = AppendStatus(CloseWindow(d, i)),
           NEW s2, s \subseteq s2, Shows(d, i) \subseteq s2, Shows(e, e.current) \subseteq s2
    PROVE  Orderly(e) /\ Fine(e, rs, h, s2, p, c)
<1> DEFINE f == CloseWindow(d, i)
<1>1. Closes(d, f, i) /\ e = AppendStatus(f) /\ i \in 1 .. Count(d)
  BY CloseWindowIs, DeskIs DEF Orderly
<1> HIDE DEF f
<1>2. Orderly(f) /\ ~ f.windows[f.current].unread
  BY <1>1 DEF Closes
<1>3. Keeps(f, e)
  BY <1>1, <1>2, StatusKeeps
<1>4. Orderly(e) /\ Shows(f, f.current) = Shows(e, e.current)
  BY <1>2, <1>3 DEF Keeps, Same, Shows, Orderly
<1>5. Shows(f, f.current) \subseteq s2 \cup p /\ p \subseteq p /\ Shows(f, f.current) \subseteq s2
  BY <1>4
<1>6. Hidden(f, rs, h, s2, p, c)
  <2>1. Hidden(d, rs, h, s, p, c)
    BY DEF Fine, Hidden
  <2> QED
    BY <1>1, <1>5, <2>1, ClosesFine
<1>7. Fine(f, rs, h, s2, p, c)
  BY <1>2, <1>5, <1>6 DEF Fine, Hidden, Seen
<1>8. Fine(e, rs, h, s2, p, c)
  BY <1>2, <1>3, <1>7, KeepsFine
<1> QED
  BY <1>4, <1>8

\* d with nothing in its current window.
Emptied(d) == WithLines(d, d.current, <<>>)

LEMMA ClearFine ==
    ASSUME NEW d, Orderly(d), NEW rs, NEW h, NEW s, NEW p, NEW c, Fine(d, rs, h, s, p, c),
           NEW e, e = Emptied(d),
           NEW s2, s \subseteq s2, NEW c2, c2 = c \cup Shows(d, d.current)
    PROVE  Orderly(e) /\ Fine(e, rs, h, s2, p, c2)
<1> DEFINE i == d.current
<1>1. i \in 1 .. Count(d) /\ <<>> \in Seq(Texts)
  BY EmptySeq DEF Orderly
<1>2. Changes(d, e, i, <<>>, d.windows[i].unread)
  BY <1>1, LinesChange DEF Emptied
<1>3. Shows(e, i) = {}
  BY <1>2, EmptySeq DEF Changes, Shows, Range
<1>4. /\ Count(e) = Count(d) /\ e.current = i
      /\ \A j \in 1 .. Count(d) : e.windows[j].talk = d.windows[j].talk /\ e.windows[j].unread = d.windows[j].unread
      /\ \A j \in 1 .. Count(d) : j # i => Shows(e, j) = Shows(d, j)
  BY <1>2 DEF Changes, Shows
<1>5. Shows(d, i) \subseteq s /\ ~ d.windows[i].unread
  BY DEF Fine, Seen
<1> HIDE DEF i
<1>6. ASSUME NEW j \in 1 .. Count(d) PROVE Shows(e, j) \subseteq Shows(d, j)
  BY <1>3, <1>4
<1>7. TalkRight(e, rs)
  BY <1>4, <1>6 DEF Fine, TalkRight
<1>8. Kept(e, h, s2)
  <2> SUFFICES ASSUME NEW m \in h, m \notin s2
               PROVE  \E j \in 1 .. Count(d) : m \in Shows(e, j) /\ Meant(m, d.windows[j].talk)
    BY <1>4 DEF Kept
  <2>1. PICK j \in 1 .. Count(d) : m \in Shows(d, j) /\ Meant(m, d.windows[j].talk)
    BY DEF Fine, Kept
  <2>2. j # i
    BY <1>5, <2>1
  <2> QED
    BY <1>4, <2>1, <2>2
<1>9. Complete(e, rs, h, c2)
  <2> SUFFICES ASSUME NEW j \in 1 .. Count(d), OfOne(rs, d.windows[j].talk),
                      NEW k \in 1 .. Len(rs), rs[k].talk = d.windows[j].talk, rs[k].msg \in h
               PROVE  rs[k].msg \in Shows(e, j) \cup c2 \/ Astray(rs, rs[k].msg)
    BY <1>4 DEF Complete
  <2>1. rs[k].msg \in Shows(d, j) \cup c \/ Astray(rs, rs[k].msg)
    BY DEF Fine, Complete
  <2>2. CASE j = i
    BY <2>1, <2>2 DEF i
  <2>3. CASE j # i
    BY <1>4, <2>1, <2>3
  <2> QED
    BY <2>2, <2>3
<1>10. Marked(e, h, s2, p)
  BY <1>4, <1>6 DEF Fine, Marked
<1>11. Seen(e, s2)
  BY <1>1, <1>3, <1>4, <1>5 DEF Seen
<1>12. Orderly(e)
  BY <1>2 DEF Changes
<1> QED
  BY <1>7, <1>8, <1>9, <1>10, <1>11, <1>12 DEF Fine

-----------------------------------------------------------------------------
(* The inductive invariant *)

\* An event that waits tells of something that is stored: a text of a row that is
\* kept where the event will be shown, if it was not heard or posted, and an
\* acknowledgement of some row.
Announced(v, rs) ==
    /\ v.type = "text" =>
          /\ Meant(v.msg, ShownIn(v))
          /\ \E j \in 1 .. Len(rs) : rs[j].msg = v.msg /\ (v.msg \in Carried \/ rs[j].talk = ShownIn(v))
    /\ v.type = "ack" => \E j \in 1 .. Len(rs) : rs[j].msg = v.msg

AnyEvent ==
    [type : {"connected"}, device : Devices]
    \cup [type : {"text"}, device : Devices, from : Peers \cup {Me}, to : Peers \cup {Me, Everyone},
          channel : Channels, msg : Messages]
    \cup [type : {"ack"}, device : Devices, msg : Messages]
    \cup [type : {"channel"}, device : Devices, channel : Channels, named : BOOLEAN]

EventsOf(rs) == {v \in AnyEvent : Announced(v, rs)}

Waiting ==
    /\ hand \in [Threads -> Seq(EventsOf(rows))]
    /\ queue \in Seq(EventsOf(rows)) /\ batch \in Seq(EventsOf(rows))

Simple ==
    /\ link \in [Devices -> {"off", "started", "registered"}]
    /\ tells \in [Threads -> BOOLEAN]
    /\ got \subseteq Threads \X (Messages \cup Channels)
    /\ wake \in BOOLEAN
    /\ opening \in [device : Devices \cup {NoDevice}, talks : SUBSET Talks, later : SUBSET Devices]
    /\ ui \in {"poll", "take", "handle"} /\ (ui = "handle" <=> batch # <<>>)
    /\ keys \in 0 .. MaxKeys
    /\ handled \subseteq Texts /\ seen \subseteq Texts /\ passed \subseteq Texts /\ cleared \subseteq Texts

StoredRight == RowsRight(rows, handled)

Screen == Orderly(wm) /\ Fine(wm, rows, handled, seen, passed, cleared)

IInv == Simple /\ Waiting /\ StoredRight /\ Screen

LEMMA ShowsTexts ==
    ASSUME NEW d, Orderly(d)
    PROVE  \A i \in 1 .. Count(d) : Shows(d, i) \subseteq Texts
<1> SUFFICES ASSUME NEW i \in 1 .. Count(d) PROVE Shows(d, i) \subseteq Texts
  OBVIOUS
<1>1. d.windows[i].lines \in Seq(Texts)
  BY DeskIs DEF Orderly, Windows
<1> DEFINE l == d.windows[i].lines
<1> HIDE DEF l
<1>2. l \in Seq(Texts)
  BY <1>1 DEF l
<1>3. Range(l) \subseteq Texts
  BY <1>2, RangeIs
<1> QED
  BY <1>3 DEF Shows, l

LEMMA MoreRows ==
    ASSUME NEW rs \in Seq(Rows), NEW r \in Rows
    PROVE  /\ EventsOf(rs) \subseteq EventsOf(Append(rs, r))
           /\ Seq(EventsOf(rs)) \subseteq Seq(EventsOf(Append(rs, r)))
<1> DEFINE rs2 == Append(rs, r)
           A == EventsOf(rs)
           B == EventsOf(rs2)
<1>1. Len(rs) \in Nat /\ Len(rs2) = Len(rs) + 1 /\ \A j \in 1 .. Len(rs) : rs2[j] = rs[j]
  BY AppendedIs, LenProperties
<1> HIDE DEF rs2
<1>2. \A j \in 1 .. Len(rs) : j \in 1 .. Len(rs2) /\ rs2[j] = rs[j]
  BY <1>1
<1>3. A \subseteq B
  BY <1>2 DEF EventsOf, Announced
<1> HIDE DEF A, B
<1>4. Seq(A) \subseteq Seq(B)
  BY <1>3, SeqMonotonic
<1> QED
  BY <1>3, <1>4 DEF A, B, rs2

\* A row is stored of a message that is new, or that was heard or posted and is
\* stored where it was sent to or answers another.
LEMMA RowsStayRight ==
    ASSUME NEW rs, NEW h, RowsRight(rs, h), NEW r \in Rows,
           r.msg \notin Carried => \A j \in 1 .. Len(rs) : rs[j].msg # r.msg,
           ~ Meant(r.msg, r.talk) => Packet[r.msg].reply # NoMessage
    PROVE  RowsRight(Append(rs, r), h)
<1> DEFINE rs2 == Append(rs, r)
           n == Len(rs)
<1>1. rs \in Seq(Rows)
  BY DEF RowsRight
<1>2. /\ n \in Nat /\ rs2 \in Seq(Rows) /\ Len(rs2) = n + 1 /\ rs2[n + 1] = r
      /\ \A i \in 1 .. n : rs2[i] = rs[i]
  BY <1>1, AppendedIs, LenProperties
<1>3. \A i : i \in 1 .. n + 1 <=> i \in 1 .. n \/ i = n + 1
  BY <1>2
<1>4. /\ \A i, j \in 1 .. n : rs[i].msg = rs[j].msg /\ rs[i].msg \notin Carried => rs[i].talk = rs[j].talk
      /\ \A j \in 1 .. n : ~ Meant(rs[j].msg, rs[j].talk) => Packet[rs[j].msg].reply # NoMessage
      /\ \A m \in h : \E j \in 1 .. n : rs[j].msg = m
      /\ r.msg \notin Carried => \A j \in 1 .. n : rs[j].msg # r.msg
  BY DEF RowsRight
<1> HIDE DEF rs2, n
<1>5. \A i, j \in 1 .. n + 1 : rs2[i].msg = rs2[j].msg /\ rs2[i].msg \notin Carried => rs2[i].talk = rs2[j].talk
  BY <1>2, <1>3, <1>4
<1>6. \A m \in h : \E j \in 1 .. n + 1 : rs2[j].msg = m
  BY <1>2, <1>3, <1>4
<1>7. \A j \in 1 .. n + 1 : ~ Meant(rs2[j].msg, rs2[j].talk) => Packet[rs2[j].msg].reply # NoMessage
  BY <1>2, <1>3, <1>4
<1>8. RowsRight(rs2, h)
  BY <1>2, <1>5, <1>6, <1>7 DEF RowsRight
<1> QED
  BY <1>8 DEF rs2

\* The last row of a message is one of its rows.
LEMMA LastIs ==
    ASSUME NEW n \in Nat, NEW S \in SUBSET (1 .. n), S # {}
    PROVE  (CHOOSE i \in S : \A j \in S : j <= i) \in S
<1> DEFINE Out == {k \in Nat : n - k \notin S}
<1>1. SUFFICES ASSUME \A i \in S : \E j \in S : ~ (j <= i) PROVE FALSE
  OBVIOUS
<1>2. ASSUME NEW k \in Nat, \A m \in Nat : m < k => m \in Out PROVE k \in Out
  <2>1. \A j \in S : n - j \in Nat /\ j = n - (n - j) /\ j \in Int
    OBVIOUS
  <2>2. \A j \in S : ~ (n - j < k)
    BY <1>2, <2>1
  <2>3. \A j \in S : j <= n - k
    BY <2>1, <2>2
  <2> QED
    BY <1>1, <2>3
<1>3. Out \in SUBSET Nat
  OBVIOUS
<1>4. \A k \in Nat : (\A m \in Nat : m < k => m \in Out) => k \in Out
  BY <1>2
<1> HIDE DEF Out
<1>5. Out = Nat
  BY <1>3, <1>4, AllNumbers
<1>6. \A j \in S : n - j \in Nat /\ n - (n - j) = j
  OBVIOUS
<1> QED
  BY <1>5, <1>6 DEF Out

LEMMA LastRowIs ==
    ASSUME NEW rs \in Seq(Rows), NEW m, RowsOf(rs, m) # {}
    PROVE  LastRow(rs, m) \in Rows /\ LastRow(rs, m).msg = m
<1> DEFINE of == RowsOf(rs, m)
           last == CHOOSE i \in of : \A j \in of : j <= i
<1>1. LastRow(rs, m) = rs[last]
  BY DEF LastRow
<1>2. of \in SUBSET (1 .. Len(rs)) /\ Len(rs) \in Nat
  BY LenProperties DEF RowsOf
<1>3. last \in of
  <2>1. of # {}
    OBVIOUS
  <2> HIDE DEF of
  <2> QED
    BY <1>2, <2>1, LastIs
<1> HIDE DEF last
<1>4. last \in 1 .. Len(rs) /\ rs[last].msg = m
  BY <1>2, <1>3 DEF RowsOf
<1>5. rs[last] \in Rows
  BY <1>4, ElementOfSeq
<1> QED
  BY <1>1, <1>4, <1>5

-----------------------------------------------------------------------------
(* Steps of the reading threads and of a web request *)

LEMMA ConnectStep == ASSUME IInv, NEW d \in Devices, Connect(d) PROVE IInv'
<1> DEFINE v == [type |-> "connected", device |-> d]
<1>1. v \in EventsOf(rows)
  BY DEF EventsOf, AnyEvent, Announced
<1> HIDE DEF v
<1>2. <<v>> \in Seq(EventsOf(rows))
  BY <1>1
<1>3. UNCHANGED <<tells, got, rows, queue, wake, screen>>
      /\ link' = [link EXCEPT ![d] = "started"] /\ hand' = [hand EXCEPT ![d] = <<v>>]
  BY DEF Connect, v
<1>4. Waiting'
  BY <1>2, <1>3 DEF IInv, Waiting, screen
<1>5. Simple'
  BY <1>3 DEF IInv, Simple, screen
<1> QED
  BY <1>3, <1>4, <1>5 DEF IInv, StoredRight, Screen, screen

LEMMA RegisterStep == ASSUME IInv, NEW d \in Devices, Register(d) PROVE IInv'
  BY DEF Register, IInv, Simple, Waiting, StoredRight, Screen, screen

\* Where a packet is sent to and where it is stored.
LEMMA PacketIs ==
    ASSUME NEW m \in Carried, NEW rs \in Seq(Rows)
    PROVE  /\ Packet[m].from \in Peers \cup {Me} /\ Packet[m].to \in Peers \cup {Me, Everyone}
           /\ Packet[m].channel \in Channels
           /\ ShownIn(Packet[m]) \in Talks /\ StoredIn(rs, Packet[m]) \in Talks
           /\ StoredIn(rs, Packet[m]) # ShownIn(Packet[m])
                 => \E j \in 1 .. Len(rs) : rs[j].msg = Packet[m].reply
<1> DEFINE q == Packet[m]
<1>1. /\ q \in [from : Peers \cup {Me}, to : Peers \cup {Me, Everyone}, channel : Channels,
               reply : Messages \cup {NoMessage}]
  BY DeskAssumption DEF DeskAssumption
<1> HIDE DEF q
<1>2. ShownIn(q) \in Talks
  BY <1>1 DEF ShownIn, Talks
<1>3. RowsOf(rs, q.reply) = {} => StoredIn(rs, q) = ShownIn(q)
  BY DEF StoredIn, ShownIn
<1>4. RowsOf(rs, q.reply) # {} => StoredIn(rs, q) \in Talks
  <2>1. ASSUME RowsOf(rs, q.reply) # {} PROVE LastRow(rs, q.reply) \in Rows
    BY <2>1, LastRowIs
  <2> QED
    BY <2>1 DEF StoredIn, Rows
<1>5. RowsOf(rs, q.reply) # {} => \E j \in 1 .. Len(rs) : rs[j].msg = q.reply
  BY LenProperties DEF RowsOf
<1> QED
  BY <1>1, <1>2, <1>3, <1>4, <1>5 DEF q

LEMMA CarryStep ==
    ASSUME IInv, NEW t \in Threads, NEW d \in Devices, NEW m \in Carried, Carry(t, d, m) PROVE IInv'
<1> DEFINE q == Packet[m]
           r == [device |-> d, talk |-> StoredIn(rows, q), msg |-> m]
           v == TextEvent(d, q.from, q.to, q.channel, m)
           rs == Append(rows, r)
<1>1. rows \in Seq(Rows) /\ RowsRight(rows, handled) /\ Orderly(wm)
      /\ Fine(wm, rows, handled, seen, passed, cleared)
  BY DEF IInv, StoredRight, RowsRight, Screen
<1>2. UNCHANGED <<link, tells, queue, wake, screen>> /\ rows' = rs /\ got' = got \cup {<<t, m>>}
      /\ hand' = [hand EXCEPT ![t] = <<v>>]
  BY DEF Carry
<1>3. /\ q.from \in Peers \cup {Me} /\ q.to \in Peers \cup {Me, Everyone} /\ q.channel \in Channels
      /\ ShownIn(q) \in Talks /\ StoredIn(rows, q) \in Talks
      /\ StoredIn(rows, q) # ShownIn(q) => \E j \in 1 .. Len(rows) : rows[j].msg = q.reply
  BY <1>1, PacketIs
<1>4. m \in Messages /\ (StoredIn(rows, q) # ShownIn(q) => q.reply # NoMessage)
  <2>1. ASSUME NEW j \in 1 .. Len(rows) PROVE rows[j].msg \in Messages
    <3>1. rows[j] \in Rows
      BY <1>1, ElementOfSeq
    <3> QED
      BY <3>1 DEF Rows
  <2>2. NoMessage \notin Messages
    BY DeskAssumption DEF DeskAssumption
  <2> QED
    BY <1>3, <2>1, <2>2 DEF Messages
<1>5. v.type = "text" /\ v.msg = m /\ ShownIn(v) = ShownIn(q) /\ v \in AnyEvent
  BY <1>3, <1>4 DEF TextEvent, ShownIn, AnyEvent
<1>6. r \in Rows /\ r.msg = m /\ r.talk = StoredIn(rows, q)
  BY <1>3, <1>4 DEF Rows
<1>7. Meant(m, ShownIn(q)) /\ (~ Meant(r.msg, r.talk) => q.reply # NoMessage)
  BY <1>4, <1>6 DEF Meant, q
<1> HIDE DEF r, v
<1>8. /\ Len(rows) \in Nat /\ Len(rs) = Len(rows) + 1 /\ rs[Len(rows) + 1] = r
      /\ \A j \in 1 .. Len(rows) : rs[j] = rows[j]
  BY <1>1, <1>6, AppendedIs, LenProperties
<1>9. \A j : j \in 1 .. Len(rs) <=> j \in 1 .. Len(rows) \/ j = Len(rows) + 1
  BY <1>8
<1>10. RowsRight(rs, handled)
  <2>1. ~ Meant(r.msg, r.talk) => Packet[r.msg].reply # NoMessage
    BY <1>6, <1>7 DEF q
  <2> QED
    BY <1>1, <1>6, <2>1, RowsStayRight
<1>11. Fine(wm, rs, handled, seen, passed, cleared)
  BY <1>1, <1>6, RowFine
<1>12. v \in EventsOf(rs)
  <2>1. \E j \in 1 .. Len(rs) : rs[j].msg = v.msg
    BY <1>5, <1>6, <1>8, <1>9
  <2> QED
    BY <1>5, <1>7, <2>1 DEF EventsOf, Announced
<1>13. Seq(EventsOf(rows)) \subseteq Seq(EventsOf(rs))
  BY <1>1, <1>6, MoreRows
<1> HIDE DEF rs
<1>14. <<v>> \in Seq(EventsOf(rs))
  BY <1>12
<1>15. Waiting'
  BY <1>2, <1>13, <1>14 DEF IInv, Waiting, screen
<1>16. Simple'
  BY <1>2, <1>4 DEF IInv, Simple, screen
<1> QED
  BY <1>1, <1>2, <1>10, <1>11, <1>15, <1>16 DEF IInv, StoredRight, Screen, screen

LEMMA ReceiveStep ==
    ASSUME IInv, NEW d \in Devices, NEW m \in Hears[d] \cap Heard, Receive(d, m) PROVE IInv'
  BY CarryStep DEF Receive, Threads, Carried

LEMMA PostStep ==
    ASSUME IInv, NEW d \in Devices, NEW m \in Hears[d] \cap Posted, Post(d, m) PROVE IInv'
  BY CarryStep DEF Post, Threads, Carried

\* An event is made that nothing else changes.
LEMMA EventMade ==
    ASSUME IInv, NEW d \in Devices, NEW v \in EventsOf(rows), hand' = [hand EXCEPT ![d] = <<v>>],
           got' \subseteq Threads \X (Messages \cup Channels),
           UNCHANGED <<link, tells, rows, queue, wake, screen>>
    PROVE  IInv'
<1>1. <<v>> \in Seq(EventsOf(rows))
  OBVIOUS
<1>2. Waiting'
  BY <1>1 DEF IInv, Waiting, screen
<1>3. Simple'
  BY DEF IInv, Simple, screen
<1> QED
  BY <1>2, <1>3 DEF IInv, StoredRight, Screen, screen

LEMMA ReceiveAckStep == ASSUME IInv, NEW d \in Devices, NEW m \in Typed, ReceiveAck(d, m) PROVE IInv'
<1> DEFINE v == [type |-> "ack", device |-> d, msg |-> m]
<1>1. rows \in Seq(Rows)
  BY DEF IInv, StoredRight, RowsRight
<1>2. \E j \in 1 .. Len(rows) : rows[j].msg = m
  <2>1. \E r \in Range(rows) : r.msg = m
    BY DEF ReceiveAck
  <2> QED
    BY <1>1, <2>1, RangeIs
<1>3. v \in EventsOf(rows)
  BY <1>2 DEF EventsOf, AnyEvent, Announced, Messages
<1>4. /\ hand' = [hand EXCEPT ![d] = <<v>>] /\ got' = got \cup {<<d, m>>}
      /\ UNCHANGED <<link, tells, rows, queue, wake, screen>>
  BY DEF ReceiveAck
<1>5. got' \subseteq Threads \X (Messages \cup Channels)
  BY <1>4 DEF IInv, Simple, Threads, Messages
<1> HIDE DEF v
<1> QED
  BY <1>3, <1>4, <1>5, EventMade

LEMMA ReceiveChannelStep ==
    ASSUME IInv, NEW d \in Devices, NEW k \in Channels, ReceiveChannel(d, k) PROVE IInv'
<1>1. PICK named \in BOOLEAN :
         hand' = [hand EXCEPT ![d] = <<[type |-> "channel", device |-> d, channel |-> k, named |-> named]>>]
  BY DEF ReceiveChannel
<1> DEFINE v == [type |-> "channel", device |-> d, channel |-> k, named |-> named]
<1>2. v \in EventsOf(rows)
  BY DEF EventsOf, AnyEvent, Announced
<1>3. /\ hand' = [hand EXCEPT ![d] = <<v>>] /\ got' = got \cup {<<d, k>>}
      /\ UNCHANGED <<link, tells, rows, queue, wake, screen>>
  BY <1>1 DEF ReceiveChannel
<1>4. got' \subseteq Threads \X (Messages \cup Channels)
  BY <1>3 DEF IInv, Simple, Threads
<1> HIDE DEF v
<1> QED
  BY <1>2, <1>3, <1>4, EventMade

LEMMA ReaderSteps == ASSUME IInv, NEW t \in Threads, ReaderStep(t) PROVE IInv'
<1>1. CASE Push(t)
  <2> DEFINE S == EventsOf(rows)
             q == hand[t]
  <2>1. q \in Seq(S) /\ q # <<>> /\ queue \in Seq(S)
    BY <1>1 DEF Push, IInv, Waiting
  <2>2. /\ queue' = Append(queue, Head(q)) /\ hand' = [hand EXCEPT ![t] = Tail(q)]
        /\ tells' = [tells EXCEPT ![t] = TRUE] /\ UNCHANGED <<link, got, rows, wake, screen>>
    BY <1>1 DEF Push
  <2>3. hand \in [Threads -> Seq(S)] /\ batch \in Seq(S)
    BY DEF IInv, Waiting
  <2> HIDE DEF q, S
  <2>4. Head(q) \in S /\ Tail(q) \in Seq(S)
    BY <2>1, HeadTailProperties
  <2>5. queue' \in Seq(S) /\ hand' \in [Threads -> Seq(S)]
    BY <2>1, <2>2, <2>3, <2>4
  <2>6. Waiting'
    BY <2>2, <2>3, <2>5 DEF Waiting, S, screen
  <2>7. Simple'
    BY <2>2 DEF IInv, Simple, screen
  <2> QED
    BY <2>2, <2>6, <2>7 DEF IInv, StoredRight, Screen, screen
<1>2. CASE Notify(t)
  BY <1>2 DEF Notify, IInv, Simple, Waiting, StoredRight, Screen, screen
<1> QED
  BY <1>1, <1>2 DEF ReaderStep

-----------------------------------------------------------------------------
(* Steps of the UI thread that leave the windows alone *)

LEMMA PollWakesStep == ASSUME IInv, PollWakes PROVE IInv'
  BY DEF PollWakes, feed, IInv, Simple, Waiting, StoredRight, Screen

LEMMA TakeStep == ASSUME IInv, Take PROVE IInv'
<1>1. <<>> \in Seq(EventsOf(rows))
  BY EmptySeq
<1>2. /\ batch' = queue /\ queue' = <<>> /\ ui' = IF queue = <<>> THEN "poll" ELSE "handle"
      /\ UNCHANGED <<feed, rows, wake, opening, wm, keys, handled, seen, passed, cleared>>
  BY DEF Take
<1>3. Waiting'
  BY <1>1, <1>2 DEF feed, IInv, Waiting
<1>4. Simple'
  BY <1>2 DEF feed, IInv, Simple
<1> QED
  BY <1>2, <1>3, <1>4 DEF IInv, StoredRight, Screen

LEMMA StoredTalksIs == ASSUME NEW rs \in Seq(Rows), NEW d PROVE StoredTalks(rs, d) \subseteq Talks
<1>1. Range(rs) \subseteq Rows
  BY RangeIs
<1> QED
  BY <1>1 DEF StoredTalks, Rows

LEMMA NextDeviceStep == ASSUME IInv, NEW d \in Devices, NextDevice(d) PROVE IInv'
<1>1. rows \in Seq(Rows)
  BY DEF IInv, StoredRight, RowsRight
<1>2. StoredTalks(rows, d) \subseteq Talks
  BY <1>1, StoredTalksIs
<1>3. /\ opening' = [device |-> d, talks |-> StoredTalks(rows, d), later |-> opening.later \ {d}]
      /\ UNCHANGED <<feed, rows, queue, wake, ui, batch, wm, keys, handled, seen, passed, cleared>>
  BY DEF NextDevice
<1>4. Simple'
  BY <1>2, <1>3 DEF feed, IInv, Simple
<1> QED
  BY <1>3, <1>4 DEF feed, IInv, Waiting, StoredRight, Screen

-----------------------------------------------------------------------------
(* Steps of the UI thread that handle an event *)

LEMMA BatchGoesOn ==
    ASSUME IInv, ui = "handle", batch' = Tail(batch),
           ui' = IF Tail(batch) = <<>> THEN "poll" ELSE "handle",
           UNCHANGED <<feed, rows, queue>>
    PROVE  /\ Waiting' /\ ui' \in {"poll", "take", "handle"} /\ (ui' = "handle" <=> batch' # <<>>)
           /\ Head(batch) \in AnyEvent /\ Announced(Head(batch), rows)
<1>1. batch # <<>> /\ batch \in Seq(EventsOf(rows))
  BY DEF IInv, Simple, Waiting
<1>2. Head(batch) \in EventsOf(rows) /\ Tail(batch) \in Seq(EventsOf(rows))
  BY <1>1, HeadTailProperties
<1>3. Waiting'
  BY <1>2 DEF IInv, Waiting, feed
<1> QED
  BY <1>2, <1>3 DEF EventsOf

\* What the user sees after a step.
LEMMA SeenTexts ==
    ASSUME IInv, NEW e, Orderly(e)
    PROVE  seen \cup Shows(e, e.current) \subseteq Texts
<1>1. Shows(e, e.current) \subseteq Texts
  BY ShowsTexts DEF Orderly
<1> QED
  BY <1>1 DEF IInv, Simple

LEMMA HandleTextStep == ASSUME IInv, HandleText PROVE IInv'
<1> DEFINE v == Head(batch)
           e == AppendText(wm, rows, v)
           s2 == seen \cup Shows(e, e.current)
<1>1. /\ ui = "handle" /\ v.type = "text" /\ wm' = e /\ seen' = s2 /\ batch' = Tail(batch)
      /\ ui' = IF Tail(batch) = <<>> THEN "poll" ELSE "handle"
      /\ handled' = handled \cup {v.msg}
      /\ UNCHANGED <<feed, rows, queue, wake, opening, keys, passed, cleared>>
  BY DEF HandleText, Handle, Show, InView, Shows
<1>2. /\ Waiting' /\ ui' \in {"poll", "take", "handle"} /\ (ui' = "handle" <=> batch' # <<>>)
      /\ v \in AnyEvent /\ Announced(v, rows)
  BY <1>1, BatchGoesOn
<1>3. /\ RowsRight(rows, handled) /\ Orderly(wm) /\ Fine(wm, rows, handled, seen, passed, cleared)
      /\ \A j \in 1 .. Len(rows) : rows[j] \in Rows
  BY ElementOfSeq DEF IInv, StoredRight, Screen, RowsRight
<1> HIDE DEF v
<1>4. v.device \in Ids /\ v.msg \in Messages
  BY <1>1, <1>2 DEF AnyEvent, Ids
<1>5. /\ Meant(v.msg, ShownIn(v))
      /\ \E k \in 1 .. Len(rows) : rows[k].msg = v.msg /\ (v.msg \in Carried \/ rows[k].talk = ShownIn(v))
  BY <1>1, <1>2 DEF Announced
<1>6. ShownIn(v) \in Titles /\ v.msg \in Texts
  BY <1>1, <1>2, <1>4 DEF AnyEvent, ShownIn, Talks, Titles, Texts
<1>7. /\ Orderly(e) /\ Fine(e, rows, handled \cup {v.msg}, s2, passed, cleared)
      /\ RowsRight(rows, handled \cup {v.msg})
  <2>1. seen \subseteq s2 /\ Shows(e, e.current) \subseteq s2
    OBVIOUS
  <2> HIDE DEF s2
  <2> QED
    BY <1>3, <1>4, <1>5, <1>6, <2>1, TextFine
<1> HIDE DEF e
<1>8. s2 \subseteq Texts
  BY <1>7, SeenTexts
<1> HIDE DEF s2
<1>9. Simple'
  BY <1>1, <1>2, <1>6, <1>8 DEF feed, IInv, Simple
<1>10. StoredRight'
  BY <1>1, <1>7 DEF IInv, StoredRight
<1>11. Screen'
  BY <1>1, <1>7 DEF Screen
<1> QED
  BY <1>2, <1>9, <1>10, <1>11 DEF IInv

\* The windows change to e, and the user sees it.
LEMMA WindowsChange ==
    ASSUME IInv, NEW e, Orderly(e), wm' = e, seen' = seen \cup Shows(e, e.current),
           Fine(e, rows, handled, seen \cup Shows(e, e.current), passed, cleared),
           Waiting', ui' \in {"poll", "take", "handle"}, ui' = "handle" <=> batch' # <<>>,
           opening' \in [device : Devices \cup {NoDevice}, talks : SUBSET Talks, later : SUBSET Devices],
           UNCHANGED <<feed, rows, wake, keys, handled, passed, cleared>>
    PROVE  IInv'
<1>1. seen' \subseteq Texts
  BY SeenTexts
<1>2. Simple'
  BY <1>1 DEF feed, IInv, Simple
<1>3. StoredRight' /\ Screen'
  BY DEF IInv, StoredRight, Screen
<1> QED
  BY <1>2, <1>3 DEF IInv

LEMMA Ready ==
    ASSUME IInv
    PROVE  /\ RowsRight(rows, handled) /\ Orderly(wm) /\ Fine(wm, rows, handled, seen, passed, cleared)
           /\ ~ wm.windows[wm.current].unread
           /\ rows \in Seq(Rows) /\ \A j \in 1 .. Len(rows) : rows[j] \in Rows
  BY ElementOfSeq DEF IInv, StoredRight, Screen, RowsRight, Fine, Seen

LEMMA HandleConnectedStep == ASSUME IInv, HandleConnected PROVE IInv'
<1> DEFINE v == Head(batch)
           id == NodeListDevice(Known, v.device)
           talk == <<"nodelist", Primary>>
           d == AppendStatus(wm)
           e == Ensure(d, rows, id, talk, TRUE)
           s2 == seen \cup Shows(e, e.current)
<1>1. /\ ui = "handle" /\ v.type = "connected" /\ wm' = e /\ seen' = s2 /\ batch' = Tail(batch)
      /\ ui' = IF Tail(batch) = <<>> THEN "poll" ELSE "handle"
      /\ opening' = [device |-> v.device, talks |-> StoredTalks(rows, v.device), later |-> {}]
      /\ UNCHANGED <<feed, rows, queue, wake, keys, handled, passed, cleared>>
  BY DEF HandleConnected, Handle, Show, InView, Shows
<1>2. /\ Waiting' /\ ui' \in {"poll", "take", "handle"} /\ (ui' = "handle" <=> batch' # <<>>)
      /\ v \in AnyEvent
  BY <1>1, BatchGoesOn
<1> HIDE DEF v
<1>3. v.device \in Devices
  BY <1>2 DEF AnyEvent
<1>4. id \in Ids /\ talk \in Titles
  BY <1>3 DEF NodeListDevice, Ids, Titles
<1> HIDE DEF id, talk
<1>5. Keeps(wm, d)
  BY Ready, StatusKeeps
<1> HIDE DEF d
<1>6. Orderly(d) /\ Fine(d, rows, handled, seen, passed, cleared)
  BY <1>5, Ready, KeepsFine DEF Keeps
<1>7. Orderly(e) /\ Fine(e, rows, handled, s2, passed, cleared)
  <2>1. seen \subseteq s2 /\ Shows(e, e.current) \subseteq s2
    OBVIOUS
  <2> HIDE DEF s2
  <2> QED
    BY <1>4, <1>6, <2>1, Ready, EnsureFine
<1> HIDE DEF e
<1>8. StoredTalks(rows, v.device) \subseteq Talks
  BY Ready, StoredTalksIs
<1>9. opening' \in [device : Devices \cup {NoDevice}, talks : SUBSET Talks, later : SUBSET Devices]
  BY <1>1, <1>3, <1>8
<1> QED
  BY <1>1, <1>2, <1>7, <1>9, WindowsChange

LEMMA OpenStoredStep == ASSUME IInv, NEW t \in Talks, OpenStored(t) PROVE IInv'
<1> DEFINE id == opening.device
           e == Ensure(wm, rows, id, t, t[2] = Primary)
           s2 == seen \cup Shows(e, e.current)
<1>1. /\ wm' = e /\ seen' = s2 /\ opening' = [opening EXCEPT !.talks = @ \ {t}]
      /\ UNCHANGED <<feed, rows, queue, wake, ui, batch, keys, handled, passed, cleared>>
  BY DEF OpenStored, Show, InView, Shows
<1>2. id \in Ids /\ t \in Titles /\ (t[2] = Primary) \in BOOLEAN
  BY DEF IInv, Simple, Ids, Titles
<1>3. Waiting' /\ opening' \in [device : Devices \cup {NoDevice}, talks : SUBSET Talks, later : SUBSET Devices]
  BY <1>1 DEF feed, IInv, Simple, Waiting
<1>4. ui' \in {"poll", "take", "handle"} /\ (ui' = "handle" <=> batch' # <<>>)
  BY <1>1 DEF IInv, Simple
<1> HIDE DEF id
<1>5. Orderly(e) /\ Fine(e, rows, handled, s2, passed, cleared)
  <2> DEFINE named == t[2] = Primary
  <2>1. seen \subseteq s2 /\ Shows(e, e.current) \subseteq s2 /\ named \in BOOLEAN
    BY <1>2
  <2> HIDE DEF s2, named
  <2> QED
    BY <1>2, <2>1, Ready, EnsureFine
<1> HIDE DEF e
<1> QED
  BY <1>1, <1>3, <1>4, <1>5, WindowsChange

LEMMA HandleChannelStep == ASSUME IInv, HandleChannel PROVE IInv'
<1> DEFINE v == Head(batch)
           talk == <<"channel", v.channel>>
           d == Ensure(wm, rows, v.device, talk, v.named)
           e == AppendStatus(d)
           s2 == seen \cup Shows(e, e.current)
<1>1. /\ ui = "handle" /\ v.type = "channel" /\ wm' = e /\ seen' = s2 /\ batch' = Tail(batch)
      /\ ui' = IF Tail(batch) = <<>> THEN "poll" ELSE "handle"
      /\ UNCHANGED <<feed, rows, queue, wake, opening, keys, handled, passed, cleared>>
  BY DEF HandleChannel, Handle, Show, InView, Shows
<1>2. /\ Waiting' /\ ui' \in {"poll", "take", "handle"} /\ (ui' = "handle" <=> batch' # <<>>)
      /\ v \in AnyEvent
  BY <1>1, BatchGoesOn
<1> HIDE DEF v
<1>3. v.device \in Ids /\ talk \in Titles /\ v.named \in BOOLEAN
  BY <1>1, <1>2 DEF AnyEvent, Ids, Titles, Talks
<1> HIDE DEF talk
<1>4. Opens(wm, d, Where(d, v.device, talk), History(rows, v.device, talk), talk)
  BY <1>3, Ready, EnsureIs
<1>5. Orderly(d) /\ ~ d.windows[d.current].unread
  <2> HIDE DEF d
  <2> QED
    BY <1>4, Ready, OpensCurrent
<1>6. Keeps(d, e)
  <2> HIDE DEF d
  <2> QED
    BY <1>5, StatusKeeps
<1> HIDE DEF e
<1>7. Orderly(e) /\ Shows(d, d.current) = Shows(e, e.current)
  <2> HIDE DEF d
  <2> QED
    BY <1>5, <1>6 DEF Keeps, Same, Shows, Orderly
<1>8. Fine(d, rows, handled, s2, passed, cleared)
  <2>1. seen \subseteq s2 /\ Shows(d, d.current) \subseteq s2
    BY <1>7
  <2> HIDE DEF s2
  <2> QED
    BY <1>3, <2>1, Ready, EnsureFine
<1> HIDE DEF d
<1>9. Fine(e, rows, handled, s2, passed, cleared)
  BY <1>5, <1>6, <1>8, KeepsFine
<1>10. opening' \in [device : Devices \cup {NoDevice}, talks : SUBSET Talks, later : SUBSET Devices]
  BY <1>1 DEF IInv, Simple
<1> QED
  BY <1>1, <1>2, <1>7, <1>9, <1>10, WindowsChange

LEMMA HandleAckStep == ASSUME IInv, HandleAck PROVE IInv'
<1> DEFINE v == Head(batch)
           row == LastRow(rows, v.msg)
           device == row.device
           talk == row.talk
           d == AppendMeta(wm, rows, device, talk)
           e == AppendStatus(d)
           s2 == seen \cup Shows(e, e.current)
<1>1. /\ ui = "handle" /\ v.type = "ack" /\ wm' = e /\ seen' = s2 /\ batch' = Tail(batch)
      /\ ui' = IF Tail(batch) = <<>> THEN "poll" ELSE "handle"
      /\ UNCHANGED <<feed, rows, queue, wake, opening, keys, handled, passed, cleared>>
  BY DEF HandleAck, Handle, Show, InView, Shows
<1>2. /\ Waiting' /\ ui' \in {"poll", "take", "handle"} /\ (ui' = "handle" <=> batch' # <<>>)
      /\ Announced(v, rows)
  BY <1>1, BatchGoesOn
<1> HIDE DEF v
<1>3. RowsOf(rows, v.msg) # {}
  BY <1>1, <1>2, Ready, LenProperties DEF Announced, RowsOf
<1>4. row \in Rows
  BY <1>3, Ready, LastRowIs
<1> HIDE DEF row
<1>5. device \in Ids /\ talk \in Titles
  BY <1>4 DEF Rows, Ids, Titles
<1> HIDE DEF device, talk
<1>6. Orderly(d) /\ Fine(d, rows, handled, seen \cup Shows(d, d.current), passed, cleared)
  <2> DEFINE s1 == seen \cup Shows(d, d.current)
  <2>1. seen \subseteq s1 /\ Shows(d, d.current) \subseteq s1
    OBVIOUS
  <2> HIDE DEF s1
  <2>2. Orderly(d) /\ Fine(d, rows, handled, s1, passed, cleared)
    BY <1>5, <2>1, Ready, MetaFine
  <2> QED
    BY <2>2 DEF s1
<1> HIDE DEF d
<1>7. Keeps(d, e)
  BY <1>6, StatusKeeps DEF Fine, Seen
<1> HIDE DEF e
<1>8. Orderly(e) /\ Shows(d, d.current) = Shows(e, e.current)
  BY <1>6, <1>7 DEF Keeps, Same, Shows, Orderly
<1>9. Fine(e, rows, handled, s2, passed, cleared)
  BY <1>6, <1>7, <1>8, KeepsFine
<1>10. opening' \in [device : Devices \cup {NoDevice}, talks : SUBSET Talks, later : SUBSET Devices]
  BY <1>1 DEF IInv, Simple
<1> QED
  BY <1>1, <1>2, <1>8, <1>9, <1>10, WindowsChange

-----------------------------------------------------------------------------
(* Steps of the UI thread on a command of the user *)

LEMMA CommandIs ==
    ASSUME IInv, Command, NEW e, Orderly(e), wm' = e,
           NEW s2, seen' = s2, s2 \subseteq Texts, NEW p2, passed' = p2, p2 \subseteq Texts,
           NEW c2, cleared' = c2, c2 \subseteq Texts, Fine(e, rows, handled, s2, p2, c2),
           UNCHANGED <<rows, queue, wake>>
    PROVE  IInv'
<1>1. keys \in 0 .. MaxKeys /\ MaxKeys \in Nat /\ keys < MaxKeys /\ keys' = keys + 1
  BY DeskAssumption DEF DeskAssumption, Command, IInv, Simple
<1>2. keys' \in 0 .. MaxKeys
  BY <1>1
<1>3. UNCHANGED <<feed, ui, batch, opening, handled>>
  BY DEF Command
<1>4. Simple'
  BY <1>2, <1>3 DEF feed, IInv, Simple
<1>5. Waiting'
  BY <1>3 DEF feed, IInv, Waiting
<1>6. StoredRight'
  BY <1>3 DEF IInv, StoredRight
<1>7. Screen'
  BY <1>3 DEF Screen
<1> QED
  BY <1>4, <1>5, <1>6, <1>7 DEF IInv

LEMMA EnsureHidden ==
    ASSUME NEW d, Orderly(d), NEW rs, NEW h, NEW s, NEW p, NEW c, Fine(d, rs, h, s, p, c), RowsRight(rs, h),
           NEW device \in Ids, NEW talk \in Titles, NEW named \in BOOLEAN
    PROVE  /\ Orderly(Ensure(d, rs, device, talk, named))
           /\ Hidden(Ensure(d, rs, device, talk, named), rs, h, s, p, c)
           /\ Where(Ensure(d, rs, device, talk, named), device, talk)
                 \in 1 .. Count(Ensure(d, rs, device, talk, named))
<1> DEFINE e == Ensure(d, rs, device, talk, named)
           i == Where(e, device, talk)
<1>1. rs \in Seq(Rows)
  BY DEF RowsRight
<1>2. Opens(d, e, i, History(rs, device, talk), talk)
  BY <1>1, EnsureIs
<1> HIDE DEF e, i
<1>3. Hidden(e, rs, h, s, p, c)
  <2>1. s \subseteq s
    OBVIOUS
  <2> QED
    BY <1>2, <2>1, OpensHidden
<1>4. Orderly(e) /\ i \in 1 .. Count(e)
  BY <1>2 DEF Opens
<1> QED
  BY <1>3, <1>4 DEF e, i

\* The windows the user passes over on his way to window i.
LEMMA PassedIs ==
    ASSUME IInv, NEW d, Orderly(d), NEW i, PassOver(d, i)
    PROVE  /\ passed \subseteq passed' /\ passed' \subseteq Texts
           /\ i # d.current /\ d.current > 1 /\ Closable(d.windows[d.current])
                 => Shows(d, d.current - 1) \subseteq passed'
<1>1. passed \subseteq Texts /\ d.current \in 1 .. Count(d) /\ Count(d) \in Nat
  BY DeskIs DEF IInv, Simple, Orderly
<1>2. CASE i # d.current /\ d.current > 1 /\ Closable(d.windows[d.current])
  <2>1. passed' = passed \cup Shows(d, d.current - 1)
    BY <1>2 DEF PassOver, Shows
  <2>2. d.current - 1 \in 1 .. Count(d)
    BY <1>1, <1>2
  <2>3. Shows(d, d.current - 1) \subseteq Texts
    BY <2>2, ShowsTexts
  <2> QED
    BY <1>1, <2>1, <2>3
<1>3. CASE ~ (i # d.current /\ d.current > 1 /\ Closable(d.windows[d.current]))
  <2>1. passed' = passed
    BY <1>3 DEF PassOver
  <2> QED
    BY <1>1, <1>3, <2>1
<1> QED
  BY <1>2, <1>3

\* The user goes to a window of d, which may hold one more than wm, and what
\* that reports goes to the status window or not.
LEMMA GoesTo ==
    ASSUME IInv, Command, NEW d, Orderly(d), Hidden(d, rows, handled, seen, passed, cleared),
           NEW i \in 1 .. Count(d), PassOver(d, i),
           NEW e, e = SelectWindow(d, i) \/ e = AppendStatus(SelectWindow(d, i)),
           wm' = e, seen' = seen \cup Shows(e, e.current),
           UNCHANGED <<rows, queue, wake, cleared>>
    PROVE  IInv'
<1> DEFINE f == SelectWindow(d, i)
           s1 == seen \cup Shows(f, f.current)
<1>1. PICK p2 : p2 = passed'
  OBVIOUS
<1>2. /\ passed \subseteq p2 /\ p2 \subseteq Texts
      /\ i # d.current /\ d.current > 1 /\ Closable(d.windows[d.current])
            => Shows(d, d.current - 1) \subseteq p2
  BY <1>1, PassedIs
<1>3. seen \subseteq s1 /\ Shows(f, f.current) \subseteq s1
  OBVIOUS
<1> HIDE DEF s1
<1>4. Orderly(f) /\ Fine(f, rows, handled, s1, p2, cleared)
  BY <1>2, <1>3, SelectFine
<1> HIDE DEF f
<1>5. Keeps(f, e) \/ f = e
  BY <1>4, StatusKeeps DEF f, Fine, Seen
<1>6. Orderly(e) /\ Fine(e, rows, handled, s1, p2, cleared) /\ Shows(f, f.current) = Shows(e, e.current)
  <2>1. CASE f = e
    BY <1>4, <2>1
  <2>2. CASE Keeps(f, e)
    <3>1. Fine(e, rows, handled, s1, p2, cleared)
      BY <1>4, <2>2, KeepsFine
    <3> QED
      BY <1>4, <2>2, <3>1 DEF Keeps, Same, Shows, Orderly
  <2> QED
    BY <1>5, <2>1, <2>2
<1>7. s1 = seen'
  BY <1>6 DEF s1
<1>8. s1 \subseteq Texts
  BY <1>6, <1>7, SeenTexts
<1>9. cleared \subseteq Texts /\ cleared' = cleared
  BY DEF IInv, Simple
<1> QED
  BY <1>1, <1>2, <1>6, <1>7, <1>8, <1>9, CommandIs

LEMMA SelectStep == ASSUME IInv, NEW i \in 1 .. Count(wm), Select(i) PROVE IInv'
<1> DEFINE e == SelectWindow(wm, i)
<1>1. /\ Command /\ PassOver(wm, i) /\ wm' = e /\ seen' = seen \cup Shows(e, e.current)
      /\ UNCHANGED <<rows, queue, wake, cleared>>
  BY DEF Select, Show, InView, Shows
<1>2. Orderly(wm) /\ Hidden(wm, rows, handled, seen, passed, cleared)
  BY Ready DEF Fine, Hidden
<1>3. e = SelectWindow(wm, i)
  OBVIOUS
<1> HIDE DEF e
<1> QED
  BY <1>1, <1>2, <1>3, GoesTo

LEMMA OpenStep == ASSUME IInv, NEW d \in Devices, NEW t \in Talks, Open(d, t) PROVE IInv'
<1> DEFINE o == Ensure(wm, rows, d, t, FALSE)
           i == Where(o, d, t)
           e == AppendStatus(SelectWindow(o, i))
<1>1. /\ Command /\ PassOver(o, i) /\ wm' = e /\ seen' = seen \cup Shows(e, e.current)
      /\ UNCHANGED <<rows, queue, wake, cleared>>
  BY DEF Open, Show, InView, Shows
<1>2. d \in Ids /\ t \in Titles
  BY DEF Ids, Titles
<1>3. Orderly(o) /\ Hidden(o, rows, handled, seen, passed, cleared) /\ i \in 1 .. Count(o)
  BY <1>2, Ready, EnsureHidden
<1>4. e = AppendStatus(SelectWindow(o, i))
  OBVIOUS
<1> HIDE DEF e, o, i
<1> QED
  BY <1>1, <1>3, <1>4, GoesTo

LEMMA QueryStep == ASSUME IInv, NEW d \in Devices, NEW p \in Peers, Query(d, p) PROVE IInv'
<1> DEFINE t == <<"dm", p>>
           o == Ensure(wm, rows, d, t, FALSE)
           i == Count(o)
           e == AppendStatus(SelectWindow(o, i))
<1>1. /\ Command /\ PassOver(o, i) /\ wm' = e /\ seen' = seen \cup Shows(e, e.current)
      /\ UNCHANGED <<rows, queue, wake, cleared>>
  BY DEF Query, Show, InView, Shows, Count
<1>2. d \in Ids /\ t \in Titles
  BY DEF Ids, Titles, Talks
<1> HIDE DEF t
<1>3. Orderly(o) /\ Hidden(o, rows, handled, seen, passed, cleared)
  BY <1>2, Ready, EnsureHidden
<1> HIDE DEF o
<1>4. i \in 1 .. Count(o)
  BY <1>3, DeskIs DEF Orderly
<1>5. e = AppendStatus(SelectWindow(o, i))
  OBVIOUS
<1> HIDE DEF e, i
<1> QED
  BY <1>1, <1>3, <1>4, <1>5, GoesTo

LEMMA CloseStep == ASSUME IInv, NEW i \in 1 .. Count(wm), Close(i) PROVE IInv'
<1> DEFINE e == AppendStatus(CloseWindow(wm, i))
           s2 == seen \cup Shows(wm, i) \cup Shows(e, e.current)
<1>1. /\ Command /\ i \in 2 .. Count(wm) /\ wm' = e /\ seen' = s2
      /\ UNCHANGED <<rows, queue, wake, passed, cleared>>
  BY DEF Close, InView, Shows, Count
<1>2. e = AppendStatus(CloseWindow(wm, i)) /\ seen \subseteq s2
      /\ Shows(wm, i) \subseteq s2 /\ Shows(e, e.current) \subseteq s2
  OBVIOUS
<1> HIDE DEF s2, e
<1>3. Orderly(e) /\ Fine(e, rows, handled, s2, passed, cleared)
  BY <1>1, <1>2, Ready, CloseFine
<1>4. Shows(wm, i) \subseteq Texts
  BY Ready, ShowsTexts
<1>5. seen \cup Shows(e, e.current) \subseteq Texts
  BY <1>3, SeenTexts
<1>6. s2 \subseteq Texts
  BY <1>4, <1>5 DEF s2
<1>7. /\ passed' = passed /\ passed \subseteq Texts /\ cleared' = cleared /\ cleared \subseteq Texts
      /\ UNCHANGED <<rows, queue, wake>>
  BY <1>1 DEF IInv, Simple
<1> QED
  BY <1>1, <1>3, <1>6, <1>7, CommandIs

LEMMA ClearStep == ASSUME IInv, Clear PROVE IInv'
<1> DEFINE e == Emptied(wm)
           s2 == seen \cup Shows(e, e.current)
           c2 == cleared \cup Shows(wm, wm.current)
<1>1. /\ Command /\ wm' = e /\ seen' = s2 /\ cleared' = c2
      /\ UNCHANGED <<rows, queue, wake, passed>>
  BY DEF Clear, Show, InView, Shows, Emptied, WithLines
<1>2. e = Emptied(wm) /\ seen \subseteq s2
      /\ c2 = cleared \cup Shows(wm, wm.current)
  OBVIOUS
<1>3. Orderly(e) => s2 \subseteq Texts
  <2> HIDE DEF e
  <2> QED
    BY SeenTexts
<1>4. c2 \subseteq Texts
  <2>1. Shows(wm, wm.current) \subseteq Texts
    BY Ready, ShowsTexts DEF Orderly
  <2> QED
    BY <2>1 DEF IInv, Simple
<1> HIDE DEF s2, e, c2
<1>5. Orderly(e) /\ Fine(e, rows, handled, s2, passed, c2)
  <2>1. RowsRight(rows, handled) /\ Orderly(wm) /\ Fine(wm, rows, handled, seen, passed, cleared)
    BY Ready
  <2> QED
    BY <1>2, <2>1, ClearFine
<1>6. passed' = passed /\ passed \subseteq Texts /\ UNCHANGED <<rows, queue, wake>>
  BY <1>1 DEF IInv, Simple
<1> QED
  BY <1>1, <1>3, <1>4, <1>5, <1>6, CommandIs

LEMMA UnsentIs ==
    ASSUME IInv, NEW m \in Unsent
    PROVE  /\ m \in Typed /\ m \notin Carried /\ m \in Messages /\ m \notin handled
           /\ \A j \in 1 .. Len(rows) : rows[j].msg # m
           /\ \A i \in 1 .. Count(wm) : m \notin Shows(wm, i)
<1>1. /\ m \in Typed /\ m \notin {r.msg : r \in Range(rows)}
      /\ \A i \in 1 .. Count(wm) : m \notin Shows(wm, i)
  BY DEF Unsent, Count, Shows
<1>2. m \notin Carried /\ m \in Messages
  BY <1>1, DeskAssumption DEF DeskAssumption, Messages
<1>3. \A j \in 1 .. Len(rows) : rows[j] \in Range(rows)
  BY Ready, RangeIs
<1>4. \A j \in 1 .. Len(rows) : rows[j].msg # m
  BY <1>1, <1>3
<1>5. m \notin handled
  BY <1>4, Ready DEF RowsRight
<1> QED
  BY <1>1, <1>2, <1>4, <1>5

\* What the transport takes is stored and announced.
SentRow(device, talk, m) == [device |-> device, talk |-> talk, msg |-> m]

SentEvent(device, talk, m) ==
    IF talk[1] = "channel" THEN TextEvent(device, Me, Everyone, talk[2], m)
    ELSE TextEvent(device, Me, talk[2], Primary, m)

LEMMA SentEventIs ==
    ASSUME NEW device \in Devices, NEW talk \in Talks, NEW m \in Messages
    PROVE  /\ SentEvent(device, talk, m) \in AnyEvent
           /\ SentEvent(device, talk, m).type = "text" /\ SentEvent(device, talk, m).msg = m
           /\ ShownIn(SentEvent(device, talk, m)) = talk
<1>1. Everyone \notin Peers \cup {Me} /\ Primary \in Channels
  BY DeskAssumption DEF DeskAssumption
<1>2. CASE talk \in {<<"channel", k>> : k \in Channels}
  <2>1. PICK k \in Channels : talk = <<"channel", k>>
    BY <1>2
  <2>2. SentEvent(device, talk, m) = TextEvent(device, Me, Everyone, k, m)
    BY <2>1 DEF SentEvent
  <2> QED
    BY <2>1, <2>2 DEF TextEvent, AnyEvent, ShownIn
<1>3. CASE talk \in {<<"dm", p>> : p \in Peers \cup {Me}}
  <2>1. PICK p \in Peers \cup {Me} : talk = <<"dm", p>>
    BY <1>3
  <2>2. SentEvent(device, talk, m) = TextEvent(device, Me, p, Primary, m)
    BY <2>1 DEF SentEvent
  <2> QED
    BY <1>1, <2>1, <2>2 DEF TextEvent, AnyEvent, ShownIn
<1> QED
  BY <1>2, <1>3 DEF Talks

\* The message goes out, or it does not; the rows are then right for its line.
SentRight(rs, talk, m) ==
    /\ RowsRight(rs, handled)
    /\ \A j \in 1 .. Len(rs) : rs[j].msg = m => rs[j].talk = talk
    /\ Fine(wm, rs, handled, seen, passed, cleared)

LEMMA SendIs ==
    ASSUME IInv, Command, NEW m \in Unsent, NEW device, NEW talk \in Talks, NEW taken \in BOOLEAN,
           Send(device, talk, m, taken)
    PROVE  SentRight(rows', talk, m) /\ Waiting' /\ wake' \in BOOLEAN
<1>1. /\ m \in Typed /\ m \notin Carried /\ m \in Messages /\ m \notin handled
      /\ \A j \in 1 .. Len(rows) : rows[j].msg # m
      /\ \A i \in 1 .. Count(wm) : m \notin Shows(wm, i)
  BY UnsentIs
<1>2. Waiting /\ wake \in BOOLEAN
  BY DEF IInv, StoredRight, Simple
<1>3. UNCHANGED <<hand, batch>>
  BY DEF Command, feed
<1>4. CASE device \in Devices /\ taken
  <2> DEFINE r == SentRow(device, talk, m)
             v == SentEvent(device, talk, m)
             rs == Append(rows, r)
  <2>1. rows' = rs /\ queue' = Append(queue, v) /\ wake' = TRUE
    BY <1>4 DEF Send, SentRow, SentEvent
  <2>2. r \in Rows /\ r.msg = m /\ r.talk = talk
    BY <1>1, <1>4 DEF SentRow, Rows
  <2>3. v \in AnyEvent /\ v.type = "text" /\ v.msg = m /\ ShownIn(v) = talk
    BY <1>1, <1>4, SentEventIs
  <2> HIDE DEF r, v
  <2>4. /\ Len(rows) \in Nat /\ Len(rs) = Len(rows) + 1 /\ rs[Len(rows) + 1] = r
        /\ \A j \in 1 .. Len(rows) : rs[j] = rows[j]
    BY <2>2, Ready, AppendedIs, LenProperties
  <2>5. Seq(EventsOf(rows)) \subseteq Seq(EventsOf(rs))
    BY <2>2, Ready, MoreRows
  <2>6. RowsRight(rs, handled)
    <3>1. Meant(r.msg, r.talk) /\ \A j \in 1 .. Len(rows) : rows[j].msg # r.msg
      BY <1>1, <2>2 DEF Meant
    <3> QED
      BY <2>2, <3>1, Ready, RowsStayRight
  <2>7. Fine(wm, rs, handled, seen, passed, cleared)
    BY <1>1, <2>2, Ready, RowFine
  <2> HIDE DEF rs
  <2>8. \A j : j \in 1 .. Len(rs) <=> j \in 1 .. Len(rows) \/ j = Len(rows) + 1
    BY <2>4
  <2>9. v \in EventsOf(rs)
    <3>1. \E j \in 1 .. Len(rs) : rs[j].msg = v.msg /\ rs[j].talk = ShownIn(v)
      BY <2>2, <2>3, <2>4, <2>8
    <3>2. Meant(v.msg, ShownIn(v))
      BY <1>1, <2>3 DEF Meant
    <3> QED
      BY <2>3, <3>1, <3>2 DEF EventsOf, Announced
  <2>10. \A j \in 1 .. Len(rs) : rs[j].msg = m => rs[j].talk = talk
    BY <1>1, <2>2, <2>4, <2>8
  <2>11. Waiting'
    <3>1. queue \in Seq(EventsOf(rs)) /\ batch \in Seq(EventsOf(rs)) /\ hand \in [Threads -> Seq(EventsOf(rs))]
      BY <1>2, <2>5 DEF Waiting
    <3>2. Append(queue, v) \in Seq(EventsOf(rs))
      BY <2>9, <3>1, AppendProperties
    <3> QED
      BY <1>3, <2>1, <3>1, <3>2 DEF Waiting
  <2> QED
    BY <2>1, <2>6, <2>7, <2>10, <2>11 DEF SentRight
<1>5. CASE ~ (device \in Devices /\ taken)
  <2>1. UNCHANGED <<rows, queue, wake>>
    BY <1>5 DEF Send
  <2>2. Waiting'
    BY <1>2, <1>3, <2>1 DEF Waiting
  <2>3. SentRight(rows, talk, m)
    BY <1>1, <1>2, Ready DEF SentRight
  <2> QED
    BY <1>2, <2>1, <2>2, <2>3
<1> QED
  BY <1>4, <1>5

\* The line of the message is shown in the window of its talk.
LEMMA OutgoingStep ==
    ASSUME IInv, Command, NEW m \in Unsent, NEW device \in Ids, NEW talk \in Talks, NEW taken \in BOOLEAN,
           Send(device, talk, m, taken), Show(AppendOutgoing(wm, rows', device, talk, m)),
           UNCHANGED <<passed, cleared>>
    PROVE  IInv'
<1>1. PICK rs : rs = rows'
  OBVIOUS
<1> DEFINE e == AppendOutgoing(wm, rs, device, talk, m)
           s2 == seen \cup Shows(e, e.current)
<1>2. wm' = e /\ seen' = s2
  BY <1>1 DEF Show, InView, Shows
<1>3. SentRight(rs, talk, m) /\ Waiting' /\ wake' \in BOOLEAN
  BY <1>1, SendIs
<1>4. m \in Typed /\ m \notin handled /\ talk \in Titles
  BY UnsentIs DEF Titles
<1>5. Orderly(e) /\ Fine(e, rs, handled, s2, passed, cleared)
  <2>1. seen \subseteq s2 /\ Shows(e, e.current) \subseteq s2
    OBVIOUS
  <2> HIDE DEF s2
  <2> QED
    BY <1>3, <1>4, <2>1, Ready, OutgoingFine DEF SentRight
<1> HIDE DEF e
<1>6. s2 \subseteq Texts
  BY <1>5, SeenTexts
<1> HIDE DEF s2
<1>7. keys' \in 0 .. MaxKeys
  <2>1. keys \in 0 .. MaxKeys /\ MaxKeys \in Nat /\ keys < MaxKeys /\ keys' = keys + 1
    BY DeskAssumption DEF DeskAssumption, Command, IInv, Simple
  <2> QED
    BY <2>1
<1>8. UNCHANGED <<feed, ui, batch, opening, handled>>
  BY DEF Command
<1>9. Simple'
  BY <1>2, <1>3, <1>6, <1>7, <1>8 DEF feed, IInv, Simple
<1>10. StoredRight' /\ Screen'
  BY <1>1, <1>2, <1>3, <1>5, <1>8 DEF SentRight, StoredRight, Screen
<1> QED
  BY <1>3, <1>9, <1>10 DEF IInv

LEMMA TypeStep == ASSUME IInv, NEW m \in Typed, Type(m) PROVE IInv'
<1> DEFINE w == wm.windows[wm.current]
<1>1. PICK taken \in BOOLEAN : /\ Send(w.device, w.talk, m, taken)
                               /\ Show(AppendOutgoing(wm, rows', w.device, w.talk, m))
  BY DEF Type
<1>2. Command /\ m \in Unsent /\ w.talk[1] \in {"channel", "dm"} /\ UNCHANGED <<passed, cleared>>
  BY DEF Type
<1>3. w \in Windows
  BY Ready, DeskIs DEF Orderly
<1>4. w.device \in Ids /\ w.talk \in Talks
  BY <1>2, <1>3 DEF Windows, Titles
<1> HIDE DEF w
<1> QED
  BY <1>1, <1>2, <1>4, OutgoingStep

LEMMA MessageStep ==
    ASSUME IInv, NEW d \in Devices, NEW p \in Peers, NEW m \in Typed, Message(d, p, m) PROVE IInv'
<1> DEFINE talk == <<"dm", p>>
<1>1. PICK taken \in BOOLEAN : /\ Send(d, talk, m, taken)
                               /\ Show(AppendOutgoing(wm, rows', d, talk, m))
  BY DEF Message
<1>2. Command /\ m \in Unsent /\ UNCHANGED <<passed, cleared>>
  BY DEF Message
<1>3. d \in Ids /\ talk \in Talks
  BY DEF Ids, Talks
<1> HIDE DEF talk
<1> QED
  BY <1>1, <1>2, <1>3, OutgoingStep

LEMMA KeySteps == ASSUME IInv, Keys PROVE IInv'
  BY SelectStep, CloseStep, ClearStep, OpenStep, QueryStep, TypeStep, MessageStep DEF Keys, Count

-----------------------------------------------------------------------------
(* The first state *)

LEMMA KnownAre == Known \subseteq Devices
<1>1. OldRows \in Seq(Rows)
  BY DeskAssumption DEF DeskAssumption
<1>2. Range(OldRows) \subseteq Rows
  BY <1>1, RangeIs
<1> QED
  BY <1>2 DEF Known, Rows

LEMMA OldRowsRight == RowsRight(OldRows, {})
<1>1. /\ OldRows \in Seq(Rows) /\ Old \cap Carried = {}
      /\ \A i \in DOMAIN OldRows : OldRows[i].msg \in Old
      /\ \A i, j \in DOMAIN OldRows : OldRows[i].msg = OldRows[j].msg => OldRows[i].talk = OldRows[j].talk
  BY DeskAssumption DEF DeskAssumption
<1>2. DOMAIN OldRows = 1 .. Len(OldRows)
  BY <1>1, LenProperties
<1> QED
  BY <1>1, <1>2 DEF RowsRight, Meant

LEMMA FirstWindow ==
    ASSUME NEW d, d = AddWindow([windows |-> <<>>, by_key |-> <<>>, current |-> 1],
                                NewWindow(NoDevice, <<"status", Primary>>, TRUE))
    PROVE  /\ Orderly(d) /\ Count(d) = 1 /\ d.current = 1
           /\ d.windows[1] = NewWindow(NoDevice, <<"status", Primary>>, TRUE)
<1> DEFINE z == [windows |-> <<>>, by_key |-> <<>>, current |-> 1]
           w == NewWindow(NoDevice, <<"status", Primary>>, TRUE)
<1>1. <<>> \in Seq(Windows) /\ <<>> \in Seq(Texts) /\ Len(<<>>) = 0 /\ DOMAIN <<>> = {}
  BY EmptySeq
<1>2. Desk(z) /\ Count(z) = 0 /\ z.by_key = <<>> /\ z.current = 1
  BY <1>1 DEF Desk, Count
<1>3. KeysAreRight(z)
  BY <1>1, <1>2 DEF KeysAreRight
<1>4. w \in Windows
  BY <1>1 DEF NewWindow, Windows, Ids, Titles
<1> HIDE DEF z, w
<1>5. z.current \in 1 .. Count(z) + 1 /\ \A j \in 1 .. Count(z) : z.windows[j].talk # w.talk
  BY <1>2
<1>6. /\ Orderly(AddWindow(z, w)) /\ Count(AddWindow(z, w)) = 1
      /\ AddWindow(z, w).current = 1 /\ AddWindow(z, w).windows[1] = w
  <2>1. /\ Orderly(AddWindow(z, w)) /\ Count(AddWindow(z, w)) = Count(z) + 1
        /\ AddWindow(z, w).current = z.current /\ AddWindow(z, w).windows[Count(z) + 1] = w
    BY <1>2, <1>3, <1>4, <1>5, AddWindowIs
  <2> QED
    BY <1>2, <2>1
<1>7. d = AddWindow(z, w)
  BY DEF z, w
<1> QED
  BY <1>6, <1>7 DEF w

LEMMA StartIs == Orderly(Start) /\ Fine(Start, OldRows, {}, {}, {}, {})
<1> DEFINE status == AddWindow([windows |-> <<>>, by_key |-> <<>>, current |-> 1],
                               NewWindow(NoDevice, <<"status", Primary>>, TRUE))
           talk == <<"nodelist", Primary>>
           id == IF Known = {} THEN NoDevice ELSE NodeListDevice(Known, CHOOSE d \in Known : TRUE)
           e == Ensure(status, OldRows, id, talk, TRUE)
<1>1. Start = e
  BY DEF Start
<1>2. id \in Ids
  BY KnownAre DEF NodeListDevice, Ids
<1>3. talk \in Titles /\ talk # <<"status", Primary>> /\ OldRows \in Seq(Rows)
  BY OldRowsRight DEF Titles, RowsRight
<1>4. /\ Orderly(status) /\ Count(status) = 1 /\ status.current = 1
      /\ status.windows[1].talk = <<"status", Primary>> /\ status.windows[1].lines = <<>>
      /\ ~ status.windows[1].unread
  <2>1. /\ Orderly(status) /\ Count(status) = 1 /\ status.current = 1
        /\ status.windows[1] = NewWindow(NoDevice, <<"status", Primary>>, TRUE)
    BY FirstWindow
  <2> HIDE DEF status
  <2> QED
    BY <2>1 DEF NewWindow
<1> HIDE DEF status, id, talk
<1>5. Opens(status, e, Where(e, id, talk), History(OldRows, id, talk), talk)
  BY <1>2, <1>3, <1>4, EnsureIs
<1>6. \A i \in 1 .. Count(status) : Shows(status, i) = {}
  BY <1>4, EmptySeq DEF Shows, Range
<1>7. Fine(status, OldRows, {}, {}, {}, {})
  BY <1>4, <1>6 DEF Fine, TalkRight, Kept, Complete, Marked, Seen
<1> HIDE DEF e
<1>8. e.windows[1] = status.windows[1] /\ e.current = 1
  <2> DEFINE i == Where(e, id, talk)
  <2>1. 1 \in 1 .. Count(status)
    BY <1>4
  <2> HIDE DEF i
  <2>2. e.current = 1 /\ 1 \in 1 .. Count(e) /\ (i = 1 => status.windows[1].talk = talk)
        /\ (1 # i => e.windows[1] = status.windows[1])
    BY <1>4, <1>5, <2>1 DEF Opens, i
  <2>3. i # 1
    BY <1>3, <1>4, <2>2
  <2> QED
    BY <2>2, <2>3
<1>9. Shows(e, e.current) \subseteq {}
  BY <1>4, <1>6, <1>8 DEF Shows
<1>10. Fine(e, OldRows, {}, {}, {}, {})
  BY <1>4, <1>5, <1>7, <1>9, OldRowsRight, OpensFine
<1> QED
  BY <1>1, <1>5, <1>10 DEF Opens

LEMMA InitInvariant == ASSUME Init PROVE IInv
<1>1. Linked \subseteq Devices /\ IsFiniteSet(Linked) /\ MaxKeys \in Nat
  BY DeskAssumption DEF DeskAssumption
<1>2. StoredTalks(OldRows, NoDevice) \subseteq Talks
  BY OldRowsRight, StoredTalksIs DEF RowsRight
<1>3. Known \subseteq Devices
  BY KnownAre
<1>4. opening \in [device : Devices \cup {NoDevice}, talks : SUBSET Talks, later : SUBSET Devices]
  BY <1>2, <1>3 DEF Init
<1>5. 0 \in 0 .. MaxKeys
  BY <1>1
<1>6. link \in [Devices -> {"off", "started", "registered"}]
  BY DEF Init
<1>7. Simple
  BY <1>4, <1>5, <1>6 DEF Init, Simple
<1>8. <<>> \in Seq(EventsOf(rows))
  BY EmptySeq
<1>9. queue \in Seq(EventsOf(rows))
  <2> DEFINE n == Cardinality(Linked)
  <2>1. n \in Nat
    BY <1>1, FS_CardinalityType
  <2>2. queue \in [1 .. n -> [type : {"connected"}, device : Linked]]
    BY DEF Init
  <2> HIDE DEF n
  <2>3. [type : {"connected"}, device : Linked] \subseteq EventsOf(rows)
    BY <1>1 DEF EventsOf, AnyEvent, Announced
  <2>4. queue \in [1 .. n -> EventsOf(rows)]
    BY <2>2, <2>3
  <2> QED
    BY <2>1, <2>4
<1>10. Waiting
  BY <1>8, <1>9 DEF Init, Waiting
<1>11. StoredRight
  BY OldRowsRight DEF Init, StoredRight
<1>12. Screen
  BY StartIs DEF Init, Screen
<1> QED
  BY <1>7, <1>10, <1>11, <1>12 DEF IInv

LEMMA StepInvariant == ASSUME IInv, [Next]_vars PROVE IInv'
<1>1. CASE (\E d \in Devices : Connect(d) \/ Register(d)) \/ \E t \in Threads : ReaderStep(t)
  BY <1>1, ConnectStep, RegisterStep, ReaderSteps
<1>2. CASE \/ \E d \in Devices : \E m \in Hears[d] \cap Heard : Receive(d, m)
           \/ \E d \in Devices : \E m \in Hears[d] \cap Posted : Post(d, m)
  BY <1>2, ReceiveStep, PostStep
<1>3. CASE \E d \in Devices, m \in Typed : ReceiveAck(d, m)
  BY <1>3, ReceiveAckStep
<1>4. CASE \E d \in Devices, k \in Channels : ReceiveChannel(d, k)
  BY <1>4, ReceiveChannelStep
<1>5. CASE Events
  BY <1>5, OpenStoredStep, NextDeviceStep, PollWakesStep, TakeStep, HandleTextStep, HandleConnectedStep,
     HandleChannelStep, HandleAckStep DEF Events, OpensStored
<1>6. CASE Keys
  BY <1>6, KeySteps
<1>7. CASE UNCHANGED vars
  BY <1>7 DEF vars, feed, screen, IInv, Simple, Waiting, StoredRight, Screen
<1> QED
  BY <1>1, <1>2, <1>3, <1>4, <1>5, <1>6, <1>7 DEF Next

LEMMA Invariance == Spec => []IInv
  BY InitInvariant, StepInvariant, PTL DEF Spec

-----------------------------------------------------------------------------
(* Theorems *)

\* The rows of a talk that name at most one device are those of one device.
LEMMA OneDevice ==
    ASSUME NEW rs \in Seq(Rows), NEW talk,
           NEW of, of = {r \in Range(rs) : r.talk = talk},
           Cardinality({r.device : r \in of}) <= 1
    PROVE  OfOne(rs, talk)
<1> DEFINE n == Len(rs)
           f == [j \in 1 .. n |-> rs[j].device]
           T == {rs[j].device : j \in 1 .. n}
           D == {r.device : r \in of}
<1>1. n \in Nat
  BY LenProperties
<1>2. \A x : x \in Range(rs) <=> \E j \in 1 .. n : rs[j] = x
  BY RangeIs
<1> HIDE DEF n
<1>3. IsFiniteSet(1 .. n)
  BY <1>1, FS_Interval
<1>4. f \in Surjection(1 .. n, T)
  BY DEF Surjection
<1>5. IsFiniteSet(T)
  <2> HIDE DEF f, T
  <2> QED
    BY <1>3, <1>4, FS_Surjection
<1>6. D \in SUBSET T
  BY <1>2
<1>7. Cardinality(D) <= 1
  OBVIOUS
<1>8. \A j \in 1 .. n : rs[j].talk = talk => rs[j].device \in D
  BY <1>2
<1> HIDE DEF f, T, D
<1>9. IsFiniteSet(D) /\ Cardinality(D) \in Nat
  BY <1>5, <1>6, FS_Subset, FS_CardinalityType
<1>10. ASSUME NEW a \in D, NEW b \in D, a # b PROVE FALSE
  <2>1. IsFiniteSet({a}) /\ Cardinality({a}) = 1
    BY FS_Singleton
  <2> DEFINE A == {a}
  <2>2. IsFiniteSet(A) /\ Cardinality(A) = 1 /\ A \in SUBSET D /\ b \notin A
    BY <1>10, <2>1
  <2> HIDE DEF A
  <2>3. A = D
    <3>1. Cardinality(A) <= Cardinality(D) /\ (Cardinality(D) = Cardinality(A) => D = A)
      BY <1>9, <2>2, FS_Subset
    <3>2. Cardinality(D) = Cardinality(A)
      BY <1>7, <1>9, <2>2, <3>1
    <3> QED
      BY <3>1, <3>2
  <2> QED
    BY <2>2, <2>3
<1>11. \A j, k \in 1 .. n : rs[j].talk = talk /\ rs[k].talk = talk => rs[j].device = rs[k].device
  BY <1>8, <1>10
<1> QED
  BY <1>11 DEF OfOne, n

LEMMA TypesAreRight == ASSUME IInv PROVE TypeOK
<1>1. wm.current \in 1 .. WindowCount /\ \A i \in 1 .. WindowCount : wm.windows[i] \in Windows
  BY Ready, DeskIs DEF Orderly, Count, WindowCount
<1> QED
  BY <1>1, Ready DEF IInv, Simple, TypeOK, Windows, Ids, Titles, Texts

\* Every variable of the windows, the queue and the threads keeps its type, for any
\* number of devices, messages and commands.
THEOREM TypesKept == Spec => []TypeOK
<1>1. IInv => TypeOK
  BY TypesAreRight
<1> QED
  BY <1>1, Invariance, PTL

\* by_key_ names each window under its own device and talk and nothing else, and a
\* conversation has one window, after any opening, retargeting, closing and
\* selecting of windows, in whatever order devices connect and events arrive.
THEOREM KeysMatch == Spec => []WindowsAndKeysMatch
<1>1. ASSUME IInv PROVE WindowsAndKeysMatch
  <2>1. TypeOK /\ Orderly(wm)
    BY <1>1, TypesAreRight, Ready
  <2>2. WindowCount = Count(wm)
    BY DEF WindowCount, Count
  <2>3. /\ \A i \in 1 .. Count(wm) : KeyOf(wm.windows[i]) \in DOMAIN wm.by_key
        /\ \A k \in DOMAIN wm.by_key : wm.by_key[k] \in 1 .. Count(wm) /\ KeyOf(wm.windows[wm.by_key[k]]) = k
        /\ \A i, j \in 1 .. Count(wm) : wm.windows[i].talk = wm.windows[j].talk => i = j
    BY <2>1 DEF Orderly, KeysAreRight
  <2>4. DOMAIN wm.by_key = {KeyOf(wm.windows[i]) : i \in 1 .. Count(wm)}
    BY <2>3
  <2> QED
    BY <2>1, <2>2, <2>3, <2>4 DEF WindowsAndKeysMatch
<1> QED
  BY <1>1, Invariance, PTL

\* A window shows no stored message of another conversation but an answer that was
\* sent to it, and every message of its own that was handled and not cleared away, if
\* they came over one device, but an answer that is stored where it was not sent to.
THEOREM WindowsShowTheirTalks == Spec => []WindowShowsItsTalk
<1>1. ASSUME IInv PROVE WindowShowsItsTalk
  <2> SUFFICES ASSUME NEW i \in 1 .. Count(wm), NEW w, w = wm.windows[i],
                      NEW of, of = {r \in Range(rows) : r.talk = w.talk},
                      NEW in, in = {r.msg : r \in of}
               PROVE  /\ \A r \in Range(rows) \ of : r.msg \in Range(w.lines) =>
                            /\ r.msg \in Carried /\ Packet[r.msg].reply # NoMessage
                            /\ ShownIn(Packet[r.msg]) = w.talk \/ r.msg \in in
                      /\ Cardinality({r.device : r \in of}) <= 1 => \A m \in in \cap handled :
                            \/ m \in Range(w.lines) \cup cleared
                            \/ \E r \in Range(rows) : r.msg = m /\ ShownElsewhere(m, r.talk)
    BY DEF WindowShowsItsTalk, WindowCount, Count
  <2>1. \A x : x \in Range(rows) <=> \E j \in 1 .. Len(rows) : rows[j] = x
    BY <1>1, Ready, RangeIs
  <2>2. /\ TalkRight(wm, rows) /\ Complete(wm, rows, handled, cleared) /\ rows \in Seq(Rows)
        /\ \A j \in 1 .. Len(rows) : ~ Meant(rows[j].msg, rows[j].talk) => Packet[rows[j].msg].reply # NoMessage
    BY <1>1, Ready DEF Fine, RowsRight
  <2>3. Shows(wm, i) = Range(w.lines)
    BY DEF Shows
  <2>4. ASSUME NEW r \in Range(rows) \ of, r.msg \in Range(w.lines)
        PROVE  /\ r.msg \in Carried /\ Packet[r.msg].reply # NoMessage
               /\ ShownIn(Packet[r.msg]) = w.talk \/ r.msg \in in
    <3>1. Right(rows, r.msg, w.talk)
      BY <2>2, <2>3, <2>4 DEF TalkRight
    <3>2. PICK k \in 1 .. Len(rows) : rows[k] = r
      BY <2>1
    <3>3. r.talk # w.talk
      OBVIOUS
    <3>4. r.msg \in Carried
      BY <3>1, <3>2, <3>3 DEF Right
    <3>5. PICK j \in 1 .. Len(rows) : rows[j].msg = r.msg /\ (rows[j].talk = w.talk \/ Meant(r.msg, w.talk))
      BY <3>1, <3>4 DEF Right
    <3>6. rows[j].talk = w.talk => r.msg \in in
      <4>1. rows[j] \in Range(rows)
        BY <2>1
      <4> QED
        BY <3>5, <4>1
    <3>7. ShownIn(Packet[r.msg]) = w.talk \/ r.msg \in in
      BY <3>4, <3>5, <3>6 DEF Meant
    <3>8. ~ Meant(r.msg, r.talk) \/ ~ Meant(r.msg, rows[j].talk)
      BY <3>3, <3>4, <3>5 DEF Meant
    <3>9. Packet[r.msg].reply # NoMessage
      BY <2>2, <3>2, <3>5, <3>8
    <3> QED
      BY <3>4, <3>7, <3>9
  <2>5. ASSUME Cardinality({r.device : r \in of}) <= 1, NEW m \in in \cap handled
        PROVE  \/ m \in Range(w.lines) \cup cleared
               \/ \E r \in Range(rows) : r.msg = m /\ ShownElsewhere(m, r.talk)
    <3>1. OfOne(rows, w.talk)
      BY <2>2, <2>5, OneDevice
    <3>2. PICK j \in 1 .. Len(rows) : rows[j].talk = w.talk /\ rows[j].msg = m
      BY <2>1
    <3>3. m \in Range(w.lines) \cup cleared \/ Astray(rows, m)
      BY <2>2, <2>3, <3>1, <3>2 DEF Complete
    <3>4. ASSUME Astray(rows, m) PROVE \E r \in Range(rows) : r.msg = m /\ ShownElsewhere(m, r.talk)
      <4>1. PICK k \in 1 .. Len(rows) : rows[k].msg = m /\ ~ Meant(m, rows[k].talk)
        BY <3>4 DEF Astray
      <4>2. rows[k] \in Range(rows) /\ ShownElsewhere(m, rows[k].talk)
        BY <2>1, <2>2, <4>1 DEF Meant, ShownElsewhere
      <4> QED
        BY <4>1, <4>2
    <3> QED
      BY <3>3, <3>4
  <2> QED
    BY <2>4, <2>5
<1> QED
  BY <1>1, Invariance, PTL

\* The current window is never marked unread, and a message that was handled and
\* that the user has not had before him is in a window that is; an answer need not
\* be where it was not sent to.
THEOREM UnreadMarked == Spec => []UnreadIsMarked
<1>1. ASSUME IInv PROVE UnreadIsMarked
  <2>1. Seen(wm, seen) /\ Marked(wm, handled, seen, passed) /\ TalkRight(wm, rows) /\ RowsRight(rows, handled)
    BY <1>1, Ready DEF Fine
  <2>2. ASSUME NEW i \in 1 .. Count(wm), NEW m \in (Shows(wm, i) \cap handled) \ (seen \cup passed)
        PROVE  wm.windows[i].unread \/ ShownElsewhere(m, wm.windows[i].talk)
    <3> DEFINE talk == wm.windows[i].talk
    <3>1. Meant(m, talk) => wm.windows[i].unread
      BY <2>1 DEF Marked
    <3>2. Right(rows, m, talk)
      BY <2>1 DEF TalkRight
    <3> HIDE DEF talk
    <3>3. ASSUME ~ Meant(m, talk) PROVE ShownElsewhere(m, talk)
      <4>1. m \in Carried /\ ShownIn(Packet[m]) # talk
        BY <3>3 DEF Meant
      <4>2. PICK j \in 1 .. Len(rows) : rows[j].msg = m /\ rows[j].talk = talk
        BY <3>2, <3>3, <4>1 DEF Right
      <4>3. Packet[m].reply # NoMessage
        BY <2>1, <3>3, <4>2 DEF RowsRight
      <4> QED
        BY <4>1, <4>3 DEF ShownElsewhere
    <3> QED
      BY <3>1, <3>3 DEF talk
  <2> QED
    BY <2>1, <2>2 DEF Seen, Shows, Count, WindowCount, UnreadIsMarked
<1> QED
  BY <1>1, Invariance, PTL
=============================================================================
