--------------------------- MODULE VerifierProofs ---------------------------
(***************************************************************************)
(* Theorems about Reattestation, for every size of a hello and every way   *)
(* to cut it, every set of verifications and chips, however often the key  *)
(* distribution service may throttle a fetch: both ends of a connection    *)
(* find the same hellos, no report is accepted that is not genuine, none   *)
(* that is genuine is refused without cause, and nothing but a write cut   *)
(* short spoils the cache.                                                 *)
(***************************************************************************)
EXTENDS Reattestation, SequenceTheorems, TLAPS

-----------------------------------------------------------------------------
(* The recursive functions of Transcript, by their equations.              *)

Given == Stream \X Nat       \* what was written, and how much of it is read
Unread == Stream \X Seq(Byte)    \* what is to be read, and what was found

LengthOf(x) == Len(x[1])

FirstBytesDef(f, x) ==
    IF x[1] = <<>> \/ x[2] = 0 THEN <<>>
    ELSE LET body == Upto(Head(x[1]).body, x[2])
         IN  <<Rec(Head(x[1]).type, body)>> \o f[<<Tail(x[1]), x[2] - Len(body)>>]

BytesInDef(f, x) == IF x = <<>> THEN 0 ELSE Len(Head(x).body) + f[Tail(x)]

GatheredDef(f, x) ==
    LET next == Head(x[1])
        hs == x[2] \o next.body
    IN  IF x[1] = <<>> THEN x[2]
        ELSE IF next.type # "handshake"
             THEN IF x[2] # <<>> THEN x[2] ELSE f[<<Tail(x[1]), x[2]>>]
             ELSE IF HasWhole(hs) THEN hs ELSE f[<<Tail(x[1]), hs>>]

OfPrefixes == INSTANCE Recursion WITH S <- Given, Size <- LengthOf, Def <- FirstBytesDef
OfSums == INSTANCE Recursion WITH S <- Stream, Size <- Len, Def <- BytesInDef
OfMessages == INSTANCE Recursion WITH S <- Unread, Size <- LengthOf, Def <- GatheredDef

\* A slice from the start is a slice, and no longer than asked for.
LEMMA UptoIs ==
    ASSUME NEW T, NEW s \in Seq(T), NEW n \in Nat
    PROVE  /\ Upto(s, n) \in Seq(T)
           /\ Len(Upto(s, n)) = IF n < Len(s) THEN n ELSE Len(s)
           /\ \A i \in 1 .. Len(Upto(s, n)) : Upto(s, n)[i] = s[i]
<1> DEFINE k == IF n < Len(s) THEN n ELSE Len(s)
<1>1. Len(s) \in Nat /\ k \in Nat /\ k <= Len(s)
  OBVIOUS
<1>2. Upto(s, n) = SubSeq(s, 1, k)
  BY DEF Upto
<1> HIDE DEF k
<1>3. SubSeq(s, 1, k) \in Seq(T) /\ Len(SubSeq(s, 1, k)) = k
      /\ \A i \in 1 .. k : SubSeq(s, 1, k)[i] = s[i]
  BY <1>1
<1> QED BY <1>2, <1>3 DEF k

\* A stream with something in it has a first record, and fewer after it.
LEMMA StreamParts ==
    ASSUME NEW s \in Stream, s # <<>>
    PROVE  /\ Head(s) \in Record /\ Tail(s) \in Stream
           /\ Len(s) \in Nat /\ Len(Tail(s)) \in Nat /\ Len(Tail(s)) < Len(s)
BY DEF Stream

LEMMA FirstBytesIs ==
    ASSUME NEW s \in Stream, NEW n \in Nat
    PROVE  FirstBytes[<<s, n>>] = FirstBytesDef(FirstBytes, <<s, n>>)
<1>1. OfPrefixes!Decreasing
  <2>1. ASSUME NEW g, NEW h, NEW x \in Given,
               \A y \in Given : LengthOf(y) < LengthOf(x) => g[y] = h[y]
        PROVE  FirstBytesDef(g, x) = FirstBytesDef(h, x)
    <3>1. x[1] \in Stream /\ x[2] \in Nat
      BY DEF Given
    <3>2. CASE x[1] = <<>> \/ x[2] = 0
      BY <3>2, Zenon DEF FirstBytesDef
    <3>3. CASE ~(x[1] = <<>> \/ x[2] = 0)
      <4> DEFINE body == Upto(Head(x[1]).body, x[2])
                 y == <<Tail(x[1]), x[2] - Len(body)>>
      <4>1. Head(x[1]).body \in Seq(Byte) /\ Tail(x[1]) \in Stream
            /\ Len(Tail(x[1])) < Len(x[1])
        BY <3>1, <3>3, StreamParts DEF Record
      <4>2. Len(body) \in Nat /\ Len(body) <= x[2]
        BY <3>1, <4>1, UptoIs
      <4>3. y \in Given
        <5> HIDE DEF body
        <5>1. x[2] - Len(body) \in Nat
          BY <3>1, <4>2
        <5> QED BY <4>1, <5>1, Zenon DEF Given
      <4>4. LengthOf(y) < LengthOf(x)
        BY <4>1 DEF LengthOf
      <4>5. g[y] = h[y]
        BY <2>1, <4>3, <4>4, Zenon
      <4> QED BY <3>3, <4>5, Zenon DEF FirstBytesDef
    <3> QED BY <3>2, <3>3
  <2>2. \A x \in Given : LengthOf(x) \in Nat
    BY DEF Given, Stream, LengthOf
  <2> QED BY <2>1, <2>2, Zenon DEF OfPrefixes!Decreasing
<1>2. \E f : f = [x \in Given |-> FirstBytesDef(f, x)]
  BY <1>1, OfPrefixes!Exists
<1>3. FirstBytes = [x \in Given |-> FirstBytesDef(FirstBytes, x)]
  BY <1>2 DEF FirstBytes, FirstBytesDef, Given
<1>4. <<s, n>> \in Given
  BY DEF Given
<1> HIDE DEF FirstBytes
<1> QED BY <1>3, <1>4, Zenon

LEMMA BytesInIs ==
    ASSUME NEW s \in Stream
    PROVE  BytesIn[s] = BytesInDef(BytesIn, s)
<1>1. OfSums!Decreasing
  <2>1. ASSUME NEW g, NEW h, NEW x \in Stream,
               \A y \in Stream : Len(y) < Len(x) => g[y] = h[y]
        PROVE  BytesInDef(g, x) = BytesInDef(h, x)
    <3>1. CASE x = <<>>
      BY <3>1 DEF BytesInDef
    <3>2. CASE x # <<>>
      <4>1. Tail(x) \in Stream /\ Len(Tail(x)) < Len(x)
        BY <3>2, StreamParts
      <4>2. g[Tail(x)] = h[Tail(x)]
        BY <2>1, <4>1
      <4> QED BY <4>2 DEF BytesInDef
    <3> QED BY <3>1, <3>2
  <2>2. \A x \in Stream : Len(x) \in Nat
    BY DEF Stream
  <2> QED BY <2>1, <2>2, Zenon DEF OfSums!Decreasing
<1>2. \E f : f = [x \in Stream |-> BytesInDef(f, x)]
  BY <1>1, OfSums!Exists
<1>3. BytesIn = [x \in Stream |-> BytesInDef(BytesIn, x)]
  BY <1>2 DEF BytesIn, BytesInDef
<1> HIDE DEF BytesIn
<1> QED BY <1>3, Zenon

LEMMA GatheredIs ==
    ASSUME NEW s \in Stream, NEW hs \in Seq(Byte)
    PROVE  Gathered[<<s, hs>>] = GatheredDef(Gathered, <<s, hs>>)
<1>1. OfMessages!Decreasing
  <2>1. ASSUME NEW g, NEW h, NEW x \in Unread,
               \A y \in Unread : LengthOf(y) < LengthOf(x) => g[y] = h[y]
        PROVE  GatheredDef(g, x) = GatheredDef(h, x)
    <3>1. x[1] \in Stream /\ x[2] \in Seq(Byte)
      BY DEF Unread
    <3>2. CASE x[1] = <<>>
      BY <3>2, Zenon DEF GatheredDef
    <3>3. CASE x[1] # <<>>
      <4>1. Head(x[1]).body \in Seq(Byte) /\ Tail(x[1]) \in Stream
            /\ Len(Tail(x[1])) < Len(x[1])
        BY <3>1, <3>3, StreamParts DEF Record
      <4>2. x[2] \o Head(x[1]).body \in Seq(Byte)
        BY <3>1, <4>1, ConcatProperties
      <4>3. \A z \in Seq(Byte) : g[<<Tail(x[1]), z>>] = h[<<Tail(x[1]), z>>]
        <5> SUFFICES ASSUME NEW z \in Seq(Byte)
                     PROVE  g[<<Tail(x[1]), z>>] = h[<<Tail(x[1]), z>>]
          OBVIOUS
        <5>1. <<Tail(x[1]), z>> \in Unread /\ LengthOf(<<Tail(x[1]), z>>) < LengthOf(x)
          BY <4>1 DEF Unread, LengthOf
        <5> QED BY <2>1, <5>1, Zenon
      <4>4. /\ g[<<Tail(x[1]), x[2]>>] = h[<<Tail(x[1]), x[2]>>]
            /\ g[<<Tail(x[1]), x[2] \o Head(x[1]).body>>]
                 = h[<<Tail(x[1]), x[2] \o Head(x[1]).body>>]
        BY <3>1, <4>2, <4>3, Zenon
      <4> QED BY <4>4, Zenon DEF GatheredDef
    <3> QED BY <3>2, <3>3
  <2>2. \A x \in Unread : LengthOf(x) \in Nat
    BY DEF Unread, Stream, LengthOf
  <2> QED BY <2>1, <2>2, Zenon DEF OfMessages!Decreasing
<1>2. \E f : f = [x \in Unread |-> GatheredDef(f, x)]
  BY <1>1, OfMessages!Exists
<1>3. Gathered = [x \in Unread |-> GatheredDef(Gathered, x)]
  BY <1>2 DEF Gathered, GatheredDef, Unread
<1>4. <<s, hs>> \in Unread
  BY DEF Unread
<1> HIDE DEF Gathered
<1> QED BY <1>3, <1>4, Zenon

-----------------------------------------------------------------------------
(* Slices.                                                                 *)

From(s, i) == SubSeq(s, i, Len(s))

\* A slice of a sequence, what is in it.
LEMMA SliceIs ==
    ASSUME NEW T, NEW s \in Seq(T), NEW a \in Nat, NEW b \in Nat, a <= b, b <= Len(s)
    PROVE  /\ SubSeq(s, a + 1, b) \in Seq(T)
           /\ Len(SubSeq(s, a + 1, b)) = b - a
           /\ \A i \in 1 .. b - a : SubSeq(s, a + 1, b)[i] = s[a + i]
<1>1. Len(s) \in Nat
  OBVIOUS
<1>2. \A i \in a + 1 .. b : s[i] \in T
  BY <1>1
<1>3. SubSeq(s, a + 1, b) = [i \in 1 .. b - a |-> s[i + (a + 1) - 1]]
  BY <1>1
<1>4. SubSeq(s, a + 1, b) = [i \in 1 .. b - a |-> s[a + i]]
  BY <1>3
<1>5. b - a \in Nat /\ \A i \in 1 .. b - a : a + i \in a + 1 .. b
  OBVIOUS
<1>6. SubSeq(s, a + 1, b) \in [1 .. b - a -> T]
  BY <1>2, <1>4, <1>5
<1> QED BY <1>4, <1>5, <1>6

\* Two slices that meet make one.
LEMMA SlicesMeet ==
    ASSUME NEW T, NEW s \in Seq(T), NEW a \in Nat, NEW b \in Nat, a <= b, b <= Len(s)
    PROVE  SubSeq(s, 1, a) \o SubSeq(s, a + 1, b) = SubSeq(s, 1, b)
<1> DEFINE x == SubSeq(s, 1, a)
           y == SubSeq(s, a + 1, b)
           z == SubSeq(s, 1, b)
<1>0. Len(s) \in Nat /\ a <= Len(s) /\ 0 \in Nat /\ 0 <= a /\ 0 <= b
      /\ 0 + 1 = 1 /\ a - 0 = a /\ b - 0 = b
  OBVIOUS
<1>1. x \in Seq(T) /\ Len(x) = a /\ \A i \in 1 .. a : x[i] = s[i]
  <2>1. SubSeq(s, 0 + 1, a) \in Seq(T) /\ Len(SubSeq(s, 0 + 1, a)) = a - 0
        /\ \A i \in 1 .. a - 0 : SubSeq(s, 0 + 1, a)[i] = s[0 + i]
    BY <1>0, SliceIs
  <2>2. \A i \in 1 .. a : 0 + i = i
    OBVIOUS
  <2> QED BY <1>0, <2>1, <2>2
<1>2. y \in Seq(T) /\ Len(y) = b - a /\ \A i \in 1 .. b - a : y[i] = s[a + i]
  BY SliceIs
<1>3. z \in Seq(T) /\ Len(z) = b /\ \A i \in 1 .. b : z[i] = s[i]
  <2>1. SubSeq(s, 0 + 1, b) \in Seq(T) /\ Len(SubSeq(s, 0 + 1, b)) = b - 0
        /\ \A i \in 1 .. b - 0 : SubSeq(s, 0 + 1, b)[i] = s[0 + i]
    BY <1>0, SliceIs
  <2>2. \A i \in 1 .. b : 0 + i = i
    OBVIOUS
  <2> QED BY <1>0, <2>1, <2>2
<1> HIDE DEF x, y, z
<1>4. x \o y \in Seq(T) /\ Len(x \o y) = b
  <2>1. x \o y \in Seq(T) /\ Len(x \o y) = Len(x) + Len(y)
    <3>1. x \in Seq(T) /\ y \in Seq(T)
      BY <1>1, <1>2, Zenon
    <3> QED BY <3>1, ConcatProperties, Zenon
  <2>2. a + (b - a) = b
    OBVIOUS
  <2> QED BY <1>1, <1>2, <2>1, <2>2
<1>5. ASSUME NEW i \in 1 .. b  PROVE (x \o y)[i] = z[i]
  <2>1. (x \o y)[i] = IF i <= a THEN x[i] ELSE y[i - a]
    <3>1. i \in 1 .. Len(x) + Len(y)
      BY <1>1, <1>2
    <3> QED BY <1>1, <1>2, <3>1, ConcatProperties
  <2>2. CASE i <= a
    BY <1>1, <1>3, <2>1, <2>2
  <2>3. CASE ~(i <= a)
    <3>1. i - a \in 1 .. b - a /\ a + (i - a) = i
      BY <2>3
    <3>2. y[i - a] = s[i]
      BY <1>2, <3>1
    <3> QED BY <1>3, <2>1, <2>3, <3>2
  <2> QED BY <2>2, <2>3
<1> QED BY <1>3, <1>4, <1>5, SeqEqual DEF x, y, z

\* The start of a slice is a slice.
LEMMA SliceUpto ==
    ASSUME NEW T, NEW s \in Seq(T), NEW a \in Nat, NEW b \in Nat, a <= b, b <= Len(s),
           NEW n \in Nat, NEW k \in Nat, k = IF n < b - a THEN n ELSE b - a
    PROVE  Upto(SubSeq(s, a + 1, b), n) = SubSeq(s, a + 1, a + k)
<1> DEFINE x == SubSeq(s, a + 1, b)
           y == SubSeq(s, a + 1, a + k)
<1>1. x \in Seq(T) /\ Len(x) = b - a /\ \A i \in 1 .. b - a : x[i] = s[a + i]
  BY SliceIs
<1>2. a + k \in Nat /\ a <= a + k /\ a + k <= Len(s) /\ (a + k) - a = k /\ k <= b - a
  OBVIOUS
<1>3. y \in Seq(T) /\ Len(y) = k /\ \A i \in 1 .. k : y[i] = s[a + i]
  BY <1>2, SliceIs
<1> HIDE DEF x, y
<1>4. Upto(x, n) \in Seq(T) /\ Len(Upto(x, n)) = k
      /\ \A i \in 1 .. k : Upto(x, n)[i] = x[i]
  BY <1>1, UptoIs
<1>5. ASSUME NEW i \in 1 .. k  PROVE Upto(x, n)[i] = y[i]
  BY <1>1, <1>2, <1>3, <1>4
<1> QED BY <1>3, <1>4, <1>5, SeqEqual DEF x, y

\* All of a sequence.
LEMMA UptoAll ==
    ASSUME NEW T, NEW s \in Seq(T)
    PROVE  Upto(s, Len(s)) = s
<1>1. Len(s) \in Nat
  OBVIOUS
<1>2. /\ Upto(s, Len(s)) \in Seq(T)
      /\ Len(Upto(s, Len(s))) = Len(s)
      /\ \A i \in 1 .. Len(s) : Upto(s, Len(s))[i] = s[i]
  BY <1>1, UptoIs
<1> QED BY <1>2, SeqEqual

\* What is left of a stream from one of its records on.
LEMMA FromParts ==
    ASSUME NEW s \in Stream, NEW i \in 1 .. Len(s)
    PROVE  /\ From(s, i) \in Stream /\ From(s, i) # <<>>
           /\ Head(From(s, i)) = s[i]
           /\ Tail(From(s, i)) = From(s, i + 1)
           /\ From(s, i + 1) \in Stream
<1>1. Len(s) \in Nat /\ i \in Nat /\ i >= 1 /\ i <= Len(s)
  BY DEF Stream
<1> DEFINE a == i - 1
<1>2. a \in Nat /\ a <= Len(s) /\ a + 1 = i /\ Len(s) - a >= 1
  BY <1>1
<1>3. /\ From(s, i) \in Seq(Record) /\ Len(From(s, i)) = Len(s) - a
      /\ \A j \in 1 .. Len(s) - a : From(s, i)[j] = s[a + j]
  <2> HIDE DEF a
  <2>1. s \in Seq(Record) /\ Len(s) <= Len(s)
    BY <1>1 DEF Stream
  <2> QED BY <1>1, <1>2, <2>1, SliceIs DEF From
<1>4. /\ From(s, i + 1) \in Seq(Record) /\ Len(From(s, i + 1)) = Len(s) - i
      /\ \A j \in 1 .. Len(s) - i : From(s, i + 1)[j] = s[i + j]
  <2>1. s \in Seq(Record) /\ Len(s) <= Len(s)
    BY <1>1 DEF Stream
  <2> QED BY <1>1, <2>1, SliceIs DEF From
<1>5. From(s, i) # <<>>
  BY <1>2, <1>3
<1>6. Head(From(s, i)) = s[i]
  <2>1. Head(From(s, i)) = From(s, i)[1]
    BY <1>3
  <2>2. 1 \in 1 .. Len(s) - a
    BY <1>1, <1>2
  <2> QED BY <1>2, <1>3, <2>1, <2>2
<1>7. Tail(From(s, i)) = From(s, i + 1)
  <2> DEFINE t == Tail(From(s, i))
  <2>1. /\ t \in Seq(Record) /\ Len(t) = Len(From(s, i)) - 1
        /\ \A j \in 1 .. Len(t) : t[j] = From(s, i)[j + 1]
    <3> HIDE DEF a
    <3> DEFINE r == From(s, i)
    <3>1. r \in Seq(Record) /\ r # <<>>
      BY <1>3, <1>5
    <3> HIDE DEF r
    <3> QED BY <3>1, HeadTailProperties DEF r
  <2>2. Len(t) = Len(s) - i
    BY <1>1, <1>3, <2>1
  <2>3. ASSUME NEW j \in 1 .. Len(s) - i  PROVE t[j] = From(s, i + 1)[j]
    <3>1. j + 1 \in 1 .. Len(s) - a /\ a + (j + 1) = i + j
      BY <1>1
    <3>2. From(s, i)[j + 1] = s[i + j]
      BY <1>3, <3>1
    <3> HIDE DEF t
    <3> QED BY <1>4, <2>1, <2>2, <3>2
  <2> HIDE DEF t, a
  <2> QED BY <1>4, <2>1, <2>2, <2>3, SeqEqual DEF t
<1> QED BY <1>3, <1>4, <1>5, <1>6, <1>7 DEF Stream

-----------------------------------------------------------------------------
(* Messages, and the streams that open with one.                           *)

\* Where the record before record i ends.
Before(ends, i) == IF i = 1 THEN 0 ELSE ends[i - 1]

\* The first records of s are a message, cut where ends says.
OpensCut(s, m, ends) ==
    /\ Len(ends) <= Len(s)
    /\ \A i \in 1 .. Len(ends) :
         s[i] = Rec("handshake", SubSeq(Bytes(m), Before(ends, i) + 1, ends[i]))

Opens(s, m) == \E ends \in Cuts : OpensCut(s, m, ends)

\* The bytes of a message.
LEMMA BytesAre ==
    ASSUME NEW m \in Hello
    PROVE  /\ Bytes(m) \in Seq(Byte) /\ Len(Bytes(m)) = 4 + Size
           /\ Bytes(m) # <<>>
           /\ \A i \in 1 .. 4 + Size : Bytes(m)[i].of = m
<1>1. 4 + Size \in Nat /\ 4 + Size > 0
  BY TranscriptAssumption
<1>2. \A i \in 1 .. 4 + Size : [of |-> m, at |-> i] \in Byte
  BY <1>1 DEF Byte
<1>3. Bytes(m) = [i \in 1 .. 4 + Size |-> [of |-> m, at |-> i]]
  BY DEF Bytes, Length
<1>4. Bytes(m) \in [1 .. 4 + Size -> Byte]
  BY <1>2, <1>3
<1> HIDE DEF Byte
<1>5. Bytes(m) \in Seq(Byte) /\ Len(Bytes(m)) = 4 + Size
  BY <1>1, <1>4
<1>6. Bytes(m) # <<>>
  BY <1>1, <1>5
<1>7. \A i \in 1 .. 4 + Size : Bytes(m)[i].of = m
  <2> SUFFICES ASSUME NEW i \in 1 .. 4 + Size  PROVE Bytes(m)[i].of = m
    OBVIOUS
  <2>1. Bytes(m)[i] = [of |-> m, at |-> i]
    BY <1>3
  <2> QED BY <2>1
<1> QED BY <1>5, <1>6, <1>7, Zenon

\* Where records may end.
LEMMA CutsAre ==
    ASSUME NEW ends \in Cuts
    PROVE  /\ ends \in Seq(1 .. 4 + Size) /\ Len(ends) \in Nat /\ Len(ends) >= 1
           /\ ends[Len(ends)] = 4 + Size
           /\ \A i \in 1 .. Len(ends) :
                /\ Before(ends, i) \in Nat /\ ends[i] \in Nat
                /\ Before(ends, i) < ends[i] /\ ends[i] <= 4 + Size
                /\ i < Len(ends) => ends[i] < 4 + Size
<1>1. 4 + Size \in Nat
  BY TranscriptAssumption
<1> DEFINE T == 1 .. 4 + Size
<1>2. PICK n \in 0 .. 4 + Size : ends \in [1 .. n -> T]
  BY DEF Cuts, SeqOf
<1>3. n \in Nat
  BY <1>1
<1>4. ends \in Seq(T) /\ Len(ends) \in Nat /\ \A i \in 1 .. Len(ends) : ends[i] \in T
  <2> HIDE DEF T
  <2> QED BY <1>2, <1>3
<1>5. ends # <<>> /\ Last(ends) = 4 + Size
      /\ \A i \in 2 .. Len(ends) : ends[i - 1] < ends[i]
  BY DEF Cuts
<1>6. Len(ends) >= 1
  BY <1>4, <1>5
<1>7. ends[Len(ends)] = 4 + Size
  BY <1>5 DEF Last
<1>8. ASSUME NEW i \in 1 .. Len(ends)
      PROVE  /\ Before(ends, i) \in Nat /\ ends[i] \in Nat
             /\ Before(ends, i) < ends[i] /\ ends[i] <= 4 + Size
             /\ i < Len(ends) => ends[i] < 4 + Size
  <2>1. ends[i] \in 1 .. 4 + Size
    BY <1>4
  <2>2. Before(ends, i) \in Nat /\ Before(ends, i) < ends[i]
    <3>1. CASE i = 1
      BY <1>1, <2>1, <3>1 DEF Before
    <3>2. CASE i # 1
      <4>1. i - 1 \in 1 .. Len(ends) /\ i \in 2 .. Len(ends)
        BY <1>4, <3>2
      <4>2. ends[i - 1] \in 1 .. 4 + Size /\ ends[i - 1] < ends[i]
        BY <1>4, <1>5, <4>1, Zenon
      <4> QED BY <1>1, <3>2, <4>2 DEF Before
    <3> QED BY <3>1, <3>2
  <2>3. ASSUME i < Len(ends)  PROVE ends[i] < 4 + Size
    <3>1. i + 1 \in 2 .. Len(ends) /\ i + 1 \in 1 .. Len(ends) /\ (i + 1) - 1 = i
      BY <1>4, <2>3
    <3>2. ends[i] < ends[i + 1] /\ ends[i + 1] \in 1 .. 4 + Size
      <4>1. ends[(i + 1) - 1] < ends[i + 1] /\ ends[i + 1] \in 1 .. 4 + Size
        BY <1>4, <1>5, <3>1, Zenon
      <4> QED BY <3>1, <4>1, Zenon
    <3> QED BY <1>1, <2>1, <3>2
  <2> QED BY <1>1, <2>1, <2>2, <2>3
<1> QED BY <1>4, <1>6, <1>7, <1>8

\* One record is a way to cut a message.
LEMMA UncutIsACut == Uncut \in Cuts
<1>1. 4 + Size \in Nat /\ 4 + Size >= 1
  BY TranscriptAssumption
<1>2. Uncut \in [1 .. 1 -> 1 .. 4 + Size]
  BY <1>1 DEF Uncut
<1>3. 1 \in 0 .. 4 + Size
  BY <1>1
<1>4. Uncut \in SeqOf(1 .. 4 + Size, 4 + Size)
  BY <1>2, <1>3 DEF SeqOf
<1>5. Uncut # <<>> /\ Len(Uncut) = 1 /\ Last(Uncut) = 4 + Size
  BY DEF Uncut, Last
<1>6. 2 .. Len(Uncut) = {}
  BY <1>5
<1> QED BY <1>4, <1>5, <1>6 DEF Cuts

\* What a record of a message says of it.
LEMMA PieceIs ==
    ASSUME NEW m \in Hello, NEW ends \in Cuts, NEW i \in 1 .. Len(ends)
    PROVE  LET body == SubSeq(Bytes(m), Before(ends, i) + 1, ends[i]) IN
           /\ Rec("handshake", body) \in Record
           /\ body \in Seq(Byte) /\ body # <<>> /\ body[1].of = m
           /\ Len(body) = ends[i] - Before(ends, i)
<1> DEFINE a == Before(ends, i)
           b == ends[i]
           body == SubSeq(Bytes(m), a + 1, b)
<1>1. a \in Nat /\ b \in Nat /\ a < b /\ b <= 4 + Size
  BY CutsAre, Zenon
<1>2. Bytes(m) \in Seq(Byte) /\ Len(Bytes(m)) = 4 + Size
      /\ \A j \in 1 .. 4 + Size : Bytes(m)[j].of = m
  BY BytesAre
<1> HIDE DEF a, b
<1>3. body \in Seq(Byte) /\ Len(body) = b - a /\ \A j \in 1 .. b - a : body[j] = Bytes(m)[a + j]
  <2> DEFINE B == Bytes(m)
  <2>1. B \in Seq(Byte) /\ a <= b /\ b <= Len(B)
    BY <1>1, <1>2
  <2> HIDE DEF B
  <2>2. /\ SubSeq(B, a + 1, b) \in Seq(Byte) /\ Len(SubSeq(B, a + 1, b)) = b - a
        /\ \A j \in 1 .. b - a : SubSeq(B, a + 1, b)[j] = B[a + j]
    BY <1>1, <2>1, SliceIs
  <2> QED BY <2>2 DEF B
<1>4. 1 \in 1 .. b - a /\ a + 1 \in 1 .. 4 + Size
  BY <1>1, TranscriptAssumption
<1>5. body[1].of = m
  BY <1>2, <1>3, <1>4
<1> HIDE DEF body
<1>6. body # <<>>
  BY <1>1, <1>3
<1>7. Rec("handshake", body) \in Record
  BY <1>3 DEF Rec, Record
<1> QED BY <1>3, <1>5, <1>6, <1>7 DEF body, a, b

\* What opens with a message still does when more is written.
LEMMA StillOpens ==
    ASSUME NEW s \in Stream, NEW more \in Stream, NEW m \in Hello, Opens(s, m)
    PROVE  s \o more \in Stream /\ Opens(s \o more, m)
<1>1. PICK ends \in Cuts : OpensCut(s, m, ends)
  BY DEF Opens
<1>2. /\ s \o more \in Stream /\ Len(s) \in Nat /\ Len(more) \in Nat
      /\ Len(s \o more) = Len(s) + Len(more)
      /\ \A i \in 1 .. Len(s) + Len(more) :
           (s \o more)[i] = IF i <= Len(s) THEN s[i] ELSE more[i - Len(s)]
  BY ConcatProperties DEF Stream
<1>3. Len(ends) \in Nat
  BY CutsAre
<1> DEFINE t == s \o more
<1>4. ASSUME NEW i \in 1 .. Len(ends)
      PROVE  t[i] = Rec("handshake", SubSeq(Bytes(m), Before(ends, i) + 1, ends[i]))
  <2>1. i \in 1 .. Len(s) + Len(more) /\ i <= Len(s)
    BY <1>1, <1>2, <1>3 DEF OpensCut
  <2>2. t[i] = s[i]
    BY <1>2, <2>1
  <2>3. s[i] = Rec("handshake", SubSeq(Bytes(m), Before(ends, i) + 1, ends[i]))
    BY <1>1, Zenon DEF OpensCut
  <2> QED BY <2>2, <2>3, Zenon
<1>5. Len(ends) <= Len(t)
  BY <1>1, <1>2, <1>3 DEF OpensCut
<1> HIDE DEF t
<1>6. OpensCut(t, m, ends)
  BY <1>4, <1>5, Zenon DEF OpensCut
<1> QED BY <1>2, <1>6 DEF Opens, t

\* What is written of a message opens with it.
LEMMA WrittenOpens ==
    ASSUME NEW m \in Hello, NEW ends \in Cuts
    PROVE  /\ InRecords(m, ends) \in Stream /\ Opens(InRecords(m, ends), m)
           /\ \A r \in Range(InRecords(m, ends)) : r.body[1].of = m
<1> DEFINE n == Len(ends)
           piece(i) == Rec("handshake", SubSeq(Bytes(m), Before(ends, i) + 1, ends[i]))
           s == InRecords(m, ends)
<1>1. n \in Nat /\ DOMAIN ends = 1 .. n
  BY CutsAre
<1>2. \A i \in 1 .. n : (IF i = 1 THEN 1 ELSE ends[i - 1] + 1) = Before(ends, i) + 1
  BY DEF Before
<1>3. s = [i \in 1 .. n |-> piece(i)]
  BY <1>1, <1>2, Zenon DEF InRecords
<1>4. ASSUME NEW i \in 1 .. n  PROVE piece(i) \in Record /\ piece(i).body[1].of = m
  <2> DEFINE body == SubSeq(Bytes(m), Before(ends, i) + 1, ends[i])
  <2>1. Rec("handshake", body) \in Record /\ body[1].of = m
    BY PieceIs
  <2> HIDE DEF body
  <2>2. Rec("handshake", body).body = body
    BY DEF Rec
  <2> QED BY <2>1, <2>2 DEF body
<1> HIDE DEF piece
<1>5. s \in [1 .. n -> Record] /\ \A i \in 1 .. n : s[i] = piece(i)
  BY <1>3, <1>4
<1> HIDE DEF n, s
<1>6. s \in Seq(Record) /\ Len(s) = n
  BY <1>1, <1>5
<1>7. OpensCut(s, m, ends)
  BY <1>1, <1>5, <1>6 DEF OpensCut, piece, n
<1>8. \A r \in Range(s) : r.body[1].of = m
  <2> SUFFICES ASSUME NEW i \in 1 .. n  PROVE s[i].body[1].of = m
    BY <1>5 DEF Range
  <2> QED BY <1>4, <1>5
<1> QED BY <1>6, <1>7, <1>8 DEF s, Opens, Stream

-----------------------------------------------------------------------------
(* What is found in a stream that opens with a message.                    *)

Start(m, k) == SubSeq(Bytes(m), 1, k)

\* The start of a message, whether it is all of it.
LEMMA StartIs ==
    ASSUME NEW m \in Hello, NEW k \in 0 .. 4 + Size
    PROVE  /\ Start(m, k) \in Seq(Byte) /\ Len(Start(m, k)) = k
           /\ HasWhole(Start(m, k)) <=> k = 4 + Size
           /\ Start(m, 0) = <<>> /\ Start(m, 4 + Size) = Bytes(m)
<1>0. Size \in Nat /\ 4 + Size \in Nat /\ k \in Nat /\ k <= 4 + Size
  BY TranscriptAssumption
<1>1. Bytes(m) \in Seq(Byte) /\ Len(Bytes(m)) = 4 + Size
  BY BytesAre
<1>2. \A j \in 0 .. 4 + Size : Start(m, j) = Upto(Bytes(m), j)
  BY <1>0, <1>1 DEF Start, Upto
<1>3. \A j \in 0 .. 4 + Size : Start(m, j) \in Seq(Byte) /\ Len(Start(m, j)) = j
  <2> SUFFICES ASSUME NEW j \in 0 .. 4 + Size
               PROVE  Start(m, j) \in Seq(Byte) /\ Len(Start(m, j)) = j
    OBVIOUS
  <2>1. j \in Nat /\ (IF j < 4 + Size THEN j ELSE 4 + Size) = j
    BY <1>0
  <2>2. Start(m, j) = Upto(Bytes(m), j)
    BY <1>2, Zenon
  <2>3. /\ Upto(Bytes(m), j) \in Seq(Byte)
        /\ Len(Upto(Bytes(m), j)) = IF j < Len(Bytes(m)) THEN j ELSE Len(Bytes(m))
    BY <1>1, <2>1, UptoIs
  <2> QED BY <1>1, <2>1, <2>2, <2>3
<1>4. Start(m, 4 + Size) = Bytes(m)
  <2>1. 4 + Size \in 0 .. 4 + Size
    BY <1>0
  <2>2. Start(m, 4 + Size) = Upto(Bytes(m), Len(Bytes(m)))
    BY <1>1, <1>2, <2>1, Zenon
  <2> QED BY <1>1, <2>2, UptoAll
<1>5. Start(m, 0) = <<>>
  <2>1. 0 \in 0 .. 4 + Size
    BY <1>0
  <2>2. Start(m, 0) \in Seq(Byte) /\ Len(Start(m, 0)) = 0
    BY <1>3, <2>1, Zenon
  <2> QED BY <2>2
<1>6. HasWhole(Start(m, k)) <=> k = 4 + Size
  <2>1. HasWhole(Start(m, k)) <=> k >= 4 /\ k >= 4 + Size
    <3>1. Len(Start(m, k)) = k
      BY <1>3, Zenon
    <3> QED BY <3>1, Zenon DEF HasWhole, Length
  <2> QED BY <1>0, <2>1
<1> QED BY <1>3, <1>4, <1>5, <1>6, Zenon

\* One more record of the message.
LEMMA GathersOne ==
    ASSUME NEW m \in Hello, NEW a \in Nat, NEW b \in Nat, a < b, b <= 4 + Size,
           NEW s \in Stream, s # <<>>,
           Head(s) = Rec("handshake", SubSeq(Bytes(m), a + 1, b))
    PROVE  Gathered[<<s, Start(m, a)>>] =
             IF b = 4 + Size THEN Bytes(m) ELSE Gathered[<<Tail(s), Start(m, b)>>]
<1>1. 4 + Size \in Nat /\ a \in 0 .. 4 + Size /\ b \in 0 .. 4 + Size
  BY TranscriptAssumption
<1>2. Start(m, a) \in Seq(Byte)
  BY <1>1, StartIs
<1>3. (HasWhole(Start(m, b)) <=> b = 4 + Size) /\ Start(m, 4 + Size) = Bytes(m)
  BY <1>1, StartIs
<1>4. Head(s).type = "handshake" /\ Head(s).body = SubSeq(Bytes(m), a + 1, b)
  BY DEF Rec
<1>5. Start(m, a) \o Head(s).body = Start(m, b)
  <2>1. Bytes(m) \in Seq(Byte) /\ a <= b /\ b <= Len(Bytes(m))
    BY BytesAre
  <2>2. SubSeq(Bytes(m), 1, a) \o SubSeq(Bytes(m), a + 1, b) = SubSeq(Bytes(m), 1, b)
    BY <2>1, SlicesMeet
  <2> QED BY <1>4, <2>2, Zenon DEF Start
<1>6. Gathered[<<s, Start(m, a)>>] = GatheredDef(Gathered, <<s, Start(m, a)>>)
  BY <1>2, GatheredIs
<1>7. GatheredDef(Gathered, <<s, Start(m, a)>>) =
        IF HasWhole(Start(m, b)) THEN Start(m, b) ELSE Gathered[<<Tail(s), Start(m, b)>>]
  <2>1. <<s, Start(m, a)>>[1] = s /\ <<s, Start(m, a)>>[2] = Start(m, a)
    OBVIOUS
  <2> QED BY <1>4, <1>5, <2>1, Zenon DEF GatheredDef
<1>8. CASE b = 4 + Size
  BY <1>3, <1>6, <1>7, <1>8, Zenon
<1>9. CASE b # 4 + Size
  BY <1>3, <1>6, <1>7, <1>9, Zenon
<1> QED BY <1>8, <1>9, Zenon

\* All of the message is found in all of the stream.
LEMMA GathersAll ==
    ASSUME NEW m \in Hello, NEW s \in Stream, Opens(s, m)
    PROVE  Gathered[<<s, <<>>>>] = Bytes(m)
<1>1. PICK ends \in Cuts : OpensCut(s, m, ends)
  BY DEF Opens
<1> DEFINE n == Len(ends)
           T == {j \in Nat : \A i \in 1 .. n : n - i = j =>
                   Gathered[<<From(s, i), Start(m, Before(ends, i))>>] = Bytes(m)}
<1>2. n \in Nat /\ n >= 1 /\ ends[n] = 4 + Size
  BY CutsAre
<1>3. Len(s) \in Nat /\ n <= Len(s)
  BY <1>1 DEF OpensCut, Stream
<1>4. ASSUME NEW j \in Nat, \A k \in Nat : k < j => k \in T  PROVE j \in T
  <2> SUFFICES ASSUME NEW i \in 1 .. n, n - i = j
               PROVE  Gathered[<<From(s, i), Start(m, Before(ends, i))>>] = Bytes(m)
    OBVIOUS
  <2> DEFINE a == Before(ends, i)
             b == ends[i]
  <2>1. /\ a \in Nat /\ b \in Nat /\ a < b /\ b <= 4 + Size
        /\ i < n => b < 4 + Size
    BY CutsAre, Zenon
  <2>2. i \in 1 .. Len(s)
    BY <1>2, <1>3
  <2>3. /\ From(s, i) \in Stream /\ From(s, i) # <<>> /\ Head(From(s, i)) = s[i]
        /\ Tail(From(s, i)) = From(s, i + 1)
    BY <2>2, FromParts
  <2>4. Head(From(s, i)) = Rec("handshake", SubSeq(Bytes(m), a + 1, b))
    BY <1>1, <2>3, Zenon DEF OpensCut
  <2>5. Gathered[<<From(s, i), Start(m, a)>>] =
          IF b = 4 + Size THEN Bytes(m) ELSE Gathered[<<From(s, i + 1), Start(m, b)>>]
    <3> HIDE DEF a, b
    <3>1. Gathered[<<From(s, i), Start(m, a)>>] =
            IF b = 4 + Size THEN Bytes(m)
            ELSE Gathered[<<Tail(From(s, i)), Start(m, b)>>]
      BY <2>1, <2>3, <2>4, GathersOne
    <3> QED BY <2>3, <3>1, Zenon
  <2>6. CASE b = 4 + Size
    BY <2>5, <2>6, Zenon
  <2>7. CASE b # 4 + Size
    <3>1. i < n
      BY <1>2, <2>7
    <3>2. i + 1 \in 1 .. n /\ n - (i + 1) \in Nat /\ n - (i + 1) < j
      BY <1>2, <3>1
    <3>3. Before(ends, i + 1) = b
      BY DEF Before
    <3>4. n - (i + 1) \in T
      BY <1>4, <3>2, Zenon
    <3>5. Gathered[<<From(s, i + 1), Start(m, Before(ends, i + 1))>>] = Bytes(m)
      BY <3>2, <3>4
    <3> QED BY <2>5, <2>7, <3>3, <3>5, Zenon
  <2> QED BY <2>6, <2>7, Zenon
<1>5. \A j \in Nat : j \in T
  <2> HIDE DEF T
  <2> QED BY <1>4, OfSums!Induction
<1>6. Gathered[<<From(s, 1), Start(m, Before(ends, 1))>>] = Bytes(m)
  <2>1. 1 \in 1 .. n /\ n - 1 \in Nat
    BY <1>2
  <2> QED BY <1>5, <2>1
<1>7. From(s, 1) = s
  BY UptoAll, <1>3 DEF From, Upto, Stream
<1>8. Start(m, Before(ends, 1)) = <<>>
  <2>1. 0 \in 0 .. 4 + Size
    BY TranscriptAssumption
  <2> QED BY <2>1, StartIs DEF Before
<1> QED BY <1>6, <1>7, <1>8, Zenon

\* The first bytes of a stream are a stream.
LEMMA FirstBytesType ==
    ASSUME NEW s \in Stream, NEW n \in Nat
    PROVE  FirstBytes[<<s, n>>] \in Stream
<1> DEFINE T == {j \in Nat : \A r \in Stream, k \in Nat :
                               Len(r) = j => FirstBytes[<<r, k>>] \in Stream}
<1>1. ASSUME NEW j \in Nat, \A k \in Nat : k < j => k \in T  PROVE j \in T
  <2> SUFFICES ASSUME NEW r \in Stream, NEW k \in Nat, Len(r) = j
               PROVE  FirstBytes[<<r, k>>] \in Stream
    OBVIOUS
  <2>0. FirstBytes[<<r, k>>] = FirstBytesDef(FirstBytes, <<r, k>>)
    BY FirstBytesIs
  <2>1. <<r, k>>[1] = r /\ <<r, k>>[2] = k
    OBVIOUS
  <2>2. CASE r = <<>> \/ k = 0
    <3>1. FirstBytes[<<r, k>>] = <<>>
      BY <2>0, <2>1, <2>2, Zenon DEF FirstBytesDef
    <3> QED BY <3>1 DEF Stream
  <2>3. CASE ~(r = <<>> \/ k = 0)
    <3> DEFINE body == Upto(Head(r).body, k)
               one == <<Rec(Head(r).type, body)>>
               rest == FirstBytes[<<Tail(r), k - Len(body)>>]
    <3>1. FirstBytes[<<r, k>>] = one \o rest
      BY <2>0, <2>1, <2>3, Zenon DEF FirstBytesDef
    <3>2. Head(r) \in Record /\ Tail(r) \in Stream /\ Len(Tail(r)) \in Nat /\ Len(Tail(r)) < j
      BY <2>3, StreamParts
    <3>3. Head(r).body \in Seq(Byte)
          /\ Head(r).type \in {"handshake", "change_cipher_spec", "application_data"}
      BY <3>2 DEF Record
    <3>4. body \in Seq(Byte) /\ Len(body) \in Nat /\ Len(body) <= k
      BY <3>3, UptoIs
    <3>5. k - Len(body) \in Nat
      <4> HIDE DEF body
      <4> QED BY <3>4
    <3>6. rest \in Stream
      <4> HIDE DEF body
      <4>1. Len(Tail(r)) \in T
        BY <1>1, <3>2, Zenon
      <4> QED BY <3>2, <3>5, <4>1
    <3>7. one \in Stream
      <4> HIDE DEF body
      <4>1. Rec(Head(r).type, body) \in Record
        BY <3>3, <3>4 DEF Rec, Record
      <4> QED BY <4>1 DEF Stream
    <3> HIDE DEF one, rest
    <3> QED BY <3>1, <3>6, <3>7, ConcatProperties DEF Stream
  <2> QED BY <2>2, <2>3
<1>2. \A j \in Nat : j \in T
  <2> HIDE DEF T
  <2> QED BY <1>1, OfSums!Induction
<1>3. Len(s) \in Nat
  BY DEF Stream
<1> QED BY <1>2, <1>3

Lesser(i, j) == IF i < j THEN i ELSE j

\* One more record of the message, as much of it as there is.
LEMMA GathersSome ==
    ASSUME NEW m \in Hello, NEW a \in Nat, NEW b \in Nat, a < b, b <= 4 + Size,
           NEW s \in Stream, s # <<>>,
           Head(s) = Rec("handshake", SubSeq(Bytes(m), a + 1, b)),
           NEW n \in Nat, n # 0
    PROVE  LET k == Lesser(n, b - a) IN
           Gathered[<<FirstBytes[<<s, n>>], Start(m, a)>>] =
             IF a + k = 4 + Size THEN Bytes(m)
             ELSE Gathered[<<FirstBytes[<<Tail(s), n - k>>], Start(m, a + k)>>]
<1> DEFINE k == Lesser(n, b - a)
<1>0. k = Lesser(n, b - a) /\ k \in Nat
  BY DEF Lesser
<1> HIDE DEF k
<1> DEFINE piece == SubSeq(Bytes(m), a + 1, a + k)
           one == Rec("handshake", piece)
           rest == FirstBytes[<<Tail(s), n - k>>]
           t == <<one>> \o rest
<1>1. Head(s).type = "handshake" /\ Head(s).body = SubSeq(Bytes(m), a + 1, b)
  BY DEF Rec
<1>2. Bytes(m) \in Seq(Byte) /\ Len(Bytes(m)) = 4 + Size /\ a <= b /\ b <= Len(Bytes(m))
  BY BytesAre
<1>3. Upto(Head(s).body, n) = piece
  <2>1. Upto(SubSeq(Bytes(m), a + 1, b), n) = SubSeq(Bytes(m), a + 1, a + k)
    <3> DEFINE B == Bytes(m)
    <3>1. B \in Seq(Byte) /\ a <= b /\ b <= Len(B) /\ k = IF n < b - a THEN n ELSE b - a
      BY <1>0, <1>2 DEF Lesser
    <3> HIDE DEF B
    <3>2. Upto(SubSeq(B, a + 1, b), n) = SubSeq(B, a + 1, a + k)
      BY <1>0, <3>1, SliceUpto
    <3> QED BY <3>2 DEF B
  <2> QED BY <1>1, <2>1, Zenon
<1>4. a + k \in Nat /\ a < a + k /\ a + k <= 4 + Size /\ n - k \in Nat /\ (a + k) - a = k
  <2>1. 4 + Size \in Nat
    BY TranscriptAssumption
  <2> QED BY <1>0, <2>1 DEF Lesser
<1>5. piece \in Seq(Byte) /\ Len(piece) = k
  <2>1. a <= a + k /\ a + k <= Len(Bytes(m))
    BY <1>2, <1>4
  <2>2. piece \in Seq(Byte) /\ Len(piece) = (a + k) - a
    BY <1>2, <1>4, <2>1, SliceIs
  <2> QED BY <1>4, <2>2
<1> HIDE DEF piece
<1>6. FirstBytes[<<s, n>>] = t
  <2>1. FirstBytes[<<s, n>>] = FirstBytesDef(FirstBytes, <<s, n>>)
    BY FirstBytesIs
  <2>2. <<s, n>>[1] = s /\ <<s, n>>[2] = n
    OBVIOUS
  <2> QED BY <1>1, <1>3, <1>5, <2>1, <2>2, Zenon DEF FirstBytesDef
<1>7. one \in Record
  BY <1>5 DEF Rec, Record
<1>8. rest \in Stream
  BY <1>4, StreamParts, FirstBytesType
<1> HIDE DEF one, rest
<1>9. t \in Stream /\ t # <<>> /\ Head(t) = one /\ Tail(t) = rest
  <2>1. rest \in Seq(Record)
    BY <1>8 DEF Stream
  <2> QED BY <1>7, <2>1 DEF Stream
<1> HIDE DEF t
<1>10. Gathered[<<t, Start(m, a)>>] =
         IF a + k = 4 + Size THEN Bytes(m) ELSE Gathered[<<rest, Start(m, a + k)>>]
  <2>1. Head(t) = Rec("handshake", SubSeq(Bytes(m), a + 1, a + k))
    BY <1>9, Zenon DEF one, piece
  <2>2. Gathered[<<t, Start(m, a)>>] =
          IF a + k = 4 + Size THEN Bytes(m) ELSE Gathered[<<Tail(t), Start(m, a + k)>>]
    <3> DEFINE c == a + k
    <3>1. c \in Nat /\ a < c /\ c <= 4 + Size /\ Head(t) = Rec("handshake", SubSeq(Bytes(m), a + 1, c))
      BY <1>4, <2>1, Zenon
    <3> HIDE DEF c
    <3>2. Gathered[<<t, Start(m, a)>>] =
            IF c = 4 + Size THEN Bytes(m) ELSE Gathered[<<Tail(t), Start(m, c)>>]
      BY <1>9, <3>1, GathersOne
    <3> QED BY <3>2 DEF c
  <2> QED BY <1>9, <2>2, Zenon
<1> QED BY <1>0, <1>6, <1>10, Zenon DEF rest

\* Nothing more to read.
LEMMA NothingMore ==
    ASSUME NEW s \in Stream, NEW hs \in Seq(Byte)
    PROVE  /\ FirstBytes[<<s, 0>>] = <<>>
           /\ \A n \in Nat : FirstBytes[<<<<>>, n>>] = <<>>
           /\ Gathered[<<<<>>, hs>>] = hs
<1>1. <<>> \in Stream /\ 0 \in Nat
  BY DEF Stream
<1>2. FirstBytes[<<s, 0>>] = <<>>
  <2>1. FirstBytes[<<s, 0>>] = FirstBytesDef(FirstBytes, <<s, 0>>)
    BY <1>1, FirstBytesIs
  <2>2. <<s, 0>>[2] = 0
    OBVIOUS
  <2> QED BY <2>1, <2>2, Zenon DEF FirstBytesDef
<1>3. ASSUME NEW n \in Nat  PROVE FirstBytes[<<<<>>, n>>] = <<>>
  <2>1. FirstBytes[<<<<>>, n>>] = FirstBytesDef(FirstBytes, <<<<>>, n>>)
    BY <1>1, FirstBytesIs
  <2>2. <<<<>>, n>>[1] = <<>>
    OBVIOUS
  <2> QED BY <2>1, <2>2, Zenon DEF FirstBytesDef
<1>4. Gathered[<<<<>>, hs>>] = hs
  <2>1. Gathered[<<<<>>, hs>>] = GatheredDef(Gathered, <<<<>>, hs>>)
    BY <1>1, GatheredIs
  <2>2. <<<<>>, hs>>[1] = <<>> /\ <<<<>>, hs>>[2] = hs
    OBVIOUS
  <2> QED BY <2>1, <2>2, Zenon DEF GatheredDef
<1> QED BY <1>2, <1>3, <1>4, Zenon

\* How much of a message has come after n bytes.
Come(n) == IF n < 4 + Size THEN n ELSE 4 + Size

\* What has come of a stream has as much of its first message in it.
LEMMA GathersWhatCame ==
    ASSUME NEW m \in Hello, NEW s \in Stream, Opens(s, m), NEW n \in Nat
    PROVE  Gathered[<<FirstBytes[<<s, n>>], <<>>>>] = Start(m, Come(n))
<1>1. PICK ends \in Cuts : OpensCut(s, m, ends)
  BY DEF Opens
<1> DEFINE l == Len(ends)
           T == {j \in Nat : \A i \in 1 .. l, x \in Nat : l - i = j =>
                   Gathered[<<FirstBytes[<<From(s, i), x>>], Start(m, Before(ends, i))>>]
                     = Start(m, Come(Before(ends, i) + x))}
<1>2. l \in Nat /\ l >= 1 /\ ends[l] = 4 + Size /\ 4 + Size \in Nat
  BY CutsAre, TranscriptAssumption
<1>3. Len(s) \in Nat /\ l <= Len(s)
  BY <1>1 DEF OpensCut, Stream
<1>4. ASSUME NEW j \in Nat, \A k \in Nat : k < j => k \in T  PROVE j \in T
  <2> SUFFICES ASSUME NEW i \in 1 .. l, NEW x \in Nat, l - i = j
               PROVE  Gathered[<<FirstBytes[<<From(s, i), x>>], Start(m, Before(ends, i))>>]
                        = Start(m, Come(Before(ends, i) + x))
    OBVIOUS
  <2> DEFINE a == Before(ends, i)
             b == ends[i]
             k == Lesser(x, b - a)
             c == a + k
  <2>1. /\ a \in Nat /\ b \in Nat /\ a < b /\ b <= 4 + Size
        /\ i < l => b < 4 + Size
    BY CutsAre, Zenon
  <2>2. i \in 1 .. Len(s)
    BY <1>2, <1>3
  <2>3. /\ From(s, i) \in Stream /\ From(s, i) # <<>> /\ Head(From(s, i)) = s[i]
        /\ Tail(From(s, i)) = From(s, i + 1) /\ From(s, i + 1) \in Stream
    BY <2>2, FromParts
  <2>4. Head(From(s, i)) = Rec("handshake", SubSeq(Bytes(m), a + 1, b))
    BY <1>1, <2>3, Zenon DEF OpensCut
  <2>5. a \in 0 .. 4 + Size /\ Start(m, a) \in Seq(Byte)
    <3> HIDE DEF a, b
    <3>1. a \in 0 .. 4 + Size
      BY <1>2, <2>1
    <3> QED BY <3>1, StartIs
  <2>6. CASE x = 0
    <3>1. FirstBytes[<<From(s, i), x>>] = <<>>
      BY <2>3, <2>5, <2>6, NothingMore
    <3>2. Gathered[<<<<>>, Start(m, a)>>] = Start(m, a)
      BY <2>3, <2>5, NothingMore
    <3>3. Come(a + x) = a
      <4> HIDE DEF a, b
      <4> QED BY <1>2, <2>1, <2>6 DEF Come, Lesser
    <3> QED BY <3>1, <3>2, <3>3, Zenon
  <2>7. CASE x # 0
    <3>1. k \in Nat /\ x - k \in Nat /\ k <= x /\ c \in Nat /\ c <= b
      <4> HIDE DEF a, b
      <4> QED BY <1>2, <2>1 DEF Lesser
    <3>2. Gathered[<<FirstBytes[<<From(s, i), x>>], Start(m, a)>>] =
            IF c = 4 + Size THEN Bytes(m)
            ELSE Gathered[<<FirstBytes[<<From(s, i + 1), x - k>>], Start(m, c)>>]
      <4> DEFINE r == From(s, i)
      <4>1. /\ r \in Stream /\ r # <<>>
            /\ Head(r) = Rec("handshake", SubSeq(Bytes(m), a + 1, b))
        BY <2>3, <2>4, Zenon
      <4>2. Gathered[<<FirstBytes[<<r, x>>], Start(m, a)>>] =
              IF a + Lesser(x, b - a) = 4 + Size THEN Bytes(m)
              ELSE Gathered[<<FirstBytes[<<Tail(r), x - Lesser(x, b - a)>>],
                              Start(m, a + Lesser(x, b - a))>>]
        <5> HIDE DEF a, b, c, k, r, T, l
        <5>1. /\ a \in Nat /\ b \in Nat /\ a < b /\ b <= 4 + Size
              /\ r \in Stream /\ r # <<>>
              /\ Head(r) = Rec("handshake", SubSeq(Bytes(m), a + 1, b))
              /\ x # 0
          BY <2>1, <2>7, <4>1, Zenon
        <5> QED BY <5>1, GathersSome
      <4> QED BY <2>3, <4>2, Zenon
    <3>3. CASE c = 4 + Size
      <4>1. Come(a + x) = 4 + Size
        <5> HIDE DEF a, b
        <5> QED BY <1>2, <2>1, <3>3, <3>1 DEF Come, Lesser
      <4>2. Start(m, 4 + Size) = Bytes(m)
        BY <2>5, StartIs
      <4> QED BY <3>2, <3>3, <4>1, <4>2, Zenon
    <3>4. CASE c # 4 + Size /\ c < b
      <4>1. k = x /\ x - k = 0 /\ Come(a + x) = c
        <5> HIDE DEF a, b
        <5> QED BY <1>2, <2>1, <3>1, <3>4 DEF Come, Lesser
      <4>2. c \in 0 .. 4 + Size
        <5> HIDE DEF a, b, c, k
        <5> QED BY <1>2, <2>1, <3>1
      <4>3. Start(m, c) \in Seq(Byte)
        BY <4>2, StartIs
      <4>4. FirstBytes[<<From(s, i + 1), x - k>>] = <<>> /\ Gathered[<<<<>>, Start(m, c)>>] = Start(m, c)
        <5> HIDE DEF a, b, c, k
        <5> QED BY <2>3, <4>1, <4>3, NothingMore
      <4> QED BY <3>2, <3>4, <4>1, <4>4, Zenon
    <3>5. CASE c # 4 + Size /\ c = b
      <4>1. i < l
        <5> HIDE DEF a, c, k
        <5> QED BY <1>2, <2>1, <3>5
      <4>2. i + 1 \in 1 .. l /\ l - (i + 1) \in Nat /\ l - (i + 1) < j
        BY <1>2, <4>1
      <4>3. Before(ends, i + 1) = c
        <5>1. Before(ends, i + 1) = b
          BY DEF Before
        <5> HIDE DEF a, b, c, k
        <5> QED BY <3>5, <5>1
      <4>4. l - (i + 1) \in T
        BY <1>4, <4>2, Zenon
      <4>5. Gathered[<<FirstBytes[<<From(s, i + 1), x - k>>], Start(m, Before(ends, i + 1))>>]
              = Start(m, Come(Before(ends, i + 1) + (x - k)))
        <5> HIDE DEF a, b, c, k
        <5> QED BY <3>1, <4>2, <4>4
      <4>6. c + (x - k) = a + x
        <5> HIDE DEF a, b
        <5> QED BY <1>2, <2>1, <3>1
      <4> QED BY <3>2, <3>5, <4>3, <4>5, <4>6, Zenon
    <3> HIDE DEF a, b, c, k
    <3>6. c < b \/ c = b
      BY <2>1, <3>1
    <3> QED BY <3>3, <3>4, <3>5, <3>6 DEF a
  <2> QED BY <2>6, <2>7, Zenon
<1>5. \A j \in Nat : j \in T
  <2> HIDE DEF T
  <2> QED BY <1>4, OfSums!Induction
<1>6. Gathered[<<FirstBytes[<<From(s, 1), n>>], Start(m, Before(ends, 1))>>]
        = Start(m, Come(Before(ends, 1) + n))
  <2>1. 1 \in 1 .. l /\ l - 1 \in Nat
    BY <1>2
  <2> QED BY <1>5, <2>1
<1>7. From(s, 1) = s
  BY UptoAll, <1>3 DEF From, Upto, Stream
<1>8. Start(m, Before(ends, 1)) = <<>> /\ Before(ends, 1) + n = n
  <2>1. 0 \in 0 .. 4 + Size
    BY TranscriptAssumption
  <2> QED BY <2>1, StartIs DEF Before
<1> QED BY <1>6, <1>7, <1>8, Zenon

\* A stream that opens with a message has at least its bytes.
LEMMA BytesInType == ASSUME NEW s \in Stream PROVE BytesIn[s] \in Nat
<1> DEFINE T == {j \in Nat : \A r \in Stream : Len(r) = j => BytesIn[r] \in Nat}
<1>1. ASSUME NEW j \in Nat, \A k \in Nat : k < j => k \in T  PROVE j \in T
  <2> SUFFICES ASSUME NEW r \in Stream, Len(r) = j  PROVE BytesIn[r] \in Nat
    OBVIOUS
  <2>0. BytesIn[r] = IF r = <<>> THEN 0 ELSE Len(Head(r).body) + BytesIn[Tail(r)]
    BY BytesInIs DEF BytesInDef
  <2>1. CASE r = <<>>
    BY <2>0, <2>1
  <2>2. CASE r # <<>>
    <3>1. Head(r) \in Record /\ Tail(r) \in Stream /\ Len(Tail(r)) \in Nat /\ Len(Tail(r)) < j
      BY <2>2, StreamParts
    <3>2. Len(Tail(r)) \in T
      BY <1>1, <3>1, Zenon
    <3>3. BytesIn[Tail(r)] \in Nat
      BY <3>1, <3>2
    <3>4. Len(Head(r).body) \in Nat
      BY <3>1 DEF Record
    <3> QED BY <2>0, <2>2, <3>3, <3>4
  <2> QED BY <2>1, <2>2
<1>2. \A j \in Nat : j \in T
  <2> HIDE DEF T
  <2> QED BY <1>1, OfSums!Induction
<1>3. Len(s) \in Nat
  BY DEF Stream
<1> QED BY <1>2, <1>3

LEMMA HoldsAMessage ==
    ASSUME NEW m \in Hello, NEW s \in Stream, Opens(s, m)
    PROVE  BytesIn[s] >= 4 + Size
<1>1. PICK ends \in Cuts : OpensCut(s, m, ends)
  BY DEF Opens
<1> DEFINE n == Len(ends)
           T == {j \in Nat : \A i \in 1 .. n : n - i = j =>
                   Before(ends, i) + BytesIn[From(s, i)] >= 4 + Size}
<1>2. n \in Nat /\ n >= 1 /\ ends[n] = 4 + Size /\ 4 + Size \in Nat
  BY CutsAre, TranscriptAssumption
<1>3. Len(s) \in Nat /\ n <= Len(s)
  BY <1>1 DEF OpensCut, Stream
<1>4. ASSUME NEW j \in Nat, \A k \in Nat : k < j => k \in T  PROVE j \in T
  <2> SUFFICES ASSUME NEW i \in 1 .. n, n - i = j
               PROVE  Before(ends, i) + BytesIn[From(s, i)] >= 4 + Size
    OBVIOUS
  <2> DEFINE a == Before(ends, i)
             b == ends[i]
             rest == BytesIn[From(s, i + 1)]
  <2>1. /\ a \in Nat /\ b \in Nat /\ a < b /\ b <= 4 + Size
        /\ i < n => b < 4 + Size
    BY CutsAre, Zenon
  <2>2. i \in 1 .. Len(s)
    BY <1>2, <1>3
  <2>3. /\ From(s, i) \in Stream /\ From(s, i) # <<>> /\ Head(From(s, i)) = s[i]
        /\ Tail(From(s, i)) = From(s, i + 1) /\ From(s, i + 1) \in Stream
    BY <2>2, FromParts
  <2>4. Len(Head(From(s, i)).body) = b - a
    <3> DEFINE body == SubSeq(Bytes(m), a + 1, b)
    <3>1. Len(body) = b - a
      BY PieceIs
    <3>2. Head(From(s, i)) = Rec("handshake", body)
      BY <1>1, <2>3, Zenon DEF OpensCut
    <3> HIDE DEF body
    <3>3. Rec("handshake", body).body = body
      BY DEF Rec
    <3> QED BY <3>1, <3>2, <3>3, Zenon
  <2>5. rest \in Nat
    BY <2>3, BytesInType
  <2>6. BytesIn[From(s, i)] = (b - a) + rest
    <3>1. BytesIn[From(s, i)] = Len(Head(From(s, i)).body) + BytesIn[Tail(From(s, i))]
      BY <2>3, BytesInIs, Zenon DEF BytesInDef
    <3> QED BY <2>3, <2>4, <3>1, Zenon
  <2>7. CASE i = n
    <3>1. b = 4 + Size
      BY <1>2, <2>7
    <3>2. a + ((b - a) + rest) >= 4 + Size
      <4> HIDE DEF a, b, rest
      <4> QED BY <1>2, <2>1, <2>5, <3>1
    <3> QED BY <2>6, <3>2, Zenon
  <2>8. CASE i # n
    <3>1. i + 1 \in 1 .. n /\ n - (i + 1) \in Nat /\ n - (i + 1) < j
      BY <1>2, <2>8
    <3>2. Before(ends, i + 1) = b
      BY DEF Before
    <3>3. n - (i + 1) \in T
      BY <1>4, <3>1, Zenon
    <3>4. b + rest >= 4 + Size
      <4> HIDE DEF a, b
      <4> QED BY <3>1, <3>2, <3>3
    <3>5. a + ((b - a) + rest) >= 4 + Size
      <4> HIDE DEF a, b, rest
      <4> QED BY <1>2, <2>1, <2>5, <3>4
    <3> QED BY <2>6, <3>5, Zenon
  <2> QED BY <2>7, <2>8
<1>5. \A j \in Nat : j \in T
  <2> HIDE DEF T
  <2> QED BY <1>4, OfSums!Induction
<1>6. Before(ends, 1) + BytesIn[From(s, 1)] >= 4 + Size
  <2>1. 1 \in 1 .. n /\ n - 1 \in Nat
    BY <1>2
  <2> QED BY <1>5, <2>1
<1>7. From(s, 1) = s
  BY UptoAll, <1>3 DEF From, Upto, Stream
<1>8. Before(ends, 1) = 0 /\ BytesIn[s] \in Nat
  BY BytesInType DEF Before
<1> QED BY <1>6, <1>7, <1>8

\* first_handshake_message, of the whole of a stream and of what has come of it.
LEMMA FindsTheMessage ==
    ASSUME NEW m \in Hello, NEW s \in Stream, Opens(s, m), NEW type
    PROVE  FirstHandshakeMessage(s, type) = IF TypeOf(m) = type THEN Bytes(m) ELSE <<>>
<1>1. Bytes(m) \in Seq(Byte) /\ Len(Bytes(m)) = 4 + Size /\ Bytes(m)[1].of = m
  BY BytesAre, TranscriptAssumption
<1>2. HasWhole(Bytes(m))
  <2>1. 4 + Size \in 0 .. 4 + Size
    BY TranscriptAssumption
  <2> QED BY <2>1, StartIs
<1>3. Upto(Bytes(m), Length(m)) = Bytes(m)
  BY <1>1, UptoAll DEF Length
<1>4. Gathered[<<s, <<>>>>] = Bytes(m)
  BY GathersAll
<1> QED BY <1>1, <1>2, <1>3, <1>4, Zenon DEF FirstHandshakeMessage

LEMMA FindsWhatCame ==
    ASSUME NEW m \in Hello, NEW s \in Stream, Opens(s, m), NEW n \in Nat, NEW type
    PROVE  FirstHandshakeMessage(FirstBytes[<<s, n>>], type) =
             IF n >= 4 + Size /\ TypeOf(m) = type THEN Bytes(m) ELSE <<>>
<1> DEFINE hs == Start(m, Come(n))
<1>1. Gathered[<<FirstBytes[<<s, n>>], <<>>>>] = hs
  BY GathersWhatCame
<1>2. Come(n) \in 0 .. 4 + Size /\ (n >= 4 + Size <=> Come(n) = 4 + Size)
  BY TranscriptAssumption DEF Come
<1>3. (HasWhole(hs) <=> Come(n) = 4 + Size) /\ Start(m, 4 + Size) = Bytes(m)
  BY <1>2, StartIs
<1>4. Bytes(m) \in Seq(Byte) /\ Len(Bytes(m)) = 4 + Size /\ Bytes(m)[1].of = m
  BY BytesAre, TranscriptAssumption
<1>5. Upto(Bytes(m), Length(m)) = Bytes(m)
  BY <1>4, UptoAll DEF Length
<1>6. CASE n >= 4 + Size
  <2>1. hs = Bytes(m) /\ HasWhole(hs)
    BY <1>2, <1>3, <1>6, Zenon
  <2> QED BY <1>1, <1>4, <1>5, <1>6, <2>1, Zenon DEF FirstHandshakeMessage
<1>7. CASE ~(n >= 4 + Size)
  <2>1. ~HasWhole(hs)
    BY <1>2, <1>3, <1>7, Zenon
  <2> QED BY <1>1, <1>7, <2>1, Zenon DEF FirstHandshakeMessage
<1> QED BY <1>6, <1>7

\* Nothing is found in nothing.
LEMMA FindsNothing ==
    ASSUME NEW n \in Nat, NEW type
    PROVE  FirstHandshakeMessage(FirstBytes[<<<<>>, n>>], type) = <<>>
<1>1. <<>> \in Stream /\ <<>> \in Seq(Byte)
  BY DEF Stream
<1>2. FirstBytes[<<<<>>, n>>] = <<>> /\ Gathered[<<<<>>, <<>>>>] = <<>>
  BY <1>1, NothingMore
<1>3. ~HasWhole(<<>>)
  BY DEF HasWhole
<1> QED BY <1>2, <1>3, Zenon DEF FirstHandshakeMessage

-----------------------------------------------------------------------------
(* What has been written, said and heard at every moment of a handshake.   *)

\* There is a HelloRetryRequest among the records.
AsksAgain(s) == \E r \in Range(s) : r.body = Bytes("RetryRequest")

ClientSaid ==
    IF phase["client"] = "start" THEN wrote["client"] = <<>>
    ELSE Opens(wrote["client"], "ClientHello")

ServerSaid ==
    IF phase["server"] = "start" THEN wrote["server"] = <<>>
    ELSE \/ Opens(wrote["server"], "RetryRequest") /\ Retried
         \/ Opens(wrote["server"], "ServerHello") /\ ~Retried

\* Nobody answers a hello before all of it is there.
HeardFirst ==
    /\ phase["client"] = "start" => phase["server"] = "start"
    /\ phase["server"] # "start" => heard["server"] >= 4 + Size
    /\ phase["client"] = "done" => heard["client"] >= 4 + Size

HandshakeInv ==
    /\ wrote \in [End -> Stream]
    /\ heard \in [End -> Nat]
    /\ phase \in [End -> {"start", "waiting", "asking", "retried", "done"}]
    /\ ClientSaid /\ ServerSaid /\ HeardFirst

\* A HelloRetryRequest is among the records of two streams if it is in either.
LEMMA AsksInEither ==
    ASSUME NEW s \in Stream, NEW more \in Stream
    PROVE  AsksAgain(s \o more) <=> AsksAgain(s) \/ AsksAgain(more)
<1>1. /\ Len(s) \in Nat /\ Len(more) \in Nat
      /\ DOMAIN s = 1 .. Len(s) /\ DOMAIN more = 1 .. Len(more)
      /\ DOMAIN (s \o more) = 1 .. Len(s) + Len(more)
      /\ \A i \in 1 .. Len(s) + Len(more) :
           (s \o more)[i] = IF i <= Len(s) THEN s[i] ELSE more[i - Len(s)]
  BY ConcatProperties DEF Stream
<1> DEFINE t == s \o more
           Asks(r) == r.body = Bytes("RetryRequest")
<1> HIDE DEF t, Asks
<1>2. /\ DOMAIN t = 1 .. Len(s) + Len(more)
      /\ \A i \in 1 .. Len(s) + Len(more) :
           t[i] = IF i <= Len(s) THEN s[i] ELSE more[i - Len(s)]
  BY <1>1 DEF t
<1>3. ASSUME NEW i \in DOMAIN s, Asks(s[i])  PROVE \E j \in DOMAIN t : Asks(t[j])
  <2>1. i \in DOMAIN t /\ i <= Len(s)
    BY <1>1, <1>2
  <2> QED BY <1>2, <1>3, <2>1
<1>4. ASSUME NEW i \in DOMAIN more, Asks(more[i])  PROVE \E j \in DOMAIN t : Asks(t[j])
  <2> DEFINE j == Len(s) + i
  <2>1. j \in DOMAIN t /\ j \in 1 .. Len(s) + Len(more) /\ ~(j <= Len(s)) /\ j - Len(s) = i
    BY <1>1, <1>2
  <2> HIDE DEF j
  <2>2. t[j] = more[i]
    BY <1>2, <2>1
  <2> QED BY <1>4, <2>1, <2>2, Zenon
<1>5. ASSUME NEW j \in DOMAIN t, Asks(t[j])
      PROVE  (\E i \in DOMAIN s : Asks(s[i])) \/ (\E i \in DOMAIN more : Asks(more[i]))
  <2>1. CASE j <= Len(s)
    <3>1. j \in DOMAIN s /\ t[j] = s[j]
      BY <1>1, <1>2, <2>1
    <3> QED BY <1>5, <3>1, Zenon
  <2>2. CASE ~(j <= Len(s))
    <3>1. j - Len(s) \in DOMAIN more /\ t[j] = more[j - Len(s)]
      BY <1>1, <1>2, <2>2
    <3> QED BY <1>5, <3>1, Zenon
  <2> QED BY <2>1, <2>2
<1>6. /\ AsksAgain(t) <=> \E j \in DOMAIN t : Asks(t[j])
      /\ AsksAgain(s) <=> \E i \in DOMAIN s : Asks(s[i])
      /\ AsksAgain(more) <=> \E i \in DOMAIN more : Asks(more[i])
  BY Zenon DEF AsksAgain, Asks, Range
<1> QED BY <1>3, <1>4, <1>5, <1>6, Zenon DEF t

\* Records of anything else are no HelloRetryRequest.
LEMMA OthersDoNotAsk ==
    ASSUME NEW s, \A r \in Range(s) : r.body[1].of # "RetryRequest"
    PROVE  ~AsksAgain(s)
<1>1. "RetryRequest" \in Hello /\ 1 \in 1 .. 4 + Size
  BY TranscriptAssumption DEF Hello
<1>2. Bytes("RetryRequest")[1].of = "RetryRequest"
  BY <1>1, BytesAre, Zenon
<1> QED BY <1>2, Zenon DEF AsksAgain

\* What an end sends after a hello.
LEMMA Closings ==
    /\ <<ChangeCipherSpec>> \in Stream /\ ~AsksAgain(<<ChangeCipherSpec>>)
    /\ <<ChangeCipherSpec, Encrypted>> \in Stream
    /\ ~AsksAgain(<<ChangeCipherSpec, Encrypted>>)
    /\ <<>> \in Stream /\ ~AsksAgain(<<>>)
<1> DEFINE c == ChangeCipherSpec
           d == Encrypted
<1>1. c \in Record /\ c.body[1].of = "ChangeCipherSpec"
  <2>1. [of |-> "ChangeCipherSpec", at |-> 1] \in Byte
    BY DEF Byte
  <2> QED BY <2>1 DEF ChangeCipherSpec, Rec, Record
<1>2. d \in Record /\ d.body[1].of = "Finished"
  <2>1. [of |-> "Finished", at |-> 1] \in Byte
    BY DEF Byte
  <2> QED BY <2>1 DEF Encrypted, Rec, Record
<1> HIDE DEF c, d
<1>3. <<c>> \in Stream /\ <<c, d>> \in Stream /\ <<>> \in Stream
  BY <1>1, <1>2 DEF Stream
<1>4. Range(<<c>>) = {c} /\ Range(<<c, d>>) = {c, d} /\ Range(<<>>) = {}
  BY DEF Range
<1>5. \A r \in {c, d} : r.body[1].of # "RetryRequest"
  BY <1>1, <1>2
<1>6. ~AsksAgain(<<c>>) /\ ~AsksAgain(<<c, d>>) /\ ~AsksAgain(<<>>)
  BY <1>4, <1>5, OthersDoNotAsk
<1> QED BY <1>3, <1>6 DEF c, d

\* A stream to which nothing, or to which nothing was, written.
LEMMA NothingBefore == ASSUME NEW s \in Stream PROVE <<>> \o s = s /\ s \o <<>> = s
BY ConcatEmptySeq DEF Stream

\* All that a peer has said has been heard, and it has said a hello.
LEMMA HeardAHello ==
    ASSUME HandshakeInv, NEW e \in End, HeardAll(e), NEW m \in Hello, Opens(wrote[Peer(e)], m)
    PROVE  heard[e] >= 4 + Size
<1>1. wrote[Peer(e)] \in Stream
  BY DEF HandshakeInv, Peer, End
<1>2. BytesIn[wrote[Peer(e)]] >= 4 + Size
  BY <1>1, HoldsAMessage
<1> QED BY <1>2 DEF HeardAll

\* What an end has written so far is a stream.
LEMMA WrittenSoFar ==
    ASSUME HandshakeInv
    PROVE  /\ wrote["client"] \in Stream /\ wrote["server"] \in Stream
           /\ heard["client"] \in Nat /\ heard["server"] \in Nat
           /\ "client" \in End /\ "server" \in End
           /\ Peer("client") = "server" /\ Peer("server") = "client"
           /\ {"ClientHello", "RetryRequest", "SecondClientHello", "ServerHello"} = Hello
BY DEF HandshakeInv, End, Peer, Hello

LEMMA ClientStartsInv == ASSUME HandshakeInv, ClientStarts PROVE HandshakeInv'
<1>1. PICK ends \in Cuts : Write("client", InRecords("ClientHello", ends), "waiting")
  BY DEF ClientStarts
<1> DEFINE s == InRecords("ClientHello", ends)
<1>2. s \in Stream /\ Opens(s, "ClientHello")
  BY WrittenOpens, WrittenSoFar
<1> HIDE DEF s
<1>3. phase["client"] = "start" /\ wrote["client"] = <<>>
  BY DEF ClientStarts, HandshakeInv, ClientSaid
<1>4. /\ wrote' = [wrote EXCEPT !["client"] = s]
      /\ phase' = [phase EXCEPT !["client"] = "waiting"]
      /\ heard' = heard
  BY <1>1, <1>2, <1>3, NothingBefore DEF Write, s
<1>5. /\ wrote' \in [End -> Stream] /\ heard' \in [End -> Nat]
      /\ phase' \in [End -> {"start", "waiting", "asking", "retried", "done"}]
  BY <1>2, <1>4 DEF HandshakeInv
<1>6. /\ wrote'["client"] = s /\ wrote'["server"] = wrote["server"]
      /\ phase'["client"] = "waiting" /\ phase'["server"] = phase["server"]
  BY <1>4 DEF HandshakeInv, End
<1>7. ClientSaid'
  BY <1>2, <1>6 DEF ClientSaid
<1>8. ServerSaid'
  <2>1. ServerSaid
    BY DEF HandshakeInv
  <2> QED BY <1>6, <2>1 DEF ServerSaid, Retried
<1>9. HeardFirst'
  BY <1>4, <1>6 DEF HandshakeInv, HeardFirst
<1> QED BY <1>5, <1>7, <1>8, <1>9 DEF HandshakeInv

\* The server says something more: a hello, if it has said nothing.
LEMMA ServerWritesInv ==
    ASSUME HandshakeInv, phase["client"] # "start", heard["server"] >= 4 + Size,
           NEW m \in {"RetryRequest", "ServerHello"}, NEW s \in Stream, Opens(s, m),
           AsksAgain(s) <=> m = "RetryRequest",
           phase["server"] # "start" => m = "ServerHello",
           NEW then \in {"waiting", "asking"}, Write("server", s, then)
    PROVE  HandshakeInv'
<1> DEFINE before == wrote["server"]
           t == before \o s
<1>1. before \in Stream
  BY WrittenSoFar
<1>2. t \in Stream
  BY <1>1, ConcatProperties DEF Stream
<1>3. /\ wrote' = [wrote EXCEPT !["server"] = t]
      /\ phase' = [phase EXCEPT !["server"] = then]
      /\ heard' = heard
  BY DEF Write
<1> HIDE DEF t
<1>4. /\ wrote' \in [End -> Stream] /\ heard' \in [End -> Nat]
      /\ phase' \in [End -> {"start", "waiting", "asking", "retried", "done"}]
  BY <1>2, <1>3 DEF HandshakeInv
<1>5. /\ wrote'["server"] = t /\ wrote'["client"] = wrote["client"]
      /\ phase'["server"] = then /\ phase'["client"] = phase["client"]
  BY <1>3 DEF HandshakeInv, End
<1>6. ClientSaid'
  <2>1. ClientSaid
    BY DEF HandshakeInv
  <2> QED BY <1>5, <2>1 DEF ClientSaid
<1>7. \/ Opens(t, "RetryRequest") /\ AsksAgain(t)
      \/ Opens(t, "ServerHello") /\ ~AsksAgain(t)
  <2>1. AsksAgain(t) <=> AsksAgain(before) \/ AsksAgain(s)
    BY <1>1, AsksInEither DEF t
  <2>2. CASE phase["server"] = "start"
    <3>1. before = <<>>
      BY <2>2 DEF HandshakeInv, ServerSaid
    <3>2. t = s
      BY <3>1, NothingBefore DEF t
    <3> QED BY <3>2
  <2>3. CASE phase["server"] # "start"
    <3>1. ~AsksAgain(s)
      BY <2>3
    <3>2. \/ Opens(before, "RetryRequest") /\ AsksAgain(before)
          \/ Opens(before, "ServerHello") /\ ~AsksAgain(before)
      BY <2>3 DEF HandshakeInv, ServerSaid, Retried, AsksAgain
    <3>3. \A h \in Hello : Opens(before, h) => Opens(t, h)
      BY <1>1, StillOpens DEF t
    <3>4. Opens(before, "RetryRequest") => Opens(t, "RetryRequest")
      BY <3>3, WrittenSoFar
    <3>5. Opens(before, "ServerHello") => Opens(t, "ServerHello")
      BY <3>3, WrittenSoFar
    <3> QED BY <2>1, <3>1, <3>2, <3>4, <3>5, Zenon
  <2> QED BY <2>2, <2>3
<1>8. ServerSaid'
  <2>1. (Retried' <=> AsksAgain(t)) /\ phase'["server"] # "start"
    BY <1>5 DEF Retried, AsksAgain
  <2>2. wrote["server"]' = t /\ phase["server"]' # "start"
    BY <1>5, <2>1
  <2> QED BY <1>7, <2>1, <2>2 DEF ServerSaid
<1>9. HeardFirst'
  BY <1>3, <1>5 DEF HandshakeInv, HeardFirst
<1> QED BY <1>4, <1>6, <1>8, <1>9 DEF HandshakeInv

LEMMA ServerAnswersInv == ASSUME HandshakeInv, ServerAnswers PROVE HandshakeInv'
<1> DEFINE closing == <<ChangeCipherSpec, Encrypted>>
<1>1. PICK ends \in Cuts :
        Write("server", InRecords("ServerHello", ends) \o closing, "waiting")
  BY DEF ServerAnswers
<1> DEFINE hello == InRecords("ServerHello", ends)
<1>2. /\ hello \in Stream /\ Opens(hello, "ServerHello")
      /\ \A r \in Range(hello) : r.body[1].of # "RetryRequest"
  BY WrittenOpens, WrittenSoFar
<1>3. closing \in Stream /\ ~AsksAgain(closing)
  BY Closings
<1> HIDE DEF hello, closing
<1>4. ~AsksAgain(hello)
  BY <1>2, OthersDoNotAsk
<1>5. hello \o closing \in Stream /\ Opens(hello \o closing, "ServerHello")
  BY <1>2, <1>3, StillOpens, WrittenSoFar
<1>6. ~AsksAgain(hello \o closing)
  BY <1>2, <1>3, <1>4, AsksInEither
<1>7. phase["client"] = "waiting" /\ HeardAll("server")
  BY DEF ServerAnswers
<1>8. Opens(wrote["client"], "ClientHello")
  BY <1>7 DEF HandshakeInv, ClientSaid
<1>9. heard["server"] >= 4 + Size
  BY <1>7, <1>8, HeardAHello, WrittenSoFar
<1> DEFINE s == hello \o closing
<1>10. Write("server", s, "waiting")
  BY <1>1 DEF hello
<1>11. s \in Stream /\ Opens(s, "ServerHello") /\ (AsksAgain(s) <=> "ServerHello" = "RetryRequest")
  BY <1>5, <1>6
<1> HIDE DEF s
<1> QED BY <1>7, <1>9, <1>10, <1>11, ServerWritesInv

LEMMA ServerRetriesInv == ASSUME HandshakeInv, ServerRetries PROVE HandshakeInv'
<1> DEFINE closing == <<ChangeCipherSpec>>
           hello == InRecords("RetryRequest", Uncut)
           s == hello \o closing
<1>1. Write("server", s, "asking") /\ phase["server"] = "start"
  BY DEF ServerRetries
<1>2. hello \in Stream /\ Opens(hello, "RetryRequest")
  BY UncutIsACut, WrittenOpens, WrittenSoFar
<1>3. AsksAgain(hello)
  <2>1. DOMAIN hello = {1}
    BY DEF InRecords, Uncut
  <2>2. hello[1] = Rec("handshake", SubSeq(Bytes("RetryRequest"), 1, 4 + Size))
    BY DEF InRecords, Uncut
  <2>3. SubSeq(Bytes("RetryRequest"), 1, 4 + Size) = Bytes("RetryRequest")
    <3>1. 4 + Size \in 0 .. 4 + Size
      BY TranscriptAssumption
    <3> QED BY <3>1, StartIs, WrittenSoFar DEF Start
  <2>4. hello[1].body = Bytes("RetryRequest")
    <3>1. \A body : Rec("handshake", body).body = body
      BY DEF Rec
    <3> QED BY <2>2, <2>3, <3>1, Zenon
  <2> HIDE DEF hello
  <2> QED BY <2>1, <2>4 DEF AsksAgain, Range
<1>4. closing \in Stream
  BY Closings
<1> HIDE DEF hello, closing
<1>5. s \in Stream /\ Opens(s, "RetryRequest") /\ AsksAgain(s)
  BY <1>2, <1>3, <1>4, StillOpens, AsksInEither, WrittenSoFar
<1>6. phase["client"] = "waiting" /\ HeardAll("server")
  BY DEF ServerRetries
<1>7. Opens(wrote["client"], "ClientHello")
  BY <1>6 DEF HandshakeInv, ClientSaid
<1>8. heard["server"] >= 4 + Size
  BY <1>6, <1>7, HeardAHello, WrittenSoFar
<1> HIDE DEF s
<1> QED BY <1>1, <1>5, <1>6, <1>8, ServerWritesInv

\* The client says something more, and the server may move on.
LEMMA ClientWritesInv ==
    ASSUME HandshakeInv, phase["client"] # "start",
           NEW s \in Stream, wrote' = [wrote EXCEPT !["client"] = @ \o s], heard' = heard,
           phase' \in [End -> {"start", "waiting", "asking", "retried", "done"}],
           phase'["client"] # "start",
           phase'["server"] = "start" <=> phase["server"] = "start",
           phase'["client"] = "done" => heard["client"] >= 4 + Size
    PROVE  HandshakeInv'
<1> DEFINE t == wrote["client"] \o s
<1>1. t \in Stream
  BY WrittenSoFar, ConcatProperties DEF Stream
<1>2. Opens(t, "ClientHello")
  BY StillOpens, WrittenSoFar DEF HandshakeInv, ClientSaid
<1>3. wrote' = [wrote EXCEPT !["client"] = t]
  OBVIOUS
<1> HIDE DEF t
<1>4. /\ wrote' \in [End -> Stream] /\ heard' \in [End -> Nat]
      /\ wrote'["client"] = t /\ wrote'["server"] = wrote["server"]
  BY <1>1, <1>3 DEF HandshakeInv, End
<1>5. ClientSaid'
  BY <1>2, <1>4 DEF ClientSaid
<1>6. ServerSaid'
  <2>1. ServerSaid
    BY DEF HandshakeInv
  <2> QED BY <1>4, <2>1 DEF ServerSaid, Retried
<1>7. HeardFirst'
  BY DEF HandshakeInv, HeardFirst
<1> QED BY <1>4, <1>5, <1>6, <1>7 DEF HandshakeInv

LEMMA ClientStartsAgainInv == ASSUME HandshakeInv, ClientStartsAgain PROVE HandshakeInv'
<1> DEFINE closing == <<ChangeCipherSpec>>
           hello == InRecords("SecondClientHello", Uncut)
           s == closing \o hello
<1>1. hello \in Stream
  BY UncutIsACut, WrittenOpens, WrittenSoFar
<1>2. closing \in Stream
  BY Closings
<1>3. wrote' = [wrote EXCEPT !["client"] = @ \o closing \o hello]
      /\ phase' = [phase EXCEPT !["server"] = "retried"] /\ heard' = heard
      /\ phase["server"] = "asking"
  BY DEF ClientStartsAgain
<1> HIDE DEF closing, hello
<1>4. (wrote["client"] \o closing) \o hello = wrote["client"] \o s
  <2> DEFINE before == wrote["client"]
  <2>1. before \in Seq(Record) /\ closing \in Seq(Record) /\ hello \in Seq(Record)
    BY <1>1, <1>2, WrittenSoFar DEF Stream
  <2> HIDE DEF before
  <2>2. (before \o closing) \o hello = before \o (closing \o hello)
    BY <2>1, ConcatAssociative
  <2> QED BY <2>2 DEF before
<1>5. s \in Stream
  BY <1>1, <1>2, ConcatProperties DEF Stream
<1> HIDE DEF s
<1>6. wrote' = [wrote EXCEPT !["client"] = @ \o s]
  BY <1>3, <1>4
<1>7. /\ phase' \in [End -> {"start", "waiting", "asking", "retried", "done"}]
      /\ phase'["server"] = "retried" /\ phase'["client"] = phase["client"]
  BY <1>3 DEF HandshakeInv, End
<1>8. phase["client"] # "start" /\ (phase["client"] = "done" => heard["client"] >= 4 + Size)
  BY <1>3 DEF HandshakeInv, HeardFirst
<1> QED BY <1>3, <1>5, <1>6, <1>7, <1>8, ClientWritesInv

LEMMA ClientFinishesInv == ASSUME HandshakeInv, ClientFinishes PROVE HandshakeInv'
<1> DEFINE s == <<ChangeCipherSpec, Encrypted>>
<1>1. /\ phase["client"] = "waiting" /\ phase["server"] = "waiting" /\ HeardAll("client")
      /\ Write("client", s, "done")
  BY DEF ClientFinishes
<1>2. s \in Stream
  BY Closings
<1> HIDE DEF s
<1>3. wrote' = [wrote EXCEPT !["client"] = @ \o s] /\ heard' = heard
      /\ phase' = [phase EXCEPT !["client"] = "done"]
  BY <1>1 DEF Write
<1>4. /\ phase' \in [End -> {"start", "waiting", "asking", "retried", "done"}]
      /\ phase'["server"] = phase["server"] /\ phase'["client"] = "done"
  BY <1>3 DEF HandshakeInv, End
<1>5. Opens(wrote["server"], "RetryRequest") \/ Opens(wrote["server"], "ServerHello")
  BY <1>1 DEF HandshakeInv, ServerSaid
<1>6. heard["client"] >= 4 + Size
  BY <1>1, <1>5, HeardAHello, WrittenSoFar
<1> QED BY <1>1, <1>2, <1>3, <1>4, <1>6, ClientWritesInv

LEMMA ServerFinishesInv == ASSUME HandshakeInv, ServerFinishes PROVE HandshakeInv'
<1>1. /\ phase["client"] = "done" /\ phase["server"] = "waiting"
      /\ Write("server", <<>>, "done")
  BY DEF ServerFinishes
<1>2. /\ wrote' = [wrote EXCEPT !["server"] = @ \o <<>>] /\ heard' = heard
      /\ phase' = [phase EXCEPT !["server"] = "done"]
  BY <1>1 DEF Write
<1>3. wrote' = wrote
  <2>1. wrote["server"] \o <<>> = wrote["server"]
    BY WrittenSoFar, NothingBefore
  <2> QED BY <1>2, <2>1 DEF HandshakeInv
<1>4. /\ phase' \in [End -> {"start", "waiting", "asking", "retried", "done"}]
      /\ phase'["server"] = "done" /\ phase'["client"] = phase["client"]
  BY <1>2 DEF HandshakeInv, End
<1>5. ClientSaid' /\ ServerSaid'
  <2>1. ClientSaid /\ ServerSaid
    BY DEF HandshakeInv
  <2> QED BY <1>1, <1>3, <1>4, <2>1 DEF ClientSaid, ServerSaid, Retried
<1>6. HeardFirst'
  BY <1>1, <1>2, <1>4 DEF HandshakeInv, HeardFirst
<1> QED BY <1>2, <1>3, <1>4, <1>5, <1>6 DEF HandshakeInv

LEMMA FeedInv == ASSUME HandshakeInv, NEW e \in End, Feed(e) PROVE HandshakeInv'
<1>1. heard' = [heard EXCEPT ![e] = @ + 1] /\ wrote' = wrote /\ phase' = phase
  BY DEF Feed
<1>2. heard' \in [End -> Nat] /\ \A f \in End : heard'[f] >= heard[f]
  BY <1>1 DEF HandshakeInv
<1>3. /\ heard["client"] \in Nat /\ heard["server"] \in Nat
      /\ heard'["client"] \in Nat /\ heard'["server"] \in Nat
      /\ heard'["client"] >= heard["client"] /\ heard'["server"] >= heard["server"]
  BY <1>2, WrittenSoFar
<1>4. HeardFirst'
  BY <1>1, <1>3, TranscriptAssumption DEF HandshakeInv, HeardFirst
<1>5. ClientSaid' /\ ServerSaid'
  <2>1. ClientSaid /\ ServerSaid
    BY DEF HandshakeInv
  <2> QED BY <1>1, <2>1 DEF ClientSaid, ServerSaid, Retried
<1> QED BY <1>1, <1>2, <1>4, <1>5 DEF HandshakeInv

\* The state before a connection, and after the last one.
LEMMA UnconnectedInv ==
    /\ TranscriptInit => HandshakeInv
    /\ HangUp => HandshakeInv'
<1>1. /\ <<>> \in Stream
      /\ Unconnected.wrote = [e \in End |-> <<>>]
      /\ Unconnected.heard = [e \in End |-> 0]
      /\ Unconnected.phase = [e \in End |-> "start"]
  BY DEF Unconnected, Stream
<1>2. ASSUME TranscriptInit  PROVE HandshakeInv
  BY <1>1, <1>2 DEF TranscriptInit, HandshakeInv, ClientSaid, ServerSaid, HeardFirst, End
<1>3. ASSUME HangUp  PROVE HandshakeInv'
  <2>1. /\ wrote' = [e \in End |-> <<>>] /\ heard' = [e \in End |-> 0]
        /\ phase' = [e \in End |-> "start"]
    BY <1>1, <1>3 DEF HangUp
  <2> QED BY <1>1, <2>1 DEF HandshakeInv, ClientSaid, ServerSaid, HeardFirst, End
<1> QED BY <1>2, <1>3

LEMMA HandshakeStepInv == ASSUME HandshakeInv, [Next]_vars PROVE HandshakeInv'
<1>1. CASE UNCHANGED transcriptVars
  BY <1>1 DEF transcriptVars, HandshakeInv, ClientSaid, ServerSaid, HeardFirst, Retried
<1>2. CASE Handshake
  <2>1. CASE ClientStarts
    BY <2>1, ClientStartsInv
  <2>2. CASE ServerAnswers
    BY <2>2, ServerAnswersInv
  <2>3. CASE ServerRetries
    BY <2>3, ServerRetriesInv
  <2>4. CASE ClientStartsAgain
    BY <2>4, ClientStartsAgainInv
  <2>5. CASE ClientFinishes
    BY <2>5, ClientFinishesInv
  <2>6. CASE ServerFinishes
    BY <2>6, ServerFinishesInv
  <2>7. CASE \E e \in End : Feed(e)
    BY <2>7, FeedInv
  <2> QED BY <1>2, <2>1, <2>2, <2>3, <2>4, <2>5, <2>6, <2>7 DEF Handshake
<1>3. CASE HangUp
  BY <1>3, UnconnectedInv
<1>4. CASE UNCHANGED vars
  BY <1>1, <1>4 DEF vars
<1> QED BY <1>1, <1>2, <1>3, <1>4
     DEF Next, Connection, Appraise, AppraiseElsewhere, Verification, Death

LEMMA HandshakeInvHolds == Spec => []HandshakeInv
<1>1. Init => HandshakeInv
  BY UnconnectedInv DEF Init
<1>2. HandshakeInv /\ [Next]_vars => HandshakeInv'
  BY HandshakeStepInv
<1> QED BY <1>1, <1>2, PTL DEF Spec

-----------------------------------------------------------------------------
(* What the two ends find.                                                 *)

\* What the client and the server have recorded, by what each stream opens with.
LEMMA SaidIs ==
    ASSUME HandshakeInv
    PROVE  /\ wrote["client"] = <<>> \/ Opens(wrote["client"], "ClientHello")
           /\ \/ wrote["server"] = <<>>
              \/ Opens(wrote["server"], "RetryRequest")
              \/ Opens(wrote["server"], "ServerHello")
BY DEF HandshakeInv, ClientSaid, ServerSaid

\* Whatever an end looks for in what it has received, while the handshake is
\* under way too: first_handshake_message returns a whole message or None, never
\* a message that has only partly come and never one that is not the first.
THEOREM NoHalfHello == Spec => []NeverHalf
<1>1. ASSUME HandshakeInv  PROVE NeverHalf
  <2> DEFINE Found == {<<>>} \cup {Bytes(m) : m \in {"ClientHello", "RetryRequest", "ServerHello"}}
  <2> SUFFICES ASSUME NEW e \in End, NEW type \in {1, 2}
               PROVE  FirstHandshakeMessage(Received(e), type) \in Found
    BY DEF NeverHalf
  <2> DEFINE s == wrote[Peer(e)]
             n == heard[e]
  <2>1. s \in Stream /\ n \in Nat /\ Received(e) = FirstBytes[<<s, n>>]
    BY <1>1 DEF HandshakeInv, Peer, End, Received
  <2>2. \/ s = <<>>
        \/ \E m \in {"ClientHello", "RetryRequest", "ServerHello"} : Opens(s, m)
    BY <1>1, SaidIs DEF Peer
  <2> HIDE DEF s, n, Found
  <2>3. CASE s = <<>>
    <3>1. FirstHandshakeMessage(FirstBytes[<<s, n>>], type) = <<>>
      BY <2>1, <2>3, FindsNothing
    <3> QED BY <2>1, <3>1 DEF Found
  <2>4. ASSUME NEW m \in {"ClientHello", "RetryRequest", "ServerHello"}, Opens(s, m)
        PROVE  FirstHandshakeMessage(Received(e), type) \in Found
    <3>1. m \in Hello
      BY DEF Hello
    <3>2. FirstHandshakeMessage(FirstBytes[<<s, n>>], type)
            = IF n >= 4 + Size /\ TypeOf(m) = type THEN Bytes(m) ELSE <<>>
      BY <2>1, <2>4, <3>1, FindsWhatCame
    <3>3. FirstHandshakeMessage(FirstBytes[<<s, n>>], type) \in {Bytes(m), <<>>}
      BY <3>2, Zenon
    <3> QED BY <2>1, <3>3 DEF Found
  <2> QED BY <2>2, <2>3, <2>4
<1>2. HandshakeInv => NeverHalf
  BY <1>1
<1> QED BY <1>2, HandshakeInvHolds, PTL

\* transcript_ch_sh, of a ClientHello and of what the server said first.
LEMMA TranscriptIs ==
    ASSUME NEW toServer, NEW toClient, NEW m \in {"RetryRequest", "ServerHello"},
           FirstHandshakeMessage(toServer, 1) = Bytes("ClientHello"),
           FirstHandshakeMessage(toClient, 2) = Bytes(m)
    PROVE  TranscriptOf(toServer, toClient) =
             IF m = "RetryRequest" THEN <<>> ELSE <<Bytes("ClientHello"), Bytes("ServerHello")>>
<1>1. "ClientHello" \in Hello /\ m \in Hello /\ 1 \in 1 .. 4 + Size
  BY TranscriptAssumption DEF Hello
<1>2. Bytes("ClientHello") # <<>> /\ Bytes(m) # <<>> /\ Bytes(m)[1].of = m
  BY <1>1, BytesAre, Zenon
<1>3. Refused(Bytes("ClientHello"), Bytes(m)) <=> m = "RetryRequest"
  BY <1>2, Zenon DEF Refused
<1>4. CASE m = "RetryRequest"
  BY <1>3, <1>4, Zenon DEF TranscriptOf
<1>5. CASE m = "ServerHello"
  BY <1>3, <1>5 DEF TranscriptOf
<1> QED BY <1>4, <1>5

\* However the hellos were cut into records and however few bytes came at a time:
\* once both ends are connected, each finds the ClientHello and the ServerHello
\* that were sent, or both refuse a handshake in which there was a retry.  So a
\* binder the guest derives from its recording is the relying party's.
THEOREM BothFindTheSame == Spec => []EndsAgree
<1>1. ASSUME HandshakeInv, Connected, NEW e \in End
      PROVE  Recorded(e) =
               IF Retried THEN <<>> ELSE <<Bytes("ClientHello"), Bytes("ServerHello")>>
  <2> DEFINE c == wrote["client"]
             s == wrote["server"]
  <2>1. /\ c \in Stream /\ s \in Stream /\ heard["client"] \in Nat /\ heard["server"] \in Nat
        /\ {"ClientHello", "RetryRequest", "SecondClientHello", "ServerHello"} = Hello
    BY <1>1, WrittenSoFar
  <2>2. phase["client"] = "done" /\ phase["server"] = "done"
    BY <1>1 DEF Connected, End
  <2>3. Opens(c, "ClientHello")
    BY <1>1, <2>2 DEF HandshakeInv, ClientSaid
  <2>4. PICK m \in {"RetryRequest", "ServerHello"} :
          Opens(s, m) /\ (Retried <=> m = "RetryRequest")
    BY <1>1, <2>2 DEF HandshakeInv, ServerSaid
  <2>5. heard["client"] >= 4 + Size /\ heard["server"] >= 4 + Size
    BY <1>1, <2>2 DEF HandshakeInv, HeardFirst
  <2>6. Received("client") = FirstBytes[<<s, heard["client"]>>]
        /\ Received("server") = FirstBytes[<<c, heard["server"]>>]
    BY DEF Received, Peer
  <2>7. TypeOf("ClientHello") = 1 /\ TypeOf(m) = 2 /\ "ClientHello" \in Hello /\ m \in Hello
    BY <2>1 DEF TypeOf
  <2> HIDE DEF c, s
  <2>8. /\ FirstHandshakeMessage(c, 1) = Bytes("ClientHello")
        /\ FirstHandshakeMessage(s, 2) = Bytes(m)
    BY <2>1, <2>3, <2>4, <2>7, FindsTheMessage
  <2>9. /\ FirstHandshakeMessage(Received("server"), 1) = Bytes("ClientHello")
        /\ FirstHandshakeMessage(Received("client"), 2) = Bytes(m)
    <3> DEFINE n == heard["client"]
               l == heard["server"]
    <3>1. FirstHandshakeMessage(FirstBytes[<<c, l>>], 1)
            = IF l >= 4 + Size /\ TypeOf("ClientHello") = 1 THEN Bytes("ClientHello") ELSE <<>>
      <4>1. c \in Stream /\ l \in Nat /\ "ClientHello" \in Hello /\ Opens(c, "ClientHello")
        BY <2>1, <2>3, <2>7, Zenon
      <4> HIDE DEF l
      <4> QED BY <4>1, FindsWhatCame
    <3>2. FirstHandshakeMessage(FirstBytes[<<s, n>>], 2)
            = IF n >= 4 + Size /\ TypeOf(m) = 2 THEN Bytes(m) ELSE <<>>
      <4>1. s \in Stream /\ n \in Nat /\ m \in Hello /\ Opens(s, m)
        BY <2>1, <2>4, <2>7, Zenon
      <4> HIDE DEF n
      <4> QED BY <4>1, FindsWhatCame
    <3> QED BY <2>5, <2>6, <2>7, <3>1, <3>2, Zenon
  <2>10. /\ TranscriptOf(c, Received("client")) =
              IF Retried THEN <<>> ELSE <<Bytes("ClientHello"), Bytes("ServerHello")>>
         /\ TranscriptOf(Received("server"), s) =
              IF Retried THEN <<>> ELSE <<Bytes("ClientHello"), Bytes("ServerHello")>>
    BY <2>4, <2>8, <2>9, TranscriptIs
  <2>11. CASE e = "client"
    BY <2>10, <2>11 DEF Recorded, c
  <2>12. CASE e = "server"
    BY <2>10, <2>12 DEF Recorded, s
  <2> QED BY <2>11, <2>12 DEF End
<1>2. HandshakeInv => EndsAgree
  BY <1>1 DEF EndsAgree
<1> QED BY <1>2, HandshakeInvHolds, PTL

-----------------------------------------------------------------------------
(* Verifications.  The shape of what a verifier is asked and says.         *)

USE VerifierAssumption, VerificationAssumption

Verdict == [report : Snp, accepted : BOOLEAN]

\* What a verification that goes on still has to look at, and what it has
\* found out about the report so far.
Due(r, left) ==
    /\ r.sound
    /\ r.key \in {"VCEK", "VLEK"}
    /\ r.key = "VLEK" => r.supplied
    /\ \/ /\ r.key = "VCEK" /\ ~r.require_chain
          /\ left = <<Leaf(r.chip)>>
       \/ /\ r.key = "VCEK" /\ r.require_chain
          /\ left = <<Leaf(r.chip), ChainFile(r.key)>>
       \/ /\ r.require_chain /\ r.signed
          /\ left = <<ChainFile(r.key)>>

EachIsDue == \A c \in Call : Busy(c) => Due(job[c].report, job[c].left)

Inv ==
    /\ VerifierTypeOK
    /\ EachIsDue
    /\ AcceptedIsGenuine
    /\ TornOnlyWhenCut

\* A step of the verifiers, wherever their reports come from.
VerifierNext ==
    \E c \in Call : (\E r \in Snp : Begin(c, r)) \/ Proceed(c) \/ Die(c)

-----------------------------------------------------------------------------
(* Reports and what is looked at for them.                                 *)

\* A leaf and a chain never have one name.
LEMMA LeafIsNoChain == ASSUME NEW chip, NEW key PROVE Leaf(chip) # ChainFile(key)
<1>1. DOMAIN Leaf(chip) = {"of"} /\ DOMAIN ChainFile(key) = {"chain"}
  BY DEF Leaf, ChainFile
<1> QED BY <1>1

\* Two sequences of one make a sequence of two.
LEMMA TwoInARow == ASSUME NEW a, NEW b PROVE <<a>> \o <<b>> = <<a, b>>
<1> DEFINE S == {a, b}
<1>1. <<a>> \in Seq(S) /\ <<b>> \in Seq(S) /\ <<a, b>> \in Seq(S)
  OBVIOUS
<1>2. <<a>> \o <<b>> \in Seq(S) /\ Len(<<a>> \o <<b>>) = 2
  BY <1>1, ConcatProperties
<1>3. \A i \in 1 .. 2 : (<<a>> \o <<b>>)[i] = <<a, b>>[i]
  BY <1>1, ConcatProperties
<1> HIDE DEF S
<1> QED BY <1>1, <1>2, <1>3, SeqEqual

\* What is due are certificates, at least one.
LEMMA DueAreNames ==
    ASSUME NEW r \in Snp, NEW left, Due(r, left)
    PROVE  left \in Seq(Name) /\ left # <<>> /\ Head(left) \in Name
<1>1. Leaf(r.chip) \in Name
  BY DEF Name, Snp
<1>2. ChainFile(r.key) \in Name
  BY DEF Name, Due
<1>3. CASE left = <<Leaf(r.chip), ChainFile(r.key)>>
  BY <1>1, <1>2, <1>3
<1>4. CASE left = <<Leaf(r.chip)>>
  BY <1>1, <1>4
<1>5. CASE left = <<ChainFile(r.key)>>
  BY <1>2, <1>5
<1> QED BY <1>3, <1>4, <1>5 DEF Due

\* What a report wants is due when it is not refused at once.
LEMMA WantedIsDue ==
    ASSUME NEW r \in Snp, ~Inadmissible(r), Wanted(r) # <<>>
    PROVE  Due(r, Wanted(r))
<1>1. CASE r.key = "VCEK" /\ r.require_chain
  <2>1. Wanted(r) = <<Leaf(r.chip)>> \o <<ChainFile(r.key)>>
    BY <1>1 DEF Wanted
  <2>2. <<Leaf(r.chip)>> \o <<ChainFile(r.key)>> = <<Leaf(r.chip), ChainFile(r.key)>>
    BY TwoInARow
  <2> QED BY <1>1, <2>1, <2>2 DEF Due, Inadmissible
<1>2. CASE r.key = "VCEK" /\ ~r.require_chain
  <2>1. Wanted(r) = <<Leaf(r.chip)>>
    BY <1>2 DEF Wanted
  <2> QED BY <1>2, <2>1 DEF Due, Inadmissible
<1>3. CASE r.key = "VLEK"
  <2>1. r.require_chain /\ Wanted(r) = <<ChainFile(r.key)>>
    BY <1>3 DEF Wanted
  <2> QED BY <1>3, <2>1 DEF Due, Inadmissible
<1> QED BY <1>1, <1>2, <1>3 DEF Snp, Inadmissible

\* A report for which nothing is wanted is genuine when it is not refused.
LEMMA NothingWanted ==
    ASSUME NEW r \in Snp, ~Inadmissible(r), Wanted(r) = <<>>
    PROVE  Genuine(r)
<1>1. r.key = "VLEK"
  <2>1. ASSUME r.key = "VCEK" PROVE FALSE
    BY <2>1 DEF Wanted, ChainFile
  <2> QED BY <2>1 DEF Inadmissible, Snp
<1>2. ~r.require_chain
  BY <1>1 DEF Wanted
<1> QED BY <1>1, <1>2 DEF Inadmissible, Genuine

\* No genuine report is refused at once.
LEMMA GenuineIsAdmissible == ASSUME NEW r \in Snp, Genuine(r) PROVE ~Inadmissible(r)
BY DEF Genuine, Inadmissible

\* For a genuine report every whole certificate that is due speaks.
LEMMA WholeSpeaks ==
    ASSUME NEW r \in Snp, NEW left, Due(r, left), Genuine(r)
    PROVE  Speaks(r, Head(left), Whole)
BY LeafIsNoChain DEF Due, Genuine, Speaks

\* When the last certificate has spoken for it, the report is genuine; when
\* one has that is not the last, the rest is due.
LEMMA SpokenFor ==
    ASSUME NEW r \in Snp, NEW left, Due(r, left), NEW data, Speaks(r, Head(left), data)
    PROVE  IF Tail(left) = <<>> THEN Genuine(r) ELSE Due(r, Tail(left))
<1>1. CASE left = <<Leaf(r.chip)>> /\ r.key = "VCEK" /\ ~r.require_chain
  BY <1>1 DEF Due, Genuine, Speaks
<1>2. CASE left = <<Leaf(r.chip), ChainFile(r.key)>> /\ r.key = "VCEK" /\ r.require_chain
  <2>1. Tail(left) = <<ChainFile(r.key)>> /\ Head(left) = Leaf(r.chip)
    BY <1>2
  <2>2. r.signed
    BY <2>1 DEF Speaks
  <2> QED BY <1>2, <2>1, <2>2 DEF Due
<1>3. CASE left = <<ChainFile(r.key)>> /\ r.require_chain /\ r.signed
  <2>1. Head(left) = ChainFile(r.key) /\ Tail(left) = <<>>
    BY <1>3
  <2>2. r.rooted
    BY <2>1, LeafIsNoChain DEF Speaks
  <2> QED BY <1>3, <2>1, <2>2 DEF Due, Genuine
<1> QED BY <1>1, <1>2, <1>3 DEF Due

-----------------------------------------------------------------------------
(* Where a step leaves the verifications.                                  *)

\* The step leaves c at j, and every other verification where it was.
Moves(c, j) ==
    /\ j \in Job \cup {None}
    /\ job' = [job EXCEPT ![c] = j]
    /\ j # None => Due(j.report, j.left)

\* A verification under way has a report, and a certificate it is at.
LEMMA BusyHasReport ==
    ASSUME VerifierTypeOK, EachIsDue, NEW c \in Call, Busy(c)
    PROVE  /\ job[c] \in Job /\ job[c].report \in Snp
           /\ Due(job[c].report, job[c].left)
           /\ Current(c) \in Name
<1>1. job[c] \in Job
  BY DEF VerifierTypeOK, Busy
<1>2. job[c].report \in Snp /\ Due(job[c].report, job[c].left)
  BY <1>1 DEF Job, EachIsDue
<1> QED BY <1>1, <1>2, DueAreNames DEF Current

\* Wherever a step leaves a verification, the others are undisturbed.
LEMMA MoveKeeps ==
    ASSUME VerifierTypeOK, EachIsDue, NEW c \in Call, NEW j, Moves(c, j)
    PROVE  /\ job' \in [Call -> Job \cup {None}]
           /\ job'[c] = j
           /\ \A d \in Call \ {c} : job'[d] = job[d]
           /\ \A d \in Call : Busy(d)' => job'[d].left # <<>>
           /\ EachIsDue'
<1>1. /\ job' \in [Call -> Job \cup {None}]
      /\ job'[c] = j
      /\ \A d \in Call \ {c} : job'[d] = job[d]
  BY DEF Moves, VerifierTypeOK
<1>2. \A d \in Call : Busy(d)' => Due(job'[d].report, job'[d].left)
  BY <1>1 DEF Moves, EachIsDue, Busy
<1>3. EachIsDue'
  BY <1>2 DEF EachIsDue, Due, Leaf, ChainFile
<1>4. ASSUME NEW d \in Call, Busy(d)' PROVE job'[d].left # <<>>
  BY <1>1, <1>2, <1>4 DEF Due, Busy
<1> QED BY <1>1, <1>3, <1>4

\* A verdict that accepts only what is genuine keeps the verdicts genuine.
LEMMA AnswerKeeps ==
    ASSUME VerifierTypeOK, EachIsDue, AcceptedIsGenuine, NEW c \in Call,
           NEW r \in Snp, NEW yes \in BOOLEAN, Answer(c, r, yes),
           yes => Genuine(r)
    PROVE  /\ Moves(c, None)
           /\ verdict' \in [Call -> Verdict \cup {None}]
           /\ AcceptedIsGenuine'
<1> DEFINE v == [report |-> r, accepted |-> yes]
<1>1. v \in Verdict /\ v.report = r /\ v.accepted = yes
  BY DEF Verdict
<1>2. verdict' = [verdict EXCEPT ![c] = v]
  BY DEF Answer
<1> HIDE DEF v
<1>3. verdict' \in [Call -> Verdict \cup {None}]
  BY <1>1, <1>2 DEF VerifierTypeOK, Verdict
<1>4. ASSUME NEW d \in Call, verdict'[d] # None, verdict'[d].accepted
      PROVE  Genuine(verdict'[d].report)
  <2>1. CASE d = c
    BY <1>1, <1>2, <1>4, <2>1 DEF VerifierTypeOK
  <2>2. CASE d # c
    BY <1>2, <1>4, <2>2 DEF VerifierTypeOK, AcceptedIsGenuine
  <2> QED BY <2>1, <2>2
<1>5. AcceptedIsGenuine'
  BY <1>4 DEF AcceptedIsGenuine, Genuine
<1>6. Moves(c, None)
  BY DEF Answer, Moves
<1> QED BY <1>3, <1>5, <1>6

\* A refusal leaves nothing to do.
LEMMA RefuseKeeps ==
    ASSUME VerifierTypeOK, EachIsDue, AcceptedIsGenuine, NEW c \in Call, Busy(c),
           Refuse(c)
    PROVE  /\ Moves(c, None)
           /\ verdict' \in [Call -> Verdict \cup {None}]
           /\ AcceptedIsGenuine'
BY BusyHasReport, AnswerKeeps DEF Refuse

\* A certificate judged ends the verification or leaves it at the next.
LEMMA JudgeKeeps ==
    ASSUME VerifierTypeOK, EachIsDue, AcceptedIsGenuine, NEW c \in Call, Busy(c),
           NEW data, Judge(c, data)
    PROVE  /\ \E j : Moves(c, j) /\ (j # None => j.at = "look")
           /\ verdict' \in [Call -> Verdict \cup {None}]
           /\ AcceptedIsGenuine'
<1> DEFINE r == job[c].report
           next == Tail(job[c].left)
<1>1. r \in Snp /\ Due(r, job[c].left)
  BY BusyHasReport
<1>2. CASE ~Speaks(r, Current(c), data)
  <2>1. Refuse(c)
    BY <1>2 DEF Judge
  <2> QED BY <2>1, RefuseKeeps
<1>3. CASE Speaks(r, Current(c), data) /\ next = <<>>
  <2>1. Answer(c, r, TRUE)
    BY <1>3 DEF Judge
  <2>2. Genuine(r)
    BY <1>1, <1>3, SpokenFor DEF Current
  <2> QED BY <1>1, <2>1, <2>2, AnswerKeeps
<1>4. CASE Speaks(r, Current(c), data) /\ next # <<>>
  <2>1. job' = [job EXCEPT ![c] = Look(r, next)] /\ verdict' = verdict
    BY <1>4 DEF Judge
  <2>2. Due(r, next)
    BY <1>1, <1>4, SpokenFor DEF Current
  <2>3. next \in Seq(Name)
    BY <1>1, <2>2, DueAreNames
  <2> HIDE DEF r, next
  <2>4. /\ Look(r, next) \in Job
        /\ Look(r, next).report = r /\ Look(r, next).left = next
        /\ Look(r, next).at = "look"
    BY <1>1, <2>3 DEF Look, Job
  <2>5. Moves(c, Look(r, next))
    BY <2>1, <2>2, <2>4 DEF Moves
  <2>6. AcceptedIsGenuine'
    BY <2>1 DEF AcceptedIsGenuine, Genuine
  <2> QED BY <2>1, <2>4, <2>5, <2>6 DEF VerifierTypeOK, Verdict
<1> QED BY <1>2, <1>3, <1>4

-----------------------------------------------------------------------------
(* The invariant.                                                          *)

\* A torn file is accounted for when it was torn before the step and the one
\* who moved was not writing it, or has cut its write short; or when the one
\* who moved has just begun to write it.
LEMMA TornKeeps ==
    ASSUME VerifierTypeOK, EachIsDue, TornOnlyWhenCut,
           NEW c \in Call, NEW j, Moves(c, j), cut \subseteq cut',
           \A n \in Name : file'[n] = Torn =>
               \/ file[n] = Torn /\ (Writing(c, n) => n \in cut')
               \/ Writing(c, n)'
    PROVE  TornOnlyWhenCut'
<1> SUFFICES ASSUME NEW n \in Name, file'[n] = Torn, n \notin cut'
             PROVE  \E d \in Call : Writing(d, n)'
  BY DEF TornOnlyWhenCut, Name, Leaf, ChainFile
<1>1. CASE Writing(c, n)'
  BY <1>1
<1>2. CASE ~Writing(c, n)'
  <2>1. file[n] = Torn /\ ~Writing(c, n) /\ n \notin cut
    BY <1>2
  <2>2. PICK d \in Call : Writing(d, n)
    BY <2>1 DEF TornOnlyWhenCut
  <2>3. job'[d] = job[d]
    BY <2>1, <2>2, MoveKeeps
  <2>4. Writing(d, n)'
    BY <2>2, <2>3 DEF Writing, At, Busy, Current
  <2> QED BY <2>4
<1> QED BY <1>1, <1>2

\* The invariant, from its parts.
LEMMA InvFrom ==
    ASSUME VerifierTypeOK, EachIsDue, NEW c \in Call, NEW j, Moves(c, j),
           verdict' \in [Call -> Verdict \cup {None}],
           file' \in [Name -> {None, Torn, Whole}], cut' \subseteq Name,
           AcceptedIsGenuine', TornOnlyWhenCut'
    PROVE  Inv'
<1>1. VerifierTypeOK'
  BY MoveKeeps DEF VerifierTypeOK, Verdict, Name, Leaf, ChainFile, Snp, Job, Busy
<1> QED BY <1>1, MoveKeeps DEF Inv

\* A verification asked for is refused at once, accepted at once when nothing
\* is wanted, or finds all that is wanted due.
LEMMA BeginInv ==
    ASSUME Inv, NEW c \in Call, NEW r \in Snp, Begin(c, r)
    PROVE  Inv'
<1> USE DEF Inv
<1>1. UNCHANGED <<file, cut>> /\ ~Busy(c)
  BY DEF Begin
<1>2. ASSUME NEW j, Moves(c, j) PROVE TornOnlyWhenCut'
  BY <1>1, <1>2, TornKeeps DEF Writing, At
<1>3. ASSUME NEW yes \in BOOLEAN, Answer(c, r, yes), yes => Genuine(r) PROVE Inv'
  <2>1. /\ Moves(c, None)
        /\ verdict' \in [Call -> Verdict \cup {None}]
        /\ AcceptedIsGenuine'
    BY <1>3, AnswerKeeps
  <2> QED BY <1>1, <1>2, <2>1, InvFrom DEF VerifierTypeOK
<1>4. CASE Inadmissible(r)
  BY <1>3, <1>4 DEF Begin
<1>5. CASE ~Inadmissible(r) /\ Wanted(r) = <<>>
  BY <1>3, <1>5, NothingWanted DEF Begin
<1>6. CASE ~Inadmissible(r) /\ Wanted(r) # <<>>
  <2> DEFINE j == Look(r, Wanted(r))
  <2>1. job' = [job EXCEPT ![c] = j] /\ verdict' = [verdict EXCEPT ![c] = None]
    BY <1>6 DEF Begin
  <2>2. Due(r, Wanted(r)) /\ Wanted(r) \in Seq(Name)
    BY <1>6, WantedIsDue, DueAreNames
  <2>3. j \in Job /\ j.report = r /\ j.left = Wanted(r)
    BY <2>2 DEF Look, Job
  <2> HIDE DEF j
  <2>4. Moves(c, j)
    BY <2>1, <2>2, <2>3 DEF Moves
  <2>5. AcceptedIsGenuine'
    BY <2>1 DEF AcceptedIsGenuine, Genuine, VerifierTypeOK
  <2>6. verdict' \in [Call -> Verdict \cup {None}]
    BY <2>1 DEF VerifierTypeOK, Verdict
  <2> QED BY <1>1, <1>2, <2>4, <2>5, <2>6, InvFrom DEF VerifierTypeOK
<1> QED BY <1>4, <1>5, <1>6

\* A verification that stays with its certificate and goes to another place.
LEMMA Goes ==
    ASSUME Inv, NEW c \in Call, Busy(c), NEW j \in Job,
           j.report = job[c].report, j.left = job[c].left,
           job' = [job EXCEPT ![c] = j], verdict' = verdict
    PROVE  /\ Moves(c, j)
           /\ verdict' \in [Call -> Verdict \cup {None}]
           /\ AcceptedIsGenuine'
<1> USE DEF Inv
<1>1. Moves(c, j)
  BY BusyHasReport DEF Moves
<1>2. AcceptedIsGenuine'
  BY DEF AcceptedIsGenuine, Genuine
<1> QED BY <1>1, <1>2 DEF VerifierTypeOK, Verdict

\* Every step of a verification under way keeps the invariant.
LEMMA ProceedInv ==
    ASSUME Inv, NEW c \in Call, Proceed(c)
    PROVE  Inv'
<1> USE DEF Inv
<1>b. Busy(c)
  BY DEF Proceed, Read, Miss, Fetched, Throttled, Failed, Truncate, Fill, WriteFailed, At
<1>n. PICK n \in Name : n = Current(c) /\ job[c] \in Job
  BY <1>b, BusyHasReport
<1>w. \A k \in Name : Writing(c, k) => k = n /\ At(c, "write")
  BY <1>n DEF Writing
<1>1. ASSUME NEW data, Judge(c, data), cut' = cut, ~At(c, "write"), file' = file PROVE Inv'
  <2>1. PICK j : Moves(c, j)
    BY <1>1, <1>b, JudgeKeeps
  <2>2. TornOnlyWhenCut'
    BY <1>1, <1>w, <2>1, TornKeeps
  <2> QED BY <1>1, <1>b, <2>1, <2>2, JudgeKeeps, InvFrom DEF VerifierTypeOK
<1>2. ASSUME Refuse(c), cut' = cut, ~At(c, "write"), file' = file PROVE Inv'
  <2>1. Moves(c, None)
    BY <1>2, <1>b, RefuseKeeps
  <2>2. TornOnlyWhenCut'
    BY <1>2, <1>w, <2>1, TornKeeps
  <2> QED BY <1>2, <1>b, <2>1, <2>2, RefuseKeeps, InvFrom DEF VerifierTypeOK
<1>3. ASSUME NEW j \in Job, j.report = job[c].report, j.left = job[c].left,
             job' = [job EXCEPT ![c] = j], verdict' = verdict,
             cut' = cut, ~At(c, "write"), file' = file
      PROVE  Inv'
  <2>1. Moves(c, j)
    BY <1>3, <1>b, Goes
  <2>2. TornOnlyWhenCut'
    BY <1>3, <1>w, <2>1, TornKeeps
  <2> QED BY <1>3, <1>b, <2>1, <2>2, Goes, InvFrom DEF VerifierTypeOK
<1>4. CASE Read(c)
  BY <1>1, <1>4 DEF Read, At
<1>5. CASE Miss(c) \/ Fetched(c)
  <2> DEFINE j(a) == [job[c] EXCEPT !.at = a]
  <2>1. \A a \in {"ask", "open"} :
            j(a) \in Job /\ j(a).report = job[c].report /\ j(a).left = job[c].left
    BY <1>n DEF Job
  <2>2. \E a \in {"ask", "open"} : job' = [job EXCEPT ![c] = j(a)]
    BY <1>5 DEF Miss, Fetched
  <2>3. verdict' = verdict /\ cut' = cut /\ file' = file /\ ~At(c, "write")
    BY <1>5 DEF Miss, Fetched, At
  <2> HIDE DEF j
  <2> QED BY <1>3, <2>1, <2>2, <2>3
<1>6. CASE Throttled(c)
  <2>1. cut' = cut /\ file' = file /\ ~At(c, "write")
    BY <1>6 DEF Throttled, At
  <2>2. CASE job[c].tries + 1 < MaxAttempts
    <3> DEFINE j == [job[c] EXCEPT !.tries = job[c].tries + 1]
    <3>1. j \in Job /\ j.report = job[c].report /\ j.left = job[c].left
      BY <1>n DEF Job
    <3>2. job' = [job EXCEPT ![c] = j] /\ verdict' = verdict
      BY <1>6, <2>2 DEF Throttled
    <3> HIDE DEF j
    <3> QED BY <1>3, <2>1, <3>1, <3>2
  <2>3. CASE ~(job[c].tries + 1 < MaxAttempts)
    BY <1>2, <1>6, <2>1, <2>3 DEF Throttled
  <2> QED BY <2>2, <2>3
<1>7. CASE Failed(c)
  BY <1>2, <1>7 DEF Failed, At
<1>8. CASE Truncate(c)
  <2> DEFINE j == [job[c] EXCEPT !.at = "write"]
  <2>1. j \in Job /\ j.report = job[c].report /\ j.left = job[c].left /\ j.at = "write"
    BY <1>n DEF Job
  <2>2. /\ job' = [job EXCEPT ![c] = j]
        /\ verdict' = verdict /\ cut' = cut
        /\ file' = [file EXCEPT ![n] = Torn]
    BY <1>8, <1>n DEF Truncate
  <2> HIDE DEF j
  <2>3. Moves(c, j)
    BY <1>b, <2>1, <2>2, Goes
  <2>4. Writing(c, n)'
    <3>1. job'[c] = j /\ j # None
      BY <2>1, <2>3, MoveKeeps
    <3> QED BY <1>n, <2>1, <3>1 DEF Writing, At, Busy, Current
  <2>5. TornOnlyWhenCut'
    <3>1. ASSUME NEW k \in Name, file'[k] = Torn, k # n
          PROVE  file[k] = Torn /\ ~Writing(c, k)
      BY <1>w, <2>2, <3>1 DEF VerifierTypeOK
    <3>2. \A k \in Name : file'[k] = Torn =>
              (file[k] = Torn /\ (Writing(c, k) => k \in cut')) \/ Writing(c, k)'
      <4> SUFFICES ASSUME NEW k \in Name, file'[k] = Torn, ~Writing(c, k)'
                   PROVE  file[k] = Torn /\ ~Writing(c, k)
        OBVIOUS
      <4>1. k # n
        BY <2>4
      <4> QED BY <3>1, <4>1
    <3>3. cut \subseteq cut'
      BY <2>2
    <3> QED BY <2>3, <3>2, <3>3, TornKeeps
  <2>6. file' \in [Name -> {None, Torn, Whole}]
    BY <1>n, <2>2 DEF VerifierTypeOK
  <2> QED BY <1>b, <2>1, <2>2, <2>3, <2>5, <2>6, Goes, InvFrom DEF VerifierTypeOK
<1>9. CASE Fill(c)
  <2>1. file' = [file EXCEPT ![n] = Whole] /\ cut' = cut /\ Judge(c, Whole)
    BY <1>9, <1>n DEF Fill
  <2>2. PICK j : Moves(c, j)
    BY <1>b, <2>1, JudgeKeeps
  <2>3. ASSUME NEW k \in Name, file'[k] = Torn PROVE file[k] = Torn /\ ~Writing(c, k)
    BY <1>n, <1>w, <2>1, <2>3 DEF VerifierTypeOK
  <2>4. TornOnlyWhenCut'
    BY <2>1, <2>2, <2>3, TornKeeps
  <2>5. file' \in [Name -> {None, Torn, Whole}]
    BY <1>n, <2>1 DEF VerifierTypeOK
  <2> QED BY <1>b, <2>1, <2>2, <2>4, <2>5, JudgeKeeps, InvFrom DEF VerifierTypeOK
<1>10. CASE WriteFailed(c)
  <2>1. file' = file /\ cut' = cut \cup {n}
    BY <1>10, <1>n DEF WriteFailed, CutNow
  <2>2. /\ \E j : Moves(c, j)
        /\ verdict' \in [Call -> Verdict \cup {None}]
        /\ AcceptedIsGenuine'
    BY <1>10, <1>b, JudgeKeeps, RefuseKeeps DEF WriteFailed
  <2>3. PICK j : Moves(c, j)
    BY <2>2
  <2>4. TornOnlyWhenCut'
    BY <1>w, <2>1, <2>3, TornKeeps
  <2> QED BY <1>n, <2>1, <2>2, <2>3, <2>4, InvFrom DEF VerifierTypeOK
<1> QED BY <1>4, <1>5, <1>6, <1>7, <1>8, <1>9, <1>10 DEF Proceed

\* A process that dies leaves what it was writing cut short.
LEMMA DieInv ==
    ASSUME Inv, NEW c \in Call, Die(c)
    PROVE  Inv'
<1> USE DEF Inv
<1>1. Moves(c, None) /\ file' = file /\ verdict' = verdict
  BY DEF Die, Moves
<1>2. /\ cut \subseteq cut' /\ cut' \subseteq Name
      /\ \A n \in Name : Writing(c, n) => n \in cut'
  BY BusyHasReport DEF Die, CutNow, Writing, VerifierTypeOK
<1>3. TornOnlyWhenCut'
  BY <1>1, <1>2, TornKeeps
<1>4. AcceptedIsGenuine'
  BY <1>1 DEF AcceptedIsGenuine, Genuine
<1> QED BY <1>1, <1>2, <1>3, <1>4, InvFrom DEF VerifierTypeOK, Verdict

\* So does every step of the verifiers.
LEMMA NextInv == ASSUME Inv, VerifierNext PROVE Inv'
BY BeginInv, ProceedInv, DieInv DEF VerifierNext

-----------------------------------------------------------------------------
(* Reattestation is a deployment of the verifiers.                         *)

\* Whatever else a step of Reattestation does, to the verifiers it is one of
\* theirs or none.
LEMMA StepIsVerifiers == [Next]_vars => VerifierNext \/ UNCHANGED verifierVars
<1> SUFFICES ASSUME [Next]_vars PROVE VerifierNext \/ UNCHANGED verifierVars
  OBVIOUS
<1>1. ASSUME NEW c \in Call, NEW chip \in Chip, Appraise(c, chip) PROVE VerifierNext
  <2> DEFINE r == [sound |-> round.signed = round.expected, key |-> "VCEK", chip |-> chip,
                   supplied |-> FALSE, signed |-> TRUE, rooted |-> TRUE,
                   require_chain |-> TRUE]
  <2>1. r \in Snp
    BY DEF Snp
  <2>2. Begin(c, r)
    BY <1>1 DEF Appraise
  <2> HIDE DEF r
  <2> QED BY <2>1, <2>2 DEF VerifierNext
<1>2. ASSUME NEW c \in Call, AppraiseElsewhere(c) PROVE VerifierNext
  BY <1>2 DEF AppraiseElsewhere, Elsewhere, VerifierNext
<1>3. ASSUME NEW c \in Call, Verification(c) \/ Death(c) PROVE VerifierNext
  BY <1>3 DEF Verification, Death, VerifierNext
<1>4. CASE Connection \/ HangUp \/ UNCHANGED vars
  BY <1>4 DEF Connection, HangUp, vars
<1> QED BY <1>1, <1>2, <1>3, <1>4 DEF Next

\* With no file and no verification there is nothing to account for.
LEMMA InitInv == Init => Inv
BY DEF Init, VerifierInit, Inv, VerifierTypeOK, EachIsDue, AcceptedIsGenuine,
       TornOnlyWhenCut, Busy, Verdict

\* A step that changes nothing of the verifiers keeps the invariant.
LEMMA StutterInv == Inv /\ UNCHANGED verifierVars => Inv'
<1> SUFFICES ASSUME Inv, UNCHANGED verifierVars  PROVE Inv'
  OBVIOUS
<1>1. file' = file /\ job' = job /\ verdict' = verdict /\ cut' = cut
  BY DEF verifierVars
<1>2. VerifierTypeOK'
  BY <1>1 DEF Inv, VerifierTypeOK, Busy
<1>3. EachIsDue'
  BY <1>1 DEF Inv, EachIsDue, Busy
<1>4. AcceptedIsGenuine'
  BY <1>1 DEF Inv, AcceptedIsGenuine
<1>5. TornOnlyWhenCut'
  BY <1>1 DEF Inv, TornOnlyWhenCut, Writing, At, Current, Busy
<1> QED BY <1>2, <1>3, <1>4, <1>5 DEF Inv

\* The invariant holds of every behaviour.
LEMMA InvHolds == Spec => []Inv
<1>1. Inv /\ [Next]_vars => Inv'
  BY NextInv, StutterInv, StepIsVerifiers
<1> QED BY <1>1, InitInv, PTL DEF Spec

\* No report is accepted that is not genuine (tee.py 255-278), whatever state
\* the cached certificates are in.
THEOREM OnlyGenuineIsAccepted == Spec => []AcceptedIsGenuine
<1>1. Inv => AcceptedIsGenuine
  BY DEF Inv
<1> QED BY <1>1, InvHolds, PTL

\* A cached certificate that is not whole is being written, or a write of it
\* was cut short (tee.py 195): any number of writers of one file do not spoil
\* it between them.
THEOREM OnlyACutTears == Spec => []TornOnlyWhenCut
<1>1. Inv => TornOnlyWhenCut
  BY DEF Inv
<1> QED BY <1>1, InvHolds, PTL

-----------------------------------------------------------------------------
(* What a step may not do.                                                 *)

\* What a verification judges goes on, or is answered: refused only when the
\* certificate does not speak for it.
LEMMA JudgedFor ==
    ASSUME Inv, NEW c \in Call, Busy(c), NEW data, Judge(c, data),
           verdict'[c] \notin {None, verdict[c]}, ~verdict'[c].accepted
    PROVE  /\ verdict'[c].report = job[c].report
           /\ ~Speaks(job[c].report, Current(c), data)
<1>1. Speaks(job[c].report, Current(c), data) => verdict' = verdict \/ verdict'[c].accepted
  BY DEF Judge, Answer, Inv, VerifierTypeOK
<1>2. ~Speaks(job[c].report, Current(c), data)
  BY <1>1
<1> QED BY <1>2 DEF Judge, Refuse, Answer, Inv, VerifierTypeOK

\* Whoever is at a settled certificate is about to read it.
LEMMA SettledIsRead ==
    ASSUME Inv, NEW c \in Call, Busy(c), Proceed(c), Settled(Current(c))
    PROVE  Read(c) /\ file[Current(c)] = Whole
<1>1. job[c].at = "look" /\ file[Current(c)] = Whole
  BY DEF Settled, Fetching
<1> QED BY <1>1 DEF Proceed, Miss, Fetched, Throttled, Failed, Truncate, Fill, WriteFailed, At

\* The other verifications get no verdict.
LEMMA OnlyItsVerdict ==
    ASSUME Inv, NEW c \in Call, (\E r \in Snp : Begin(c, r)) \/ Proceed(c) \/ Die(c),
           NEW d \in Call, d # c
    PROVE  verdict'[d] = verdict[d]
BY DEF Inv, VerifierTypeOK, Begin, Proceed, Die, Read, Miss, Fetched, Throttled, Failed,
       Truncate, Fill, WriteFailed, Judge, Refuse, Answer

\* A genuine report is refused only for a certificate that was not settled
\* (tee.py 190-199, 276-277): while the certificates it needs are cached and
\* nobody fetches them, no service, no throttling and no other process is in
\* its way.
THEOREM NoRefusalWithoutCause == Spec => GenuineIsRefusedForCause
<1>1. ASSUME Inv, VerifierNext, NEW d \in Call,
             verdict'[d] \notin {None, verdict[d]}, ~verdict'[d].accepted,
             Genuine(verdict'[d].report)
      PROVE  Busy(d) /\ ~Settled(Current(d))
  <2>1. (\E r \in Snp : Begin(d, r)) \/ Proceed(d) \/ Die(d)
    BY <1>1, OnlyItsVerdict DEF VerifierNext
  <2>2. CASE Die(d)
    BY <1>1, <2>2 DEF Die
  <2>3. ASSUME NEW r \in Snp, Begin(d, r) PROVE FALSE
    <3>1. CASE Inadmissible(r)
      <4>1. verdict'[d].report = r
        BY <1>1, <2>3, <3>1 DEF Begin, Answer, Inv, VerifierTypeOK
      <4> QED BY <1>1, <3>1, <4>1, GenuineIsAdmissible
    <3>2. CASE ~Inadmissible(r)
      BY <1>1, <2>3, <3>2 DEF Begin, Answer, Inv, VerifierTypeOK
    <3> QED BY <3>1, <3>2
  <2>4. CASE Proceed(d)
    <3>1. Busy(d)
      BY <2>4 DEF Proceed, Read, Miss, Fetched, Throttled, Failed, Truncate, Fill, WriteFailed, At
    <3>2. ASSUME Settled(Current(d)) PROVE FALSE
      <4>1. Judge(d, Whole)
        BY <1>1, <2>4, <3>1, <3>2, SettledIsRead DEF Read
      <4>2. verdict'[d].report = job[d].report /\ ~Speaks(job[d].report, Current(d), Whole)
        BY <1>1, <3>1, <4>1, JudgedFor
      <4>3. job[d].report \in Snp /\ Due(job[d].report, job[d].left)
        BY <1>1, <3>1, BusyHasReport DEF Inv
      <4> QED BY <1>1, <4>2, <4>3, WholeSpeaks DEF Current
    <3> QED BY <3>1, <3>2
  <2> QED BY <2>1, <2>2, <2>3, <2>4
<1> DEFINE A == \A c \in Call :
                  (verdict'[c] \notin {None, verdict[c]} /\ ~verdict'[c].accepted
                     /\ Genuine(verdict'[c].report))
                      => Busy(c) /\ ~Settled(Current(c))
<1>2. Inv /\ [Next]_vars => [A]_verifierVars
  BY <1>1, StepIsVerifiers
<1>3. GenuineIsRefusedForCause <=> [][A]_verifierVars
  BY DEF GenuineIsRefusedForCause
<1> QED BY <1>2, <1>3, InvHolds, PTL DEF Spec

\* A certificate that is cached and that nobody fetches is never fetched nor
\* truncated again (tee.py 191-192).
THEOREM SettledForGood == Spec => SettledStays
<1>1. ASSUME Inv, VerifierNext, NEW n \in Name, Settled(n) PROVE Settled(n)'
  <2> USE DEF Inv
  <2>1. PICK c \in Call : (\E r \in Snp : Begin(c, r)) \/ Proceed(c) \/ Die(c)
    BY <1>1 DEF VerifierNext
  <2>2. file[n] = Whole /\ ~Fetching(c, n)
    BY <1>1 DEF Settled
  <2>3. file'[n] = Whole
    <3>1. CASE \E r \in Snp : Begin(c, r)
      BY <2>2, <3>1 DEF Begin
    <3>2. CASE Die(c)
      BY <2>2, <3>2 DEF Die
    <3>3. CASE Read(c) \/ Miss(c) \/ Fetched(c) \/ Throttled(c) \/ Failed(c) \/ WriteFailed(c)
      BY <2>2, <3>3 DEF Read, Miss, Fetched, Throttled, Failed, WriteFailed
    <3>4. CASE Fill(c)
      BY <1>1, <2>2, <3>4 DEF Fill, VerifierTypeOK
    <3>5. CASE Truncate(c)
      <4>1. Current(c) # n
        BY <2>2, <3>5 DEF Truncate, At, Fetching
      <4> QED BY <1>1, <2>2, <3>5, <4>1 DEF Truncate, VerifierTypeOK
    <3> QED BY <2>1, <3>1, <3>2, <3>3, <3>4, <3>5 DEF Proceed
  <2>4. ~Fetching(c, n)'
    <3>1. ASSUME NEW j, Moves(c, j), j # None => j.at = "look" PROVE ~Fetching(c, n)'
      BY <1>1, <3>1, MoveKeeps DEF Fetching, Busy
    <3>2. CASE \E r \in Snp : Begin(c, r)
      <4>1. PICK r \in Snp : Begin(c, r)
        BY <3>2
      <4>2. job' = [job EXCEPT ![c] = None] \/ job' = [job EXCEPT ![c] = Look(r, Wanted(r))]
        BY <4>1 DEF Begin, Answer
      <4> QED BY <1>1, <4>2 DEF VerifierTypeOK, Fetching, Busy, Look
    <3>3. CASE Die(c)
      BY <1>1, <3>3 DEF Die, VerifierTypeOK, Fetching, Busy
    <3>4. CASE Proceed(c)
      <4>1. Busy(c)
        BY <3>4 DEF Proceed, Read, Miss, Fetched, Throttled, Failed, Truncate, Fill,
                    WriteFailed, At
      <4>2. CASE Refuse(c)
        BY <1>1, <3>1, <4>1, <4>2, RefuseKeeps
      <4>3. ASSUME NEW data, Judge(c, data) PROVE ~Fetching(c, n)'
        BY <1>1, <3>1, <4>1, <4>3, JudgeKeeps
      <4>4. CASE Current(c) = n
        <5>1. Read(c)
          <6>1. job[c].at = "look"
            BY <2>2, <4>1, <4>4 DEF Fetching
          <6> QED BY <2>2, <3>4, <4>4, <6>1
                  DEF Proceed, Miss, Fetched, Throttled, Failed, Truncate, Fill, WriteFailed, At
        <5> QED BY <4>3, <5>1 DEF Read
      <4>5. CASE Current(c) # n
        <5>1. CASE Miss(c) \/ Fetched(c) \/ Truncate(c)
          <6>1. job[c] \in Job
            BY <1>1, <4>1, BusyHasReport
          <6>2. job'[c].left = job[c].left
            BY <1>1, <5>1, <6>1 DEF Miss, Fetched, Truncate, VerifierTypeOK, Job
          <6> QED BY <4>5, <6>2 DEF Fetching, Current
        <5>2. CASE Throttled(c) /\ job[c].tries + 1 < MaxAttempts
          <6>1. job[c] \in Job
            BY <1>1, <4>1, BusyHasReport
          <6>2. job'[c].left = job[c].left
            BY <1>1, <5>2, <6>1 DEF Throttled, VerifierTypeOK, Job
          <6> QED BY <4>5, <6>2 DEF Fetching, Current
        <5>3. CASE \/ Read(c) \/ Failed(c) \/ Fill(c) \/ WriteFailed(c)
                   \/ Throttled(c) /\ ~(job[c].tries + 1 < MaxAttempts)
          BY <4>2, <4>3, <5>3 DEF Read, Failed, Fill, WriteFailed, Throttled
        <5> QED BY <3>4, <5>1, <5>2, <5>3 DEF Proceed
      <4> QED BY <4>4, <4>5
    <3> QED BY <2>1, <3>2, <3>3, <3>4
  <2>5. ASSUME NEW d \in Call, d # c PROVE ~Fetching(d, n)'
    <3>1. job'[d] = job[d]
      BY <1>1, <2>1, <2>5 DEF VerifierTypeOK, Begin, Proceed, Die, Read, Miss, Fetched,
         Throttled, Failed, Truncate, Fill, WriteFailed, Judge, Refuse, Answer
    <3> QED BY <1>1, <2>5, <3>1 DEF Settled, Fetching, Busy, Current
  <2> QED BY <2>3, <2>4, <2>5 DEF Settled
<1> DEFINE A == \A n \in Name : Settled(n) => Settled(n)'
<1>2. Inv /\ [Next]_vars => [A]_verifierVars
  BY <1>1, StepIsVerifiers
<1>3. SettledStays <=> [][A]_verifierVars
  BY DEF SettledStays
<1> QED BY <1>2, <1>3, InvHolds, PTL DEF Spec
=============================================================================
