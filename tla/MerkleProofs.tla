---------------------------- MODULE MerkleProofs ----------------------------
(***************************************************************************)
(* The verifiers of the Merkle log accept the proofs the log makes, and    *)
(* nothing else, whatever the size of the log.                             *)
(*                                                                         *)
(* A log of n leaves is a left part of k, the power of two below n, and a  *)
(* right one.  A proof is the proof in one part, then the root of the      *)
(* other; and a walk through it is the walk through that part, which       *)
(* arrives when one hash is left to meet (PartWalk).  So the only proof    *)
(* that leads to the root is the one the log makes (OnlyItsPath,           *)
(* OnlyItsSubproof), and no two leaves or sizes of a log whose leaves are  *)
(* numbered have the same one (PathOnce, SubproofOnce).  Each is induction *)
(* over the length of the log, by way of Recursion.                        *)
(***************************************************************************)
EXTENDS MerkleLog, TLAPS

-----------------------------------------------------------------------------
(* What the recursive functions compute.                                   *)

HalfDef(f, n) == IF n <= 2 THEN 1 ELSE 2 * f[(n + 1) \div 2]

RootDef(f, leaves) ==
    IF leaves = <<>> THEN Empty
    ELSE IF Len(leaves) = 1 THEN LeafHash(leaves[1])
    ELSE NodeHash(f[Left(leaves)], f[Right(leaves)])

PathsDef(f, leaves) ==
    LET k == Split[Len(leaves)]
    IN  [m \in 0 .. Len(leaves) - 1 |->
           IF Len(leaves) = 1 THEN <<>>
           ELSE IF m < k THEN Append(f[Left(leaves)][m], Root[Right(leaves)])
           ELSE Append(f[Right(leaves)][m - k], Root[Left(leaves)])]

SubproofsDef(f, leaves) ==
    LET k == Split[Len(leaves)]
    IN  [whole \in BOOLEAN |-> [m \in 1 .. Len(leaves) |->
           IF m = Len(leaves) THEN IF whole THEN <<>> ELSE <<Root[leaves]>>
           ELSE IF m <= k
           THEN Append(f[Left(leaves)][whole][m], Root[Right(leaves)])
           ELSE Append(f[Right(leaves)][FALSE][m - k], Root[Left(leaves)])]]

HasOneBitDef(f, m) == m <= 1 \/ (m % 2 = 0 /\ f[m \div 2])

AlignedDef(f, at) ==
    IF at[1] = 0 \/ at[1] % 2 = 1 THEN at ELSE f[<<at[1] \div 2, at[2] \div 2>>]

OddDef(f, at) == IF at[1] % 2 = 1 THEN f[<<at[1] \div 2, at[2] \div 2>>] ELSE at

Itself(n) == n
First(at) == at[1]

OfSizes == INSTANCE Recursion WITH S <- Nat, Size <- Itself, Def <- HalfDef
OfBits == INSTANCE Recursion WITH S <- Nat, Size <- Itself, Def <- HasOneBitDef
OfRoots == INSTANCE Recursion WITH S <- Log, Size <- Len, Def <- RootDef
OfPaths == INSTANCE Recursion WITH S <- Log, Size <- Len, Def <- PathsDef
OfSubproofs == INSTANCE Recursion WITH S <- Log, Size <- Len, Def <- SubproofsDef
OfAligned == INSTANCE Recursion WITH S <- Nat \X Nat, Size <- First, Def <- AlignedDef
OfOdd == INSTANCE Recursion WITH S <- Nat \X Nat, Size <- First, Def <- OddDef

\* Split[n] is computed from the split of half.
LEMMA SplitIs ==
    ASSUME NEW n \in Nat
    PROVE  Split[n] = IF n <= 2 THEN 1 ELSE 2 * Split[(n + 1) \div 2]
<1>1. OfSizes!Decreasing
  <2>1. ASSUME NEW g, NEW h, NEW x \in Nat, \A y \in Nat : y < x => g[y] = h[y]
        PROVE  HalfDef(g, x) = HalfDef(h, x)
    <3>1. x > 2 => (x + 1) \div 2 \in Nat /\ (x + 1) \div 2 < x
      OBVIOUS
    <3> QED BY <2>1, <3>1 DEF HalfDef
  <2> QED BY <2>1 DEF OfSizes!Decreasing, Itself
<1>2. \E f : f = [x \in Nat |-> HalfDef(f, x)]
  BY <1>1, OfSizes!Exists
<1>3. Split = [x \in Nat |-> HalfDef(Split, x)]
  BY <1>2 DEF Split, HalfDef
<1> QED BY <1>3 DEF HalfDef

\* One bit is set in m when m is 1, or even with one bit set in its half.
LEMMA HasOneBitIs ==
    ASSUME NEW m \in Nat
    PROVE  HasOneBit[m] = (m <= 1 \/ (m % 2 = 0 /\ HasOneBit[m \div 2]))
<1>1. OfBits!Decreasing
  <2>1. ASSUME NEW g, NEW h, NEW x \in Nat, \A y \in Nat : y < x => g[y] = h[y]
        PROVE  HasOneBitDef(g, x) = HasOneBitDef(h, x)
    <3>1. ~(x <= 1) => x \div 2 \in Nat /\ x \div 2 < x
      OBVIOUS
    <3>2. ~(x <= 1) => g[x \div 2] = h[x \div 2]
      BY <2>1, <3>1
    <3> QED BY <3>2, Zenon DEF HasOneBitDef
  <2> QED BY <2>1 DEF OfBits!Decreasing, Itself
<1>2. \E f : f = [x \in Nat |-> HasOneBitDef(f, x)]
  BY <1>1, OfBits!Exists
<1>3. HasOneBit = [x \in Nat |-> HasOneBitDef(HasOneBit, x)]
  BY <1>2, Zenon DEF HasOneBit, HasOneBitDef
<1> QED BY <1>3, Zenon DEF HasOneBitDef

-----------------------------------------------------------------------------
(* Powers of two.                                                          *)

Powers == {q \in Nat \ {0} : HasOneBit[q]}

\* A power of two but one is twice another.
LEMMA PowerHalves ==
    ASSUME NEW q \in Powers
    PROVE  q = 1 \/ (q \div 2 \in Powers /\ q = 2 * (q \div 2))
<1>1. q \in Nat /\ q > 0 /\ HasOneBit[q]
  BY DEF Powers
<1>2. q # 1 => HasOneBit[q \div 2] /\ q % 2 = 0
  <2>1. q # 1 => ~(q <= 1)
    BY <1>1
  <2> QED BY <1>1, <2>1, HasOneBitIs, Zenon
<1>3. q # 1 => q \div 2 \in Nat \ {0} /\ (q % 2 = 0 => q = 2 * (q \div 2))
  BY <1>1
<1> QED BY <1>2, <1>3 DEF Powers

\* Twice a power of two is one.
LEMMA PowerDoubles ==
    /\ 1 \in Powers
    /\ \A q \in Powers : 2 * q \in Powers
<1>1. HasOneBit[1]
  <2>1. 1 \in Nat /\ 1 <= 1
    OBVIOUS
  <2> QED BY <2>1, HasOneBitIs, Zenon
<1>2. ASSUME NEW q \in Powers  PROVE 2 * q \in Powers
  <2>1. q \in Nat \ {0} /\ HasOneBit[q]
    BY DEF Powers
  <2>2. 2 * q \in Nat \ {0} /\ (2 * q) % 2 = 0 /\ (2 * q) \div 2 = q
    BY <2>1
  <2>3. HasOneBit[2 * q]
    BY <2>1, <2>2, HasOneBitIs, Zenon
  <2> QED BY <2>2, <2>3 DEF Powers
<1> QED BY <1>1, <1>2 DEF Powers

\* Of two powers of two, one is at least twice the other.
LEMMA PowersApart ==
    ASSUME NEW p \in Powers, NEW q \in Powers, p < q
    PROVE  2 * p <= q
<1> DEFINE T == {n \in Nat : \A r \in Powers : n \in Powers /\ n < r => 2 * n <= r}
<1>1. ASSUME NEW n \in Nat, \A m \in Nat : m < n => m \in T  PROVE n \in T
  <2> SUFFICES ASSUME NEW r \in Powers, n \in Powers, n < r  PROVE 2 * n <= r
    OBVIOUS
  <2>1. r \in Nat /\ n > 0
    BY DEF Powers
  <2>2. r # 1 /\ r \div 2 \in Powers /\ r = 2 * (r \div 2) /\ r \div 2 \in Nat
    BY <2>1, PowerHalves DEF Powers
  <2>3. CASE n = 1
    BY <2>1, <2>3
  <2>4. CASE n # 1
    <3>1. n \div 2 \in Powers /\ n = 2 * (n \div 2) /\ n \div 2 \in Nat
      BY <2>4, PowerHalves DEF Powers
    <3>2. n \div 2 < n /\ n \div 2 < r \div 2
      BY <2>1, <2>2, <3>1
    <3>3. 2 * (n \div 2) <= r \div 2
      BY <1>1, <2>2, <3>1, <3>2
    <3> QED BY <2>2, <3>1, <3>3
  <2> QED BY <2>3, <2>4
<1>2. \A n \in Nat : n \in T
  <2> HIDE DEF T
  <2> QED BY <1>1, OfSizes!Induction
<1> QED BY <1>2 DEF Powers

\* Split[n] is the power of two that leaves no more than itself.
LEMMA SplitIsBelow ==
    ASSUME NEW n \in Nat, n >= 2
    PROVE  Split[n] \in Powers /\ Split[n] < n /\ n <= 2 * Split[n]
<1> DEFINE T == {i \in Nat : i >= 2 =>
                   Split[i] \in Powers /\ Split[i] < i /\ i <= 2 * Split[i]}
<1>1. ASSUME NEW i \in Nat, \A m \in Nat : m < i => m \in T  PROVE i \in T
  <2>1. CASE i <= 2
    BY <2>1, SplitIs, PowerDoubles
  <2>2. CASE i > 2
    <3> DEFINE h == (i + 1) \div 2
    <3>1. h \in Nat /\ h >= 2 /\ h < i /\ i <= 2 * h /\ 2 * h <= i + 1
      BY <2>2
    <3>2. Split[h] \in Powers /\ Split[h] < h /\ h <= 2 * Split[h]
      BY <1>1, <3>1
    <3>3. Split[i] = 2 * Split[h]
      BY <2>2, SplitIs
    <3>4. Split[i] \in Powers
      BY <3>2, <3>3, PowerDoubles
    <3>5. Split[h] \in Nat
      BY <3>2 DEF Powers
    <3> HIDE DEF h
    <3>6. Split[i] < i /\ i <= 2 * Split[i]
      BY <3>1, <3>2, <3>3, <3>5
    <3> QED BY <3>4, <3>6
  <2> QED BY <2>1, <2>2
<1>2. \A i \in Nat : i \in T
  <2> HIDE DEF T
  <2> QED BY <1>1, OfSizes!Induction
<1> QED BY <1>2

\* No other power of two does.
LEMMA SplitIsOnly ==
    ASSUME NEW n \in Nat, n >= 2, NEW q \in Powers, q < n, n <= 2 * q
    PROVE  Split[n] = q
<1>1. Split[n] \in Powers /\ Split[n] < n /\ n <= 2 * Split[n]
  BY SplitIsBelow
<1>2. Split[n] \in Nat /\ q \in Nat
  BY <1>1 DEF Powers
<1>3. ~(Split[n] < q)
  <2> SUFFICES ASSUME Split[n] < q  PROVE FALSE
    OBVIOUS
  <2>1. 2 * Split[n] <= q
    BY <1>1, PowersApart
  <2> QED BY <1>1, <1>2, <2>1
<1>4. ~(q < Split[n])
  <2> SUFFICES ASSUME q < Split[n]  PROVE FALSE
    OBVIOUS
  <2>1. 2 * q <= Split[n]
    BY <1>1, PowersApart
  <2> QED BY <1>1, <1>2, <2>1
<1> QED BY <1>2, <1>3, <1>4

-----------------------------------------------------------------------------
(* The two parts of a log.                                                 *)

\* A number is 0, 1 or more.
LEMMA Small == \A n \in Nat : n >= 2 \/ n = 1 \/ n = 0
OBVIOUS

\* Both are shorter logs, and hold its leaves in order.
LEMMA Parts ==
    ASSUME NEW s \in Log, Len(s) >= 2, NEW k, k = Split[Len(s)]
    PROVE  /\ k \in Powers /\ k \in 1 .. Len(s) - 1 /\ Len(s) <= 2 * k
           /\ Left(s) \in Log /\ Len(Left(s)) = k
           /\ Right(s) \in Log /\ Len(Right(s)) = Len(s) - k
           /\ \A i \in 1 .. k : Left(s)[i] = s[i]
           /\ \A i \in 1 .. Len(s) - k : Right(s)[i] = s[k + i]
<1>1. k \in Powers /\ k \in Nat /\ k > 0 /\ k < Len(s) /\ Len(s) <= 2 * k
  BY SplitIsBelow DEF Powers, Log
<1>2. Left(s) \in Log /\ Len(Left(s)) = k /\ \A i \in 1 .. k : Left(s)[i] = s[i]
  BY <1>1 DEF Log, Left
<1>3. Right(s) \in Log
  BY <1>1 DEF Log, Right
<1>4. Len(Right(s)) = Len(s) - k /\ \A i \in 1 .. Len(s) - k : Right(s)[i] = s[k + i]
  BY <1>1 DEF Log, Right
<1> QED BY <1>1, <1>2, <1>3, <1>4

\* Both parts are shorter than the log, and neither is empty.
LEMMA Halves ==
    ASSUME NEW s \in Log, Len(s) >= 2, NEW k, k = Split[Len(s)]
    PROVE  /\ k \in Nat /\ k > 0 /\ k < Len(s) /\ Len(s) \in Nat
           /\ Left(s) \in Log /\ Len(Left(s)) = k
           /\ Right(s) \in Log /\ Len(Right(s)) = Len(s) - k
           /\ \A i \in 1 .. k : Left(s)[i] = s[i]
           /\ \A i \in 1 .. Len(s) - k : Right(s)[i] = s[k + i]
<1>1. /\ k \in Powers /\ k \in 1 .. Len(s) - 1
      /\ Left(s) \in Log /\ Len(Left(s)) = k
      /\ Right(s) \in Log /\ Len(Right(s)) = Len(s) - k
      /\ \A i \in 1 .. k : Left(s)[i] = s[i]
      /\ \A i \in 1 .. Len(s) - k : Right(s)[i] = s[k + i]
  BY Parts
<1>2. Len(s) \in Nat
  BY DEF Log
<1>3. k \in Nat /\ k > 0 /\ k < Len(s)
  BY <1>1, <1>2
<1> QED BY <1>1, <1>2, <1>3

\* Root, its equation.
LEMMA RootIs ==
    ASSUME NEW s \in Log
    PROVE  Root[s] = IF s = <<>> THEN Empty
                     ELSE IF Len(s) = 1 THEN LeafHash(s[1])
                     ELSE NodeHash(Root[Left(s)], Root[Right(s)])
<1>1. OfRoots!Decreasing
  <2>1. ASSUME NEW g, NEW h, NEW x \in Log, \A y \in Log : Len(y) < Len(x) => g[y] = h[y]
        PROVE  RootDef(g, x) = RootDef(h, x)
    <3>1. Len(x) \in Nat /\ (x = <<>> <=> Len(x) = 0)
      BY DEF Log
    <3>2. CASE Len(x) >= 2
      <4>1. /\ Left(x) \in Log /\ Len(Left(x)) < Len(x)
            /\ Right(x) \in Log /\ Len(Right(x)) < Len(x)
        BY <3>1, <3>2, Parts
      <4>2. g[Left(x)] = h[Left(x)] /\ g[Right(x)] = h[Right(x)]
        BY <2>1, <4>1
      <4> QED BY <4>2 DEF RootDef
    <3>3. CASE ~(Len(x) >= 2)
      <4>1. x = <<>> \/ Len(x) = 1
        BY <3>1, <3>3, Small, Zenon
      <4> QED BY <4>1 DEF RootDef
    <3> QED BY <3>1, <3>2, <3>3
  <2>2. \A x \in Log : Len(x) \in Nat
    BY DEF Log
  <2> QED BY <2>1, <2>2 DEF OfRoots!Decreasing
<1>2. \E f : f = [x \in Log |-> RootDef(f, x)]
  BY <1>1, OfRoots!Exists
<1>3. Root = [x \in Log |-> RootDef(Root, x)]
  BY <1>2 DEF Root, RootDef
<1> QED BY <1>3 DEF RootDef

\* Paths, its equation, for a log of one leaf and for a longer one.
LEMMA PathsIs ==
    ASSUME NEW s \in Log
    PROVE  Paths[s] = PathsDef(Paths, s)
<1>1. OfPaths!Decreasing
  <2>1. ASSUME NEW g, NEW h, NEW x \in Log, \A y \in Log : Len(y) < Len(x) => g[y] = h[y]
        PROVE  PathsDef(g, x) = PathsDef(h, x)
    <3>1. Len(x) \in Nat
      BY DEF Log
    <3>2. CASE Len(x) >= 2
      <4>1. /\ Left(x) \in Log /\ Len(Left(x)) < Len(x)
            /\ Right(x) \in Log /\ Len(Right(x)) < Len(x)
        BY <3>1, <3>2, Parts
      <4>2. g[Left(x)] = h[Left(x)] /\ g[Right(x)] = h[Right(x)]
        BY <2>1, <4>1
      <4> QED BY <4>2 DEF PathsDef
    <3>3. CASE Len(x) = 1
      BY <3>3 DEF PathsDef
    <3>4. CASE Len(x) = 0
      <4>1. 0 .. Len(x) - 1 = {}
        BY <3>4
      <4> QED BY <4>1 DEF PathsDef
    <3>5. Len(x) >= 2 \/ Len(x) = 1 \/ Len(x) = 0
      BY <3>1, Small, Zenon
    <3> QED BY <3>2, <3>3, <3>4, <3>5
  <2>2. \A x \in Log : Len(x) \in Nat
    BY DEF Log
  <2> QED BY <2>1, <2>2 DEF OfPaths!Decreasing
<1>2. \E f : f = [x \in Log |-> PathsDef(f, x)]
  BY <1>1, OfPaths!Exists
<1>3. Paths = [x \in Log |-> PathsDef(Paths, x)]
  BY <1>2 DEF Paths, PathsDef
<1> QED BY <1>3

\* The proof of a leaf is the proof in its part, then the root of the other.
LEMMA InclusionProofIs ==
    ASSUME NEW s \in Log, NEW m \in 0 .. Len(s) - 1
    PROVE  /\ Len(s) = 1 => InclusionProof(s, m) = <<>>
           /\ Len(s) # 1 /\ m < Split[Len(s)] =>
                InclusionProof(s, m) = Append(InclusionProof(Left(s), m), Root[Right(s)])
           /\ Len(s) # 1 /\ ~(m < Split[Len(s)]) =>
                InclusionProof(s, m) =
                  Append(InclusionProof(Right(s), m - Split[Len(s)]), Root[Left(s)])
BY PathsIs DEF PathsDef, InclusionProof

\* Subproofs, its equation.
LEMMA SubproofsIs ==
    ASSUME NEW s \in Log
    PROVE  Subproofs[s] = SubproofsDef(Subproofs, s)
<1>1. OfSubproofs!Decreasing
  <2>1. ASSUME NEW g, NEW h, NEW x \in Log, \A y \in Log : Len(y) < Len(x) => g[y] = h[y]
        PROVE  SubproofsDef(g, x) = SubproofsDef(h, x)
    <3>1. Len(x) \in Nat
      BY DEF Log
    <3>2. CASE Len(x) >= 2
      <4>1. /\ Left(x) \in Log /\ Len(Left(x)) < Len(x)
            /\ Right(x) \in Log /\ Len(Right(x)) < Len(x)
        BY <3>1, <3>2, Parts
      <4>2. g[Left(x)] = h[Left(x)] /\ g[Right(x)] = h[Right(x)]
        BY <2>1, <4>1
      <4> QED BY <4>2 DEF SubproofsDef
    <3>3. CASE Len(x) <= 1
      <4>1. \A m \in 1 .. Len(x) : m = Len(x)
        BY <3>1, <3>3
      <4> QED BY <4>1 DEF SubproofsDef
    <3> QED BY <3>1, <3>2, <3>3
  <2>2. \A x \in Log : Len(x) \in Nat
    BY DEF Log
  <2> QED BY <2>1, <2>2 DEF OfSubproofs!Decreasing
<1>2. \E f : f = [x \in Log |-> SubproofsDef(f, x)]
  BY <1>1, OfSubproofs!Exists
<1>3. Subproofs = [x \in Log |-> SubproofsDef(Subproofs, x)]
  BY <1>2 DEF Subproofs, SubproofsDef
<1> QED BY <1>3

Subproof(s, m, whole) == Subproofs[s][whole][m]

\* The proof of an earlier size is the proof in the part where the earlier log
\* ends, then the root of the other.
LEMMA SubproofIs ==
    ASSUME NEW s \in Log, NEW m \in 1 .. Len(s), NEW whole \in BOOLEAN
    PROVE  /\ m = Len(s) => Subproof(s, m, whole) = IF whole THEN <<>> ELSE <<Root[s]>>
           /\ m # Len(s) /\ m <= Split[Len(s)] =>
                Subproof(s, m, whole) = Append(Subproof(Left(s), m, whole), Root[Right(s)])
           /\ m # Len(s) /\ ~(m <= Split[Len(s)]) =>
                Subproof(s, m, whole) =
                  Append(Subproof(Right(s), m - Split[Len(s)], FALSE), Root[Left(s)])
<1> DEFINE k == Split[Len(s)]
           of(w) == [i \in 1 .. Len(s) |->
             IF i = Len(s) THEN IF w THEN <<>> ELSE <<Root[s]>>
             ELSE IF i <= k
             THEN Append(Subproofs[Left(s)][w][i], Root[Right(s)])
             ELSE Append(Subproofs[Right(s)][FALSE][i - k], Root[Left(s)])]
<1>1. SubproofsDef(Subproofs, s) = [w \in BOOLEAN |-> of(w)]
  BY Zenon DEF SubproofsDef
<1>2. Subproofs[s][whole] = of(whole)
  <2> HIDE DEF of
  <2> QED BY <1>1, SubproofsIs, Zenon
<1> QED BY <1>2, Zenon DEF Subproof

-----------------------------------------------------------------------------
(* Up the levels of the tree.                                              *)

Numbers == Nat \X Nat

\* SkipAligned, its equation.
LEMMA SkipAlignedIs ==
    ASSUME NEW f \in Nat, NEW s \in Nat
    PROVE  SkipAligned[<<f, s>>] = IF f = 0 \/ f % 2 = 1 THEN <<f, s>>
                                   ELSE SkipAligned[<<f \div 2, s \div 2>>]
<1>1. OfAligned!Decreasing
  <2>1. ASSUME NEW g, NEW h, NEW x \in Nat \X Nat,
               \A y \in Nat \X Nat : y[1] < x[1] => g[y] = h[y]
        PROVE  AlignedDef(g, x) = AlignedDef(h, x)
    <3> DEFINE y == <<x[1] \div 2, x[2] \div 2>>
    <3>1. x[1] # 0 => y \in Nat \X Nat /\ y[1] < x[1]
      OBVIOUS
    <3>2. x[1] # 0 => g[y] = h[y]
      BY <2>1, <3>1
    <3> QED BY <3>2 DEF AlignedDef
  <2>2. \A x \in Nat \X Nat : First(x) \in Nat
    BY DEF First
  <2> QED BY <2>1, <2>2 DEF OfAligned!Decreasing, First
<1>2. \E g : g = [x \in Nat \X Nat |-> AlignedDef(g, x)]
  BY <1>1, OfAligned!Exists
<1>3. SkipAligned = [x \in Nat \X Nat |-> AlignedDef(SkipAligned, x)]
  BY <1>2 DEF SkipAligned, AlignedDef
<1> QED BY <1>3 DEF AlignedDef

\* SkipOdd, its equation.
LEMMA SkipOddIs ==
    ASSUME NEW f \in Nat, NEW s \in Nat
    PROVE  SkipOdd[<<f, s>>] = IF f % 2 = 1 THEN SkipOdd[<<f \div 2, s \div 2>>]
                               ELSE <<f, s>>
<1>1. OfOdd!Decreasing
  <2>1. ASSUME NEW g, NEW h, NEW x \in Nat \X Nat,
               \A y \in Nat \X Nat : y[1] < x[1] => g[y] = h[y]
        PROVE  OddDef(g, x) = OddDef(h, x)
    <3> DEFINE y == <<x[1] \div 2, x[2] \div 2>>
    <3>1. x[1] # 0 => y \in Nat \X Nat /\ y[1] < x[1]
      OBVIOUS
    <3>2. x[1] # 0 => g[y] = h[y]
      BY <2>1, <3>1
    <3>3. x[1] = 0 => ~(x[1] % 2 = 1)
      OBVIOUS
    <3> QED BY <3>2, <3>3 DEF OddDef
  <2>2. \A x \in Nat \X Nat : First(x) \in Nat
    BY DEF First
  <2> QED BY <2>1, <2>2 DEF OfOdd!Decreasing, First
<1>2. \E g : g = [x \in Nat \X Nat |-> OddDef(g, x)]
  BY <1>1, OfOdd!Exists
<1>3. SkipOdd = [x \in Nat \X Nat |-> OddDef(SkipOdd, x)]
  BY <1>2 DEF SkipOdd, OddDef
<1> QED BY <1>3 DEF OddDef

\* From the right edge of a tree, the skip ends at the top.
LEMMA AlignedPower ==
    ASSUME NEW q \in Powers
    PROVE  SkipAligned[<<q, q>>] = <<1, 1>>
<1> DEFINE T == {n \in Nat : n \in Powers => SkipAligned[<<n, n>>] = <<1, 1>>}
<1>1. ASSUME NEW n \in Nat, \A m \in Nat : m < n => m \in T  PROVE n \in T
  <2> SUFFICES ASSUME n \in Powers  PROVE SkipAligned[<<n, n>>] = <<1, 1>>
    OBVIOUS
  <2>1. CASE n = 1
    <3>1. 1 \in Nat /\ 1 % 2 = 1
      OBVIOUS
    <3> QED BY <2>1, <3>1, SkipAlignedIs
  <2>2. CASE n # 1
    <3>1. n \div 2 \in Powers /\ n = 2 * (n \div 2) /\ n > 0
      BY <2>2, PowerHalves DEF Powers
    <3>2. n \div 2 \in Nat /\ n \div 2 < n /\ ~(n = 0 \/ n % 2 = 1)
      BY <3>1
    <3>3. SkipAligned[<<n, n>>] = SkipAligned[<<n \div 2, n \div 2>>]
      BY <3>2, SkipAlignedIs
    <3> QED BY <1>1, <3>1, <3>2, <3>3
  <2> QED BY <2>1, <2>2
<1>2. \A n \in Nat : n \in T
  <2> HIDE DEF T
  <2> QED BY <1>1, OfSizes!Induction
<1> QED BY <1>2 DEF Powers

\* A right edge is skipped alike in a tree and in its right part.
LEMMA AlignedRight ==
    ASSUME NEW f \in Nat \ {0}, NEW q \in Powers, f < q
    PROVE  \E e \in Nat, r \in Powers :
             /\ e % 2 = 1 /\ e < r
             /\ SkipAligned[<<f, f>>] = <<e, e>>
             /\ SkipAligned[<<f + q, f + q>>] = <<e + r, e + r>>
<1> DEFINE Ends(g, p) == \E e \in Nat, r \in Powers :
             /\ e % 2 = 1 /\ e < r
             /\ SkipAligned[<<g, g>>] = <<e, e>>
             /\ SkipAligned[<<g + p, g + p>>] = <<e + r, e + r>>
           T == {n \in Nat : n # 0 => \A p \in Powers : n < p => Ends(n, p)}
<1>1. ASSUME NEW n \in Nat, \A m \in Nat : m < n => m \in T  PROVE n \in T
  <2> SUFFICES ASSUME n # 0, NEW p \in Powers, n < p  PROVE Ends(n, p)
    OBVIOUS
  <2>1. p \in Nat /\ p \div 2 \in Powers /\ p \div 2 \in Nat /\ p = 2 * (p \div 2)
    <3>1. p \in Nat /\ p # 1
      BY DEF Powers
    <3> QED BY <3>1, PowerHalves DEF Powers
  <2>2. CASE n % 2 = 1
    <3>1. n + p \in Nat /\ (n + p) % 2 = 1
      BY <2>1, <2>2
    <3>2. SkipAligned[<<n, n>>] = <<n, n>> /\ SkipAligned[<<n + p, n + p>>] = <<n + p, n + p>>
      BY <2>1, <2>2, <3>1, SkipAlignedIs
    <3> QED BY <2>2, <3>2
  <2>3. CASE n % 2 # 1
    <3>1. /\ (n + p) % 2 # 1 /\ (n + p) \div 2 = n \div 2 + p \div 2
          /\ n \div 2 \in Nat \ {0} /\ n \div 2 < n /\ n \div 2 < p \div 2
      BY <2>1, <2>3
    <3>2. SkipAligned[<<n, n>>] = SkipAligned[<<n \div 2, n \div 2>>]
      BY <2>3, SkipAlignedIs
    <3>3. SkipAligned[<<n + p, n + p>>]
            = SkipAligned[<<n \div 2 + p \div 2, n \div 2 + p \div 2>>]
      BY <2>1, <3>1, SkipAlignedIs
    <3>4. Ends(n \div 2, p \div 2)
      BY <1>1, <2>1, <3>1
    <3> QED BY <3>2, <3>3, <3>4
  <2> QED BY <2>2, <2>3
<1>2. \A n \in Nat : n \in T
  <2> HIDE DEF T
  <2> QED BY <1>1, OfSizes!Induction
<1> QED BY <1>2

\* Where the walk begins: alike in a tree and in its left part, of which q is
\* the size ...
StartsLeft(f, t, q) ==
    \E e \in Nat, v \in Nat, r \in Powers :
      /\ e < r /\ r <= v /\ v < 2 * r
      /\ SkipOdd[<<f, q - 1>>] = <<e, r - 1>>
      /\ SkipOdd[<<f, t>>] = <<e, v>>

\* ... and in its right part.
StartsRight(f, s, q) ==
    \E e \in Nat, v \in Nat, r \in Powers :
      /\ e <= v /\ v < r
      /\ SkipOdd[<<f, s>>] = <<e, v>>
      /\ SkipOdd[<<f + q, s + q>>] = <<e + r, v + r>>

\* A walk begins alike in a tree and in its left part.
LEMMA OddLeft ==
    ASSUME NEW f \in Nat, NEW t \in Nat, NEW q \in Powers, f < q, q <= t, t < 2 * q
    PROVE  StartsLeft(f, t, q)
<1> DEFINE T == {n \in Nat : \A p \in Powers, u \in Nat :
                   n < p /\ p <= u /\ u < 2 * p => StartsLeft(n, u, p)}
<1>1. ASSUME NEW n \in Nat, \A m \in Nat : m < n => m \in T  PROVE n \in T
  <2> SUFFICES ASSUME NEW p \in Powers, NEW u \in Nat, n < p, p <= u, u < 2 * p
               PROVE  StartsLeft(n, u, p)
    OBVIOUS
  <2>1. p \in Nat /\ p # 0
    BY DEF Powers
  <2>2. CASE n % 2 # 1
    <3>1. p - 1 \in Nat
      BY <2>1
    <3>2. SkipOdd[<<n, p - 1>>] = <<n, p - 1>> /\ SkipOdd[<<n, u>>] = <<n, u>>
      BY <2>2, <3>1, SkipOddIs
    <3> QED BY <2>1, <3>2 DEF StartsLeft
  <2>3. CASE n % 2 = 1
    <3>1. p \div 2 \in Powers /\ p \div 2 \in Nat /\ p = 2 * (p \div 2)
      <4>1. p # 1
        BY <2>1, <2>3
      <4> QED BY <4>1, PowerHalves DEF Powers
    <3>2. /\ n \div 2 \in Nat /\ n \div 2 < n /\ n \div 2 < p \div 2
          /\ (p - 1) \div 2 = p \div 2 - 1
          /\ u \div 2 \in Nat /\ p \div 2 <= u \div 2 /\ u \div 2 < 2 * (p \div 2)
      BY <2>3, <3>1
    <3>3. SkipOdd[<<n, p - 1>>] = SkipOdd[<<n \div 2, p \div 2 - 1>>]
      BY <2>1, <2>3, <3>2, SkipOddIs
    <3>4. SkipOdd[<<n, u>>] = SkipOdd[<<n \div 2, u \div 2>>]
      BY <2>3, SkipOddIs
    <3>5. StartsLeft(n \div 2, u \div 2, p \div 2)
      <4>1. n \div 2 \in T
        BY <1>1, <3>2
      <4> QED BY <3>1, <3>2, <4>1
    <3> QED BY <3>3, <3>4, <3>5, Zenon DEF StartsLeft
  <2> QED BY <2>2, <2>3
<1>2. \A n \in Nat : n \in T
  <2> HIDE DEF T
  <2> QED BY <1>1, OfSizes!Induction
<1>3. f \in T
  BY <1>2
<1> QED BY <1>3

\* It begins alike in its right part, unless it begins at that part's end.
LEMMA OddRight ==
    ASSUME NEW f \in Nat, NEW s \in Nat, NEW q \in Powers, f < s, s < q
    PROVE  StartsRight(f, s, q)
<1> DEFINE T == {n \in Nat : \A p \in Powers, u \in Nat :
                   n <= u /\ u < p /\ n + 1 < p => StartsRight(n, u, p)}
<1>1. ASSUME NEW n \in Nat, \A m \in Nat : m < n => m \in T  PROVE n \in T
  <2> SUFFICES ASSUME NEW p \in Powers, NEW u \in Nat, n <= u, u < p, n + 1 < p
               PROVE  StartsRight(n, u, p)
    OBVIOUS
  <2>1. p \div 2 \in Powers /\ p \div 2 \in Nat /\ p \in Nat /\ p = 2 * (p \div 2)
    <3>1. p \in Nat /\ p # 1
      BY DEF Powers
    <3> QED BY <3>1, PowerHalves DEF Powers
  <2>2. CASE n % 2 # 1
    <3>1. n + p \in Nat /\ u + p \in Nat /\ (n + p) % 2 # 1
      BY <2>1, <2>2
    <3>2. SkipOdd[<<n, u>>] = <<n, u>> /\ SkipOdd[<<n + p, u + p>>] = <<n + p, u + p>>
      BY <2>2, <3>1, SkipOddIs
    <3> QED BY <2>1, <3>2 DEF StartsRight
  <2>3. CASE n % 2 = 1
    <3>1. (n + p) % 2 = 1
      BY <2>1, <2>3
    <3>2. /\ n \div 2 \in Nat /\ n \div 2 < n /\ n \div 2 + 1 < p \div 2
          /\ u \div 2 \in Nat /\ n \div 2 <= u \div 2 /\ u \div 2 < p \div 2
          /\ (n + p) \div 2 = n \div 2 + p \div 2
          /\ (u + p) \div 2 = u \div 2 + p \div 2
      BY <2>1, <2>3
    <3>3. SkipOdd[<<n, u>>] = SkipOdd[<<n \div 2, u \div 2>>]
      BY <2>3, SkipOddIs
    <3>4. SkipOdd[<<n + p, u + p>>] = SkipOdd[<<n \div 2 + p \div 2, u \div 2 + p \div 2>>]
      <4>1. n + p \in Nat /\ u + p \in Nat
        BY <2>1
      <4>2. SkipOdd[<<n + p, u + p>>] = SkipOdd[<<(n + p) \div 2, (u + p) \div 2>>]
        BY <3>1, <4>1, SkipOddIs
      <4> QED BY <3>2, <4>2, Zenon
    <3>5. StartsRight(n \div 2, u \div 2, p \div 2)
      <4>1. n \div 2 \in T
        BY <1>1, <3>2
      <4> QED BY <2>1, <3>2, <4>1
    <3> QED BY <3>3, <3>4, <3>5, Zenon DEF StartsRight
  <2> QED BY <2>2, <2>3
<1>2. \A n \in Nat : n \in T
  <2> HIDE DEF T
  <2> QED BY <1>1, OfSizes!Induction
<1>3. f \in T /\ f <= s /\ f + 1 < q
  BY <1>2 DEF Powers
<1> QED BY <1>3

-----------------------------------------------------------------------------
(* The walk in a tree, and the walk in a part of it.                       *)

Hash == {Root[s] : s \in Log}

Begin(at, h) == [fn |-> at[1], sn |-> at[2], fr |-> h, sr |-> h]

\* Walk begins with the first hash, and meets the others one by one.
LEMMA WalkIs ==
    ASSUME NEW at, NEW p \in Seq(Hash), p # <<>>
    PROVE  /\ Walk(at, p)[1] = Begin(at, p[1])
           /\ \A i \in 2 .. Len(p) : Walk(at, p)[i] = Meet(Walk(at, p)[i - 1], p[i])
<1> DEFINE N == Len(p)
           step(f, i) ==
             IF i = 1 THEN [fn |-> at[1], sn |-> at[2], fr |-> p[1], sr |-> p[1]]
             ELSE Meet(f[i - 1], p[i])
           T == {n \in Nat : \E f : \A i \in 1 .. n : f[i] = step(f, i)}
           w == Walk(at, p)
<1>1. ASSUME NEW n \in Nat, \A m \in Nat : m < n => m \in T  PROVE n \in T
  <2>1. CASE n = 0
    <3>1. \A i \in 1 .. n : FALSE
      BY <2>1
    <3> QED BY <3>1
  <2>2. CASE n # 0
    <3>1. PICK f : \A i \in 1 .. n - 1 : f[i] = step(f, i)
      <4>1. n - 1 \in Nat /\ n - 1 < n
        BY <2>2
      <4> QED BY <1>1, <4>1
    <3> DEFINE g == [i \in 1 .. n |-> IF i = n THEN step(f, n) ELSE f[i]]
    <3>2. ASSUME NEW i \in 1 .. n  PROVE g[i] = step(g, i)
      <4>1. g[i] = step(f, i)
        <5>1. i # n => i \in 1 .. n - 1
          OBVIOUS
        <5>2. g[i] = IF i = n THEN step(f, n) ELSE f[i]
          OBVIOUS
        <5> HIDE DEF g, step
        <5> QED BY <3>1, <5>1, <5>2
      <4>2. i # 1 => g[i - 1] = f[i - 1]
        OBVIOUS
      <4> HIDE DEF g
      <4> QED BY <4>1, <4>2
    <3> HIDE DEF g, step
    <3> QED BY <3>2
  <2> QED BY <2>1, <2>2
<1>2. N \in T
  <2> HIDE DEF T
  <2> QED BY <1>1, OfSizes!Induction
<1>3. PICK f : \A i \in 1 .. N : f[i] = step(f, i)
  BY <1>2
<1>4. \E g : g = [i \in 1 .. N |-> step(g, i)]
  <2> DEFINE g == [i \in 1 .. N |-> f[i]]
  <2>1. ASSUME NEW i \in 1 .. N  PROVE step(f, i) = step(g, i)
    <3>1. i # 1 => g[i - 1] = f[i - 1]
      OBVIOUS
    <3> HIDE DEF g
    <3> QED BY <3>1
  <2>2. g = [i \in 1 .. N |-> step(g, i)]
    <3> HIDE DEF step
    <3> QED BY <1>3, <2>1
  <2> HIDE DEF g
  <2> QED BY <2>2
<1>5. w = [i \in 1 .. N |-> step(w, i)]
  BY <1>4 DEF Walk
<1>6. \A i \in 1 .. N : w[i] = step(w, i)
  <2> HIDE DEF w, step
  <2> QED BY <1>5
<1>7. 1 \in 1 .. N /\ \A i \in 2 .. N : i \in 1 .. N /\ i # 1
  OBVIOUS
<1>8. step(w, 1) = Begin(at, p[1])
  BY DEF Begin
<1> HIDE DEF w, N
<1> QED BY <1>6, <1>7, <1>8 DEF w, N

\* u walks in the left part of the tree that w walks in, and q is the size of
\* that part at this level ...
UnderLeft(u, w) ==
    \E q \in Powers :
      /\ u.fn \in Nat /\ u.fn < q /\ u.sn = q - 1
      /\ w.fn = u.fn /\ w.sn \in Nat /\ q <= w.sn /\ w.sn < 2 * q
      /\ w.fr = u.fr /\ w.sr = u.sr

\* ... u in the right part, and q is the size of the left one.
UnderRight(u, w) ==
    \E q \in Powers :
      /\ u.fn \in Nat /\ u.sn \in Nat /\ u.fn <= u.sn /\ u.sn < q
      /\ w.fn = u.fn + q /\ w.sn = u.sn + q
      /\ w.fr = u.fr /\ w.sr = u.sr

\* A sibling on the right: one level up.
LEMMA MeetRight ==
    ASSUME NEW w, NEW c, w.fn \in Nat, w.fn % 2 # 1, w.fn # w.sn
    PROVE  Meet(w, c) = [fn |-> w.fn \div 2, sn |-> w.sn \div 2,
                         fr |-> w.fr, sr |-> NodeHash(w.sr, c)]
BY DEF Meet, FromTheLeft

\* A sibling on the left: one level up, from where the node is a right child.
LEMMA MeetLeft ==
    ASSUME NEW w, NEW c, NEW e, NEW v, w.fn % 2 = 1 \/ w.fn = w.sn,
           SkipAligned[<<w.fn, w.sn>>] = <<e, v>>
    PROVE  Meet(w, c) = [fn |-> e \div 2, sn |-> v \div 2,
                         fr |-> NodeHash(c, w.fr), sr |-> NodeHash(c, w.sr)]
BY DEF Meet, FromTheLeft

\* In the left part the two walks stay together ...
LEMMA LeftStep ==
    ASSUME NEW u, NEW w, UnderLeft(u, w), u.sn # 0, NEW c
    PROVE  UnderLeft(Meet(u, c), Meet(w, c))
<1>1. PICK q \in Powers :
        /\ u.fn \in Nat /\ u.fn < q /\ u.sn = q - 1
        /\ w.fn = u.fn /\ w.sn \in Nat /\ q <= w.sn /\ w.sn < 2 * q
        /\ w.fr = u.fr /\ w.sr = u.sr
  BY DEF UnderLeft
<1>2. q \in Nat /\ q \div 2 \in Powers /\ q \div 2 \in Nat /\ q = 2 * (q \div 2)
  <2>1. q \in Nat /\ q # 1
    BY <1>1 DEF Powers
  <2> QED BY <2>1, PowerHalves DEF Powers
<1>3. /\ u.sn \in Nat /\ u.sn \div 2 = q \div 2 - 1
      /\ u.fn \div 2 \in Nat /\ u.fn \div 2 < q \div 2
      /\ w.sn \div 2 \in Nat /\ q \div 2 <= w.sn \div 2 /\ w.sn \div 2 < 2 * (q \div 2)
  BY <1>1, <1>2
<1>4. CASE u.fn % 2 = 1
  <2>1. Meet(u, c) = [fn |-> u.fn \div 2, sn |-> u.sn \div 2,
                      fr |-> NodeHash(c, u.fr), sr |-> NodeHash(c, u.sr)]
    <3>1. SkipAligned[<<u.fn, u.sn>>] = <<u.fn, u.sn>>
      BY <1>1, <1>3, <1>4, SkipAlignedIs
    <3> QED BY <1>1, <1>3, <1>4, <3>1, MeetLeft
  <2>2. Meet(w, c) = [fn |-> u.fn \div 2, sn |-> w.sn \div 2,
                      fr |-> NodeHash(c, u.fr), sr |-> NodeHash(c, u.sr)]
    <3>1. SkipAligned[<<w.fn, w.sn>>] = <<w.fn, w.sn>>
      BY <1>1, <1>4, SkipAlignedIs
    <3> QED BY <1>1, <1>4, <3>1, MeetLeft
  <2> QED BY <1>2, <1>3, <2>1, <2>2 DEF UnderLeft
<1>5. CASE u.fn % 2 # 1
  <2>1. u.fn # u.sn /\ u.fn # w.sn
    BY <1>1, <1>2, <1>5
  <2>2. Meet(u, c) = [fn |-> u.fn \div 2, sn |-> u.sn \div 2,
                      fr |-> u.fr, sr |-> NodeHash(u.sr, c)]
    BY <1>1, <1>5, <2>1, MeetRight
  <2>3. Meet(w, c) = [fn |-> u.fn \div 2, sn |-> w.sn \div 2,
                      fr |-> u.fr, sr |-> NodeHash(u.sr, c)]
    BY <1>1, <1>5, <2>1, MeetRight
  <2> QED BY <1>2, <1>3, <2>2, <2>3 DEF UnderLeft
<1> QED BY <1>4, <1>5

\* ... and where the one arrives, the other has the right part to meet.
LEMMA LeftArrival ==
    ASSUME NEW u, NEW w, UnderLeft(u, w), NEW c
    PROVE  /\ w.sn # 0
           /\ u.sn = 0 => /\ Meet(w, c).sn = 0
                          /\ Meet(w, c).fr = u.fr /\ Meet(w, c).sr = NodeHash(u.sr, c)
<1>1. PICK q \in Powers :
        /\ u.fn \in Nat /\ u.fn < q /\ u.sn = q - 1
        /\ w.fn = u.fn /\ w.sn \in Nat /\ q <= w.sn /\ w.sn < 2 * q
        /\ w.fr = u.fr /\ w.sr = u.sr
  BY DEF UnderLeft
<1>2. q \in Nat /\ q > 0
  BY DEF Powers
<1>3. ASSUME u.sn = 0
      PROVE  /\ Meet(w, c).sn = 0
             /\ Meet(w, c).fr = u.fr /\ Meet(w, c).sr = NodeHash(u.sr, c)
  <2>1. w.fn = 0 /\ w.sn = 1 /\ w.fn % 2 # 1 /\ w.sn \div 2 = 0
    BY <1>1, <1>2, <1>3
  <2>2. Meet(w, c) = [fn |-> w.fn \div 2, sn |-> w.sn \div 2,
                      fr |-> w.fr, sr |-> NodeHash(w.sr, c)]
    BY <2>1, MeetRight
  <2> QED BY <1>1, <2>1, <2>2
<1> QED BY <1>1, <1>2, <1>3

\* In the right part the two walks stay together ...
LEMMA RightStep ==
    ASSUME NEW u, NEW w, UnderRight(u, w), u.sn # 0, NEW c
    PROVE  UnderRight(Meet(u, c), Meet(w, c))
<1>1. PICK q \in Powers :
        /\ u.fn \in Nat /\ u.sn \in Nat /\ u.fn <= u.sn /\ u.sn < q
        /\ w.fn = u.fn + q /\ w.sn = u.sn + q
        /\ w.fr = u.fr /\ w.sr = u.sr
  BY DEF UnderRight
<1>2. q \in Nat /\ q \div 2 \in Powers /\ q \div 2 \in Nat /\ q = 2 * (q \div 2)
  <2>1. q \in Nat /\ q # 1
    BY <1>1 DEF Powers
  <2> QED BY <2>1, PowerHalves DEF Powers
<1>3. /\ u.fn \div 2 \in Nat /\ u.sn \div 2 \in Nat
      /\ u.fn \div 2 <= u.sn \div 2 /\ u.sn \div 2 < q \div 2
      /\ w.fn \in Nat /\ w.sn \in Nat
      /\ w.fn \div 2 = u.fn \div 2 + q \div 2 /\ w.sn \div 2 = u.sn \div 2 + q \div 2
      /\ (w.fn % 2 = 1 <=> u.fn % 2 = 1) /\ (w.fn = w.sn <=> u.fn = u.sn)
  BY <1>1, <1>2
<1>4. CASE u.fn % 2 = 1
  <2>1. Meet(u, c) = [fn |-> u.fn \div 2, sn |-> u.sn \div 2,
                      fr |-> NodeHash(c, u.fr), sr |-> NodeHash(c, u.sr)]
    <3>1. SkipAligned[<<u.fn, u.sn>>] = <<u.fn, u.sn>>
      BY <1>1, <1>4, SkipAlignedIs
    <3> QED BY <1>4, <3>1, MeetLeft
  <2>2. Meet(w, c) = [fn |-> w.fn \div 2, sn |-> w.sn \div 2,
                      fr |-> NodeHash(c, w.fr), sr |-> NodeHash(c, w.sr)]
    <3>1. SkipAligned[<<w.fn, w.sn>>] = <<w.fn, w.sn>>
      BY <1>3, <1>4, SkipAlignedIs
    <3> QED BY <1>3, <1>4, <3>1, MeetLeft
  <2> QED BY <1>1, <1>2, <1>3, <2>1, <2>2 DEF UnderRight
<1>5. CASE u.fn % 2 # 1 /\ u.fn # u.sn
  <2>1. Meet(u, c) = [fn |-> u.fn \div 2, sn |-> u.sn \div 2,
                      fr |-> u.fr, sr |-> NodeHash(u.sr, c)]
    BY <1>1, <1>5, MeetRight
  <2>2. Meet(w, c) = [fn |-> w.fn \div 2, sn |-> w.sn \div 2,
                      fr |-> w.fr, sr |-> NodeHash(w.sr, c)]
    BY <1>3, <1>5, MeetRight
  <2> QED BY <1>1, <1>2, <1>3, <2>1, <2>2 DEF UnderRight
<1>6. CASE u.fn % 2 # 1 /\ u.fn = u.sn
  <2>1. PICK e \in Nat, r \in Powers :
          /\ e % 2 = 1 /\ e < r
          /\ SkipAligned[<<u.fn, u.fn>>] = <<e, e>>
          /\ SkipAligned[<<u.fn + q, u.fn + q>>] = <<e + r, e + r>>
    BY <1>1, <1>6, AlignedRight
  <2>2. Meet(u, c) = [fn |-> e \div 2, sn |-> e \div 2,
                      fr |-> NodeHash(c, u.fr), sr |-> NodeHash(c, u.sr)]
    BY <1>6, <2>1, MeetLeft
  <2>3. Meet(w, c) = [fn |-> (e + r) \div 2, sn |-> (e + r) \div 2,
                      fr |-> NodeHash(c, w.fr), sr |-> NodeHash(c, w.sr)]
    BY <1>1, <1>3, <1>6, <2>1, MeetLeft
  <2>4. r \in Nat /\ r \div 2 \in Powers /\ r \div 2 \in Nat /\ r = 2 * (r \div 2)
    <3>1. r \in Nat /\ r # 1
      BY <2>1 DEF Powers
    <3> QED BY <3>1, PowerHalves DEF Powers
  <2>5. /\ e \div 2 \in Nat /\ e \div 2 <= e \div 2 /\ e \div 2 < r \div 2
        /\ (e + r) \div 2 = e \div 2 + r \div 2
    BY <2>1, <2>4
  <2> QED BY <1>1, <2>2, <2>3, <2>4, <2>5 DEF UnderRight
<1> QED BY <1>4, <1>5, <1>6

\* ... and where the one arrives, the other has the left part to meet.
LEMMA RightArrival ==
    ASSUME NEW u, NEW w, UnderRight(u, w), NEW c
    PROVE  /\ w.sn # 0
           /\ u.sn = 0 => /\ Meet(w, c).sn = 0
                          /\ Meet(w, c).fr = NodeHash(c, u.fr)
                          /\ Meet(w, c).sr = NodeHash(c, u.sr)
<1>1. PICK q \in Powers :
        /\ u.fn \in Nat /\ u.sn \in Nat /\ u.fn <= u.sn /\ u.sn < q
        /\ w.fn = u.fn + q /\ w.sn = u.sn + q
        /\ w.fr = u.fr /\ w.sr = u.sr
  BY DEF UnderRight
<1>2. q \in Nat /\ q > 0
  BY DEF Powers
<1>3. ASSUME u.sn = 0
      PROVE  /\ Meet(w, c).sn = 0
             /\ Meet(w, c).fr = NodeHash(c, u.fr) /\ Meet(w, c).sr = NodeHash(c, u.sr)
  <2>1. w.fn = q /\ w.sn = q /\ 1 \div 2 = 0
    BY <1>1, <1>2, <1>3
  <2>2. Meet(w, c) = [fn |-> 1 \div 2, sn |-> 1 \div 2,
                      fr |-> NodeHash(c, w.fr), sr |-> NodeHash(c, w.sr)]
    BY <2>1, AlignedPower, MeetLeft
  <2> QED BY <1>1, <2>1, <2>2
<1> QED BY <1>1, <1>2, <1>3

\* u walks in one part of the tree that w walks in.
Under(side, u, w) == IF side = "left" THEN UnderLeft(u, w) ELSE UnderRight(u, w)

\* The old and the new root of a tree, from those of the part and the other's.
OldAbove(side, h, c) == IF side = "left" THEN h ELSE NodeHash(c, h)
NewAbove(side, h, c) == IF side = "left" THEN NodeHash(h, c) ELSE NodeHash(c, h)

\* Before the part's root, the two walks go on together.
LEMMA Step ==
    ASSUME NEW side, NEW u, NEW w, Under(side, u, w), u.sn # 0, NEW c
    PROVE  Under(side, Meet(u, c), Meet(w, c))
BY LeftStep, RightStep DEF Under

\* At the part's root, one more sibling takes the walk to the tree's.
LEMMA Arrival ==
    ASSUME NEW side, NEW u, NEW w, Under(side, u, w), NEW c
    PROVE  /\ w.sn # 0
           /\ u.sn = 0 => /\ Meet(w, c).sn = 0
                          /\ Meet(w, c).fr = OldAbove(side, u.fr, c)
                          /\ Meet(w, c).sr = NewAbove(side, u.sr, c)
<1>1. CASE side = "left"
  BY <1>1, LeftArrival DEF Under, OldAbove, NewAbove
<1>2. CASE side # "left"
  BY <1>2, RightArrival DEF Under, OldAbove, NewAbove
<1> QED BY <1>1, <1>2

\* w, through z, arrives where u does through p, and one level higher.
Above(side, u, p, w, z, c) ==
    /\ Arrives(w, z) <=> Arrives(u, p)
    /\ Arrives(u, p) => /\ w[Len(z)].fr = OldAbove(side, u[Len(p)].fr, c)
                        /\ w[Len(z)].sr = NewAbove(side, u[Len(p)].sr, c)

\* The walk through a tree is the walk through a part of it, and one hash more.
LEMMA PartWalk ==
    ASSUME NEW side, NEW at, NEW bt, NEW p \in Seq(Hash), p # <<>>, NEW c \in Hash,
           Under(side, Begin(at, p[1]), Begin(bt, p[1]))
    PROVE  Above(side, Walk(at, p), p, Walk(bt, Append(p, c)), Append(p, c), c)
<1> DEFINE z == Append(p, c)
           u == Walk(at, p)
           w == Walk(bt, z)
           d == Len(p)
<1>1. /\ d \in Nat \ {0} /\ Len(z) = d + 1
      /\ z[d + 1] = c /\ \A i \in 1 .. d : z[i] = p[i]
  OBVIOUS
<1>2. /\ u[1] = Begin(at, p[1])
      /\ \A i \in 2 .. d : u[i] = Meet(u[i - 1], p[i])
  BY <1>1, WalkIs
<1>3. /\ w[1] = Begin(bt, p[1])
      /\ \A i \in 2 .. d + 1 : w[i] = Meet(w[i - 1], z[i])
  <2>1. z \in Seq(Hash) /\ z # <<>> /\ z[1] = p[1]
    BY <1>1
  <2>2. /\ Walk(bt, z)[1] = Begin(bt, z[1])
        /\ \A i \in 2 .. Len(z) : Walk(bt, z)[i] = Meet(Walk(bt, z)[i - 1], z[i])
    BY <2>1, WalkIs
  <2>3. Len(z) = d + 1
    BY <1>1
  <2>4. w[1] = Begin(bt, z[1]) /\ \A i \in 2 .. Len(z) : w[i] = Meet(w[i - 1], z[i])
    BY <2>2, Zenon
  <2> HIDE DEF d, z, w
  <2> QED BY <2>1, <2>3, <2>4, Zenon
<1> HIDE DEF d, z, u, w
<1>4. /\ \A i \in 1 .. d - 1 : u[i + 1] = Meet(u[i], p[i + 1]) /\ w[i + 1] = Meet(w[i], p[i + 1])
      /\ w[d + 1] = Meet(w[d], c)
  <2>1. ASSUME NEW i \in 1 .. d - 1
        PROVE  u[i + 1] = Meet(u[i], p[i + 1]) /\ w[i + 1] = Meet(w[i], p[i + 1])
    <3>1. i + 1 \in 2 .. d /\ i + 1 \in 2 .. d + 1 /\ i + 1 \in 1 .. d /\ (i + 1) - 1 = i
      BY <1>1
    <3> QED BY <1>1, <1>2, <1>3, <3>1
  <2>2. d + 1 \in 2 .. d + 1 /\ (d + 1) - 1 = d
    BY <1>1
  <2> QED BY <1>1, <1>3, <2>1, <2>2
<1>5. ASSUME \A i \in 1 .. d - 1 : u[i].sn # 0 \/ w[i + 1].sn # 0
      PROVE  \A i \in 1 .. d : Under(side, u[i], w[i])
  <2> DEFINE T == {i \in Nat : i \in 1 .. d => Under(side, u[i], w[i])}
  <2>1. ASSUME NEW i \in Nat, \A j \in Nat : j < i => j \in T  PROVE i \in T
    <3> SUFFICES ASSUME i \in 1 .. d  PROVE Under(side, u[i], w[i])
      OBVIOUS
    <3>1. CASE i = 1
      BY <1>2, <1>3, <3>1
    <3>2. CASE i # 1
      <4> DEFINE j == i - 1
      <4>1. j \in Nat /\ j < i /\ j \in 1 .. d /\ j \in 1 .. d - 1 /\ j + 1 = i
        BY <1>1, <3>2
      <4> HIDE DEF j
      <4>2. Under(side, u[j], w[j])
        BY <2>1, <4>1
      <4>3. u[i] = Meet(u[j], p[i]) /\ w[i] = Meet(w[j], p[i])
        BY <1>4, <4>1
      <4>4. u[j].sn # 0 \/ w[i].sn # 0
        BY <1>5, <4>1
      <4>5. u[j].sn # 0
        BY <4>2, <4>3, <4>4, Arrival
      <4> QED BY <4>2, <4>3, <4>5, Step
    <3> QED BY <3>1, <3>2
  <2>2. \A i \in Nat : i \in T
    <3> HIDE DEF T
    <3> QED BY <2>1, OfSizes!Induction
  <2>3. \A i \in 1 .. d : i \in Nat
    BY <1>1
  <2> QED BY <2>2, <2>3
<1>6. ASSUME Arrives(w, z)  PROVE Arrives(u, p)
  <2>1. \A i \in 1 .. d : w[i].sn # 0
    <3>1. \A i \in 1 .. d : i \in 1 .. Len(z) /\ i # Len(z)
      BY <1>1
    <3> QED BY <1>6, <3>1 DEF Arrives
  <2>2. w[d + 1].sn = 0
    <3>1. d + 1 \in 1 .. Len(z) /\ d + 1 = Len(z)
      BY <1>1
    <3> QED BY <1>6, <3>1 DEF Arrives
  <2>3. \A i \in 1 .. d - 1 : i + 1 \in 1 .. d /\ i \in 1 .. d
    BY <1>1
  <2>4. \A i \in 1 .. d : Under(side, u[i], w[i])
    BY <1>5, <2>1, <2>3
  <2>5. \A i \in 1 .. d - 1 : u[i].sn # 0
    <3> SUFFICES ASSUME NEW i \in 1 .. d - 1, u[i].sn = 0  PROVE FALSE
      OBVIOUS
    <3>1. w[i + 1].sn = 0
      BY <1>4, <2>3, <2>4, Arrival
    <3> QED BY <2>1, <2>3, <3>1
  <2>6. u[d].sn = 0
    <3> SUFFICES ASSUME u[d].sn # 0  PROVE FALSE
      OBVIOUS
    <3>1. d \in 1 .. d
      BY <1>1
    <3>2. Under(side, Meet(u[d], c), w[d + 1])
      BY <1>4, <2>4, <3>1, Step
    <3> QED BY <2>2, <3>2, Arrival
  <2>7. \A i \in 1 .. d : i = d \/ i \in 1 .. d - 1
    BY <1>1
  <2>8. \A i \in 1 .. d - 1 : i # d
    BY <1>1
  <2> QED BY <2>5, <2>6, <2>7, <2>8 DEF Arrives, d
<1>7. ASSUME Arrives(u, p)
      PROVE  /\ Arrives(w, z)
             /\ w[Len(z)].fr = OldAbove(side, u[Len(p)].fr, c)
             /\ w[Len(z)].sr = NewAbove(side, u[Len(p)].sr, c)
  <2>1. \A i \in 1 .. d - 1 : i \in 1 .. d /\ i # d
    BY <1>1
  <2>2. d \in 1 .. d
    BY <1>1
  <2>3. /\ \A i \in 1 .. d - 1 : u[i].sn # 0
        /\ u[d].sn = 0
    BY <1>7, <2>1, <2>2 DEF Arrives, d
  <2>4. \A i \in 1 .. d : Under(side, u[i], w[i])
    BY <1>5, <2>3
  <2>5. \A i \in 1 .. d : w[i].sn # 0
    BY <2>4, Arrival
  <2>6. /\ w[d + 1].sn = 0
        /\ w[d + 1].fr = OldAbove(side, u[d].fr, c)
        /\ w[d + 1].sr = NewAbove(side, u[d].sr, c)
    BY <1>4, <2>2, <2>3, <2>4, Arrival
  <2>7. \A i \in 1 .. Len(z) : (i \in 1 .. d /\ i # Len(z)) \/ (i = d + 1 /\ i = Len(z))
    BY <1>1
  <2> QED BY <1>1, <2>5, <2>6, <2>7 DEF Arrives, d
<1>8. Above(side, u, p, w, z, c)
  BY <1>6, <1>7 DEF Above
<1> QED BY <1>8 DEF z, u, w

-----------------------------------------------------------------------------
(* What the verifiers accept.                                              *)

\* A sequence of two or more is one shorter, and its last element.
LEMMA AllButLast ==
    ASSUME NEW p \in Seq(Hash), Len(p) >= 2
    PROVE  \E b \in Seq(Hash), c \in Hash : p = Append(b, c) /\ b # <<>> /\ b[1] = p[1]
<1> DEFINE b == [i \in 1 .. Len(p) - 1 |-> p[i]]
           c == p[Len(p)]
<1>1. c \in Hash
  OBVIOUS
<1>2. b \in Seq(Hash) /\ Len(b) = Len(p) - 1
  OBVIOUS
<1>3. b # <<>> /\ b[1] = p[1]
  <2>1. 1 \in 1 .. Len(p) - 1
    OBVIOUS
  <2>2. b[1] = p[1] /\ 1 \in DOMAIN b
    BY <2>1
  <2>3. DOMAIN <<>> = {}
    OBVIOUS
  <2> HIDE DEF b
  <2> QED BY <2>2, <2>3
<1>4. p = Append(b, c)
  <2> DEFINE q == Append(b, c)
  <2>1. q \in Seq(Hash) /\ Len(q) = Len(p)
    BY <1>1, <1>2
  <2>2. \A i \in 1 .. Len(p) : q[i] = p[i]
    OBVIOUS
  <2> HIDE DEF q
  <2>3. p = q
    BY <2>1, <2>2
  <2> QED BY <2>3 DEF q
<1> HIDE DEF b, c
<1> QED BY <1>1, <1>2, <1>3, <1>4

\* Two sequences that end alike are alike before.
LEMMA AppendOnce ==
    ASSUME NEW a \in Seq(Hash), NEW b \in Seq(Hash), NEW x \in Hash, NEW y \in Hash
    PROVE  Append(a, x) = Append(b, y) <=> a = b /\ x = y
<1>1. ASSUME Append(a, x) = Append(b, y)  PROVE a = b /\ x = y
  <2>1. Len(a) + 1 = Len(b) + 1 /\ Len(a) = Len(b)
    BY <1>1
  <2>2. x = y
    BY <1>1, <2>1
  <2>3. \A i \in 1 .. Len(a) : a[i] = b[i]
    <3> SUFFICES ASSUME NEW i \in 1 .. Len(a)  PROVE a[i] = b[i]
      OBVIOUS
    <3>1. a[i] = Append(a, x)[i] /\ b[i] = Append(b, y)[i]
      BY <2>1
    <3> QED BY <1>1, <3>1
  <2>4. a = b
    BY <2>1, <2>3
  <2> QED BY <2>2, <2>4
<1> QED BY <1>1

\* A walk that begins at the root takes one hash ...
LEMMA WalkAtRoot ==
    ASSUME NEW at, at[2] = 0, NEW p \in Seq(Hash), p # <<>>
    PROVE  /\ Arrives(Walk(at, p), p) <=> Len(p) = 1
           /\ Len(p) = 1 => /\ Walk(at, p)[Len(p)].fr = p[1]
                            /\ Walk(at, p)[Len(p)].sr = p[1]
<1>1. /\ Walk(at, p)[1].sn = 0
      /\ Walk(at, p)[1].fr = p[1] /\ Walk(at, p)[1].sr = p[1]
  <2>1. Walk(at, p)[1] = Begin(at, p[1])
    BY WalkIs
  <2> QED BY <2>1 DEF Begin
<1>2. Len(p) \in Nat \ {0} /\ 1 \in 1 .. Len(p)
  OBVIOUS
<1>3. Len(p) = 1 => \A i \in 1 .. Len(p) : i = 1
  OBVIOUS
<1> QED BY <1>1, <1>2, <1>3 DEF Arrives

\* ... and one that begins below it, more.
LEMMA WalkBelowRoot ==
    ASSUME NEW at, at[2] # 0, NEW p \in Seq(Hash), p # <<>>, Arrives(Walk(at, p), p)
    PROVE  Len(p) >= 2
<1>1. Walk(at, p)[1].sn # 0
  <2>1. Walk(at, p)[1] = Begin(at, p[1])
    BY WalkIs
  <2> QED BY <2>1 DEF Begin
<1>2. Len(p) \in Nat \ {0} /\ 1 \in 1 .. Len(p)
  OBVIOUS
<1>3. 1 # Len(p)
  BY <1>1, <1>2 DEF Arrives
<1> QED BY <1>2, <1>3, Small

\* The proof of a leaf, with the leaf in front.
PathOf(s, m) == <<LeafHash(s[m + 1])>> \o InclusionProof(s, m)

\* Proofs are made of roots.
LEMMA InclusionProofType ==
    ASSUME NEW s \in Log, NEW m \in 0 .. Len(s) - 1
    PROVE  InclusionProof(s, m) \in Seq(Hash)
<1> DEFINE T == {n \in Nat : \A r \in Log : Len(r) = n =>
                   \A i \in 0 .. n - 1 : InclusionProof(r, i) \in Seq(Hash)}
<1>1. ASSUME NEW n \in Nat, \A j \in Nat : j < n => j \in T  PROVE n \in T
  <2> SUFFICES ASSUME NEW r \in Log, Len(r) = n, NEW i \in 0 .. n - 1
               PROVE  InclusionProof(r, i) \in Seq(Hash)
    OBVIOUS
  <2>0. i \in 0 .. Len(r) - 1
    OBVIOUS
  <2>1. CASE n = 1
    <3>1. InclusionProof(r, i) = <<>>
      BY <2>0, <2>1, InclusionProofIs, Zenon
    <3> QED BY <3>1
  <2>2. CASE n >= 2
    <3> DEFINE k == Split[Len(r)]
    <3>1. /\ k \in Nat /\ k > 0 /\ k < n
          /\ Left(r) \in Log /\ Len(Left(r)) = k /\ Right(r) \in Log /\ Len(Right(r)) = n - k
      BY <2>2, Parts DEF Powers
    <3>2. Root[Left(r)] \in Hash /\ Root[Right(r)] \in Hash
      BY <3>1 DEF Hash
    <3> HIDE DEF k
    <3>3. CASE i < k
      <4>1. i \in 0 .. k - 1
        BY <3>1, <3>3
      <4>2. InclusionProof(Left(r), i) \in Seq(Hash)
        BY <1>1, <3>1, <4>1
      <4>3. InclusionProof(r, i) = Append(InclusionProof(Left(r), i), Root[Right(r)])
        <5>1. Len(r) # 1
          BY <2>2
        <5> QED BY <2>0, <3>3, <5>1, InclusionProofIs, Zenon DEF k
      <4> QED BY <3>2, <4>2, <4>3
    <3>4. CASE ~(i < k)
      <4>1. i - k \in 0 .. (n - k) - 1 /\ n - k \in Nat /\ n - k < n
        BY <3>1, <3>4
      <4>2. InclusionProof(Right(r), i - k) \in Seq(Hash)
        BY <1>1, <3>1, <4>1
      <4>3. InclusionProof(r, i) = Append(InclusionProof(Right(r), i - k), Root[Left(r)])
        <5>1. Len(r) # 1
          BY <2>2
        <5> QED BY <2>0, <3>4, <5>1, InclusionProofIs, Zenon DEF k
      <4> QED BY <3>2, <4>2, <4>3
    <3> QED BY <3>3, <3>4
  <2> QED BY <2>1, <2>2
<1>2. \A n \in Nat : n \in T
  <2> HIDE DEF T
  <2> QED BY <1>1, OfSizes!Induction
<1> QED BY <1>2 DEF Log

\* A hash in front and one behind, in either order.
LEMMA OneThenAppend ==
    ASSUME NEW H, NEW h \in H, NEW b \in Seq(H), NEW c \in H
    PROVE  <<h>> \o Append(b, c) = Append(<<h>> \o b, c)
OBVIOUS

\* A leaf's hash is the root of the log that has that leaf alone.
LEMMA LeafIsRoot ==
    ASSUME NEW e \in Entry
    PROVE  LeafHash(e) \in Hash
<1>1. <<e>> \in Log /\ Len(<<e>>) = 1 /\ <<e>> # <<>> /\ <<e>>[1] = e
  BY DEF Log
<1>2. Root[<<e>>] = LeafHash(e)
  BY <1>1, RootIs
<1> QED BY <1>1, <1>2 DEF Hash

\* The leaf and its proof: those in its part, then the root of the other.
LEMMA PathOfIs ==
    ASSUME NEW s \in Log, NEW m \in 0 .. Len(s) - 1
    PROVE  /\ PathOf(s, m) \in Seq(Hash) /\ PathOf(s, m) # <<>>
           /\ Len(s) = 1 => PathOf(s, m) = <<LeafHash(s[1])>>
           /\ Len(s) >= 2 /\ m < Split[Len(s)] =>
                PathOf(s, m) = Append(PathOf(Left(s), m), Root[Right(s)])
           /\ Len(s) >= 2 /\ ~(m < Split[Len(s)]) =>
                PathOf(s, m) = Append(PathOf(Right(s), m - Split[Len(s)]), Root[Left(s)])
<1> DEFINE k == Split[Len(s)]
<1>1. ASSUME NEW e \in Entry  PROVE LeafHash(e) \in Hash
  BY LeafIsRoot
<1>2. s[m + 1] \in Entry
  BY DEF Log
<1>3. InclusionProof(s, m) \in Seq(Hash)
  BY InclusionProofType
<1>4. PathOf(s, m) \in Seq(Hash) /\ PathOf(s, m) # <<>>
  BY <1>1, <1>2, <1>3 DEF PathOf
<1>5. ASSUME Len(s) = 1  PROVE PathOf(s, m) = <<LeafHash(s[1])>>
  <2>1. m = 0 /\ m + 1 = 1
    BY <1>5
  <2>2. InclusionProof(s, m) = <<>>
    BY <1>5, InclusionProofIs, Zenon
  <2>3. LeafHash(s[1]) \in Hash
    BY <1>1, <1>2, <2>1
  <2>4. <<LeafHash(s[1])>> \o <<>> = <<LeafHash(s[1])>>
    BY <2>3
  <2> QED BY <2>1, <2>2, <2>4 DEF PathOf
<1>6. ASSUME Len(s) >= 2
      PROVE  /\ k \in Nat /\ k > 0 /\ k < Len(s) /\ Len(s) # 1
             /\ Left(s) \in Log /\ Len(Left(s)) = k
             /\ Right(s) \in Log /\ Len(Right(s)) = Len(s) - k
             /\ Root[Left(s)] \in Hash /\ Root[Right(s)] \in Hash
             /\ m < k => m \in 0 .. Len(Left(s)) - 1 /\ Left(s)[m + 1] = s[m + 1]
             /\ ~(m < k) => /\ m - k \in 0 .. Len(Right(s)) - 1
                            /\ Right(s)[(m - k) + 1] = s[m + 1]
  <2>1. /\ k \in Powers /\ k \in 1 .. Len(s) - 1
        /\ Left(s) \in Log /\ Len(Left(s)) = k
        /\ Right(s) \in Log /\ Len(Right(s)) = Len(s) - k
        /\ \A i \in 1 .. k : Left(s)[i] = s[i]
        /\ \A i \in 1 .. Len(s) - k : Right(s)[i] = s[k + i]
    BY <1>6, Parts
  <2>2. Len(s) \in Nat
    BY DEF Log
  <2> HIDE DEF k
  <2>3. k \in Nat /\ k > 0 /\ k < Len(s) /\ Len(s) # 1
    BY <1>6, <2>1, <2>2
  <2>4. m < k => m \in 0 .. k - 1 /\ m + 1 \in 1 .. k
    BY <2>3
  <2>5. ~(m < k) => /\ m - k \in 0 .. (Len(s) - k) - 1
                    /\ (m - k) + 1 \in 1 .. Len(s) - k
                    /\ k + ((m - k) + 1) = m + 1
    BY <2>2, <2>3
  <2>6. ~(m < k) => Right(s)[(m - k) + 1] = s[m + 1]
    BY <2>1, <2>5
  <2> QED BY <2>1, <2>3, <2>4, <2>5, <2>6 DEF Hash
<1>7. ASSUME Len(s) >= 2, m < k
      PROVE  PathOf(s, m) = Append(PathOf(Left(s), m), Root[Right(s)])
  <2>1. InclusionProof(s, m) = Append(InclusionProof(Left(s), m), Root[Right(s)])
    BY <1>6, <1>7, InclusionProofIs, Zenon
  <2>2. InclusionProof(Left(s), m) \in Seq(Hash)
    BY <1>6, <1>7, InclusionProofType
  <2>3. LeafHash(Left(s)[m + 1]) = LeafHash(s[m + 1]) /\ LeafHash(s[m + 1]) \in Hash
    BY <1>1, <1>2, <1>6, <1>7
  <2> HIDE DEF k
  <2>4. PathOf(Left(s), m) = <<LeafHash(s[m + 1])>> \o InclusionProof(Left(s), m)
    BY <2>3 DEF PathOf
  <2>5. Root[Right(s)] \in Hash
    BY <1>6, <1>7
  <2> QED BY <2>1, <2>2, <2>3, <2>4, <2>5, OneThenAppend DEF PathOf
<1>8. ASSUME Len(s) >= 2, ~(m < k)
      PROVE  PathOf(s, m) = Append(PathOf(Right(s), m - k), Root[Left(s)])
  <2>1. InclusionProof(s, m) = Append(InclusionProof(Right(s), m - k), Root[Left(s)])
    BY <1>6, <1>8, InclusionProofIs, Zenon
  <2>2. InclusionProof(Right(s), m - k) \in Seq(Hash)
    BY <1>6, <1>8, InclusionProofType
  <2>3. LeafHash(Right(s)[(m - k) + 1]) = LeafHash(s[m + 1]) /\ LeafHash(s[m + 1]) \in Hash
    BY <1>1, <1>2, <1>6, <1>8
  <2> HIDE DEF k
  <2>4. PathOf(Right(s), m - k)
          = <<LeafHash(s[m + 1])>> \o InclusionProof(Right(s), m - k)
    BY <2>3 DEF PathOf
  <2>5. Root[Left(s)] \in Hash
    BY <1>6, <1>8
  <2> QED BY <2>1, <2>2, <2>3, <2>4, <2>5, OneThenAppend DEF PathOf
<1> QED BY <1>4, <1>5, <1>7, <1>8

\* Two nodes are one only if both children are.
LEMMA NodeOnce ==
    ASSUME NEW a, NEW b, NEW c, NEW d
    PROVE  NodeHash(a, b) = NodeHash(c, d) <=> a = c /\ b = d
BY DEF NodeHash

\* Walking from leaf m of a log of n one is at the root s has ...
Climbs(s, m, p) ==
    LET w == Walk(<<m, Len(s) - 1>>, p)
    IN  Arrives(w, p) /\ w[Len(p)].sr = Root[s]

\* ... only through that leaf's own proof.
LEMMA OnlyItsPath ==
    ASSUME NEW s \in Log, NEW m \in 0 .. Len(s) - 1, NEW p \in Seq(Hash), p # <<>>
    PROVE  Climbs(s, m, p) <=> p = PathOf(s, m)
<1> DEFINE T == {n \in Nat : \A r \in Log : Len(r) = n =>
                   \A i \in 0 .. n - 1 : \A q \in Seq(Hash) \ {<<>>} :
                     Climbs(r, i, q) <=> q = PathOf(r, i)}
<1>1. ASSUME NEW n \in Nat, \A j \in Nat : j < n => j \in T  PROVE n \in T
  <2> SUFFICES ASSUME NEW r \in Log, Len(r) = n, NEW i \in 0 .. n - 1,
                      NEW q \in Seq(Hash) \ {<<>>}
               PROVE  Climbs(r, i, q) <=> q = PathOf(r, i)
    OBVIOUS
  <2> DEFINE at == <<i, Len(r) - 1>>
  <2>1. i \in 0 .. Len(r) - 1
    OBVIOUS
  <2>2. CASE n = 1
    <3>1. at[2] = 0
      <4>1. Len(r) - 1 = 0
        BY <2>2
      <4> QED BY <4>1
    <3>2. Root[r] = LeafHash(r[1])
      <4>1. r # <<>> /\ Len(r) = 1
        <5>1. Len(r) = 1
          BY <2>2, Zenon
        <5>2. Len(<<>>) # 1
          OBVIOUS
        <5> QED BY <5>1, <5>2, Zenon
      <4> QED BY <4>1, RootIs
    <3>3. Climbs(r, i, q) <=> Len(q) = 1 /\ q[1] = Root[r]
      <4> HIDE DEF at
      <4>1. /\ Arrives(Walk(at, q), q) <=> Len(q) = 1
            /\ Len(q) = 1 => Walk(at, q)[Len(q)].sr = q[1]
        BY <3>1, WalkAtRoot
      <4> QED BY <4>1 DEF Climbs, at
    <3>4. Len(q) = 1 /\ q[1] = Root[r] <=> q = <<Root[r]>>
      OBVIOUS
    <3>5. PathOf(r, i) = <<Root[r]>>
      BY <2>1, <2>2, <3>2, PathOfIs
    <3> QED BY <3>3, <3>4, <3>5, Zenon
  <2>3. CASE n >= 2
    <3> DEFINE k == Split[Len(r)]
               side == IF i < k THEN "left" ELSE "right"
               part == IF i < k THEN Left(r) ELSE Right(r)
               rest == IF i < k THEN Root[Right(r)] ELSE Root[Left(r)]
               place == IF i < k THEN i ELSE i - k
               bt == <<place, Len(part) - 1>>
    <3>1. /\ k \in Powers /\ k \in Nat /\ k > 0 /\ k < n /\ n <= 2 * k
          /\ Left(r) \in Log /\ Len(Left(r)) = k
          /\ Right(r) \in Log /\ Len(Right(r)) = n - k
      <4>1. k \in Powers /\ Len(r) <= 2 * k
        BY <2>3, Parts
      <4> QED BY <2>3, <4>1, Halves
    <3>2. /\ part \in Log /\ Len(part) \in Nat /\ Len(part) < n
          /\ place \in 0 .. Len(part) - 1 /\ rest \in Hash
      <4>1. Root[Left(r)] \in Hash /\ Root[Right(r)] \in Hash
        BY <3>1 DEF Hash
      <4> HIDE DEF k
      <4> QED BY <3>1, <4>1
    <3>3. PathOf(r, i) = Append(PathOf(part, place), rest)
      BY <2>1, <2>3, PathOfIs
    <3>4. \A h : Under(side, Begin(bt, h), Begin(at, h))
      <4>1. CASE i < k
        <5>1. i \in Nat /\ n - 1 \in Nat /\ k <= n - 1 /\ n - 1 < 2 * k
          BY <3>1
        <5> QED BY <3>1, <4>1, <5>1 DEF Under, UnderLeft, Begin
      <4>2. CASE ~(i < k)
        <5>1. /\ i - k \in Nat /\ (n - k) - 1 \in Nat /\ i - k <= (n - k) - 1
              /\ (n - k) - 1 < k /\ i = (i - k) + k /\ n - 1 = ((n - k) - 1) + k
          <6> HIDE DEF k
          <6> QED BY <3>1, <4>2
        <5> QED BY <3>1, <4>2, <5>1 DEF Under, UnderRight, Begin
      <4> QED BY <4>1, <4>2
    <3>5. Root[r] = NewAbove(side, Root[part], rest)
      <4>1. r # <<>> /\ Len(r) # 1
        BY <2>3
      <4>2. Root[r] = NodeHash(Root[Left(r)], Root[Right(r)])
        BY <4>1, RootIs
      <4> QED BY <4>2 DEF NewAbove
    <3>6. PathOf(part, place) \in Seq(Hash) /\ PathOf(part, place) # <<>>
      <4> HIDE DEF part, place
      <4> QED BY <3>2, PathOfIs
    <3>7. at[2] # 0
      BY <2>3
    <3> HIDE DEF k, side, part, rest, place, at, bt
    <3>8. CASE Len(q) >= 2
      <4>1. PICK b \in Seq(Hash), c \in Hash : q = Append(b, c) /\ b # <<>> /\ b[1] = q[1]
        BY <3>8, AllButLast
      <4>2. Under(side, Begin(bt, b[1]), Begin(at, b[1]))
        BY <3>4
      <4>3. /\ Arrives(Walk(at, q), q) <=> Arrives(Walk(bt, b), b)
            /\ Arrives(Walk(bt, b), b) =>
                 Walk(at, q)[Len(q)].sr = NewAbove(side, Walk(bt, b)[Len(b)].sr, c)
        <5>1. Above(side, Walk(bt, b), b, Walk(at, q), q, c)
          BY <4>1, <4>2, PartWalk
        <5> QED BY <5>1 DEF Above
      <4>4. \A h : NewAbove(side, h, c) = NewAbove(side, Root[part], rest)
                     <=> h = Root[part] /\ c = rest
        BY NodeOnce DEF NewAbove
      <4>5. Climbs(r, i, q) <=> Climbs(part, place, b) /\ c = rest
        BY <3>5, <4>3, <4>4 DEF Climbs, at, bt
      <4>6. Climbs(part, place, b) <=> b = PathOf(part, place)
        <5>1. Len(part) \in T
          BY <1>1, <3>2
        <5>2. b \in Seq(Hash) \ {<<>>}
          BY <4>1
        <5> QED BY <3>2, <5>1, <5>2
      <4>7. q = PathOf(r, i) <=> b = PathOf(part, place) /\ c = rest
        <5>1. Append(b, c) = Append(PathOf(part, place), rest)
                <=> b = PathOf(part, place) /\ c = rest
          BY <3>6, <4>1, AppendOnce
        <5> QED BY <3>3, <4>1, <5>1
      <4> QED BY <4>5, <4>6, <4>7
    <3>9. CASE ~(Len(q) >= 2)
      <4>1. ~Climbs(r, i, q)
        BY <3>7, <3>9, WalkBelowRoot DEF Climbs, at
      <4>2. Len(PathOf(r, i)) >= 2
        BY <3>2, <3>3, <3>6
      <4> QED BY <3>9, <4>1, <4>2
    <3> QED BY <3>8, <3>9
  <2> QED BY <2>2, <2>3
<1>2. \A n \in Nat : n \in T
  <2> HIDE DEF T
  <2> QED BY <1>1, OfSizes!Induction
<1>3. Len(s) \in Nat
  BY DEF Log
<1> QED BY <1>2, <1>3

-----------------------------------------------------------------------------
(* Earlier sizes of a log.                                                 *)

Earlier(s, m) == SubSeq(s, 1, m)

\* A log that has two parts is neither empty nor a single leaf.
LEMMA Longer ==
    ASSUME NEW s \in Log, Len(s) >= 2
    PROVE  s # <<>> /\ Len(s) # 1
<1>1. Len(<<>>) = 0 /\ ~(0 >= 2) /\ ~(1 >= 2)
  OBVIOUS
<1> QED BY <1>1, Zenon

\* Its root is the node above the roots of the parts.
LEMMA RootOfTwo ==
    ASSUME NEW s \in Log, Len(s) >= 2
    PROVE  Root[s] = NodeHash(Root[Left(s)], Root[Right(s)])
BY Longer, RootIs

\* Logs are one that say the same at each place.
LEMMA SameLog ==
    ASSUME NEW a \in Log, NEW b \in Log, Len(a) = Len(b),
           \A i \in 1 .. Len(a) : a[i] = b[i]
    PROVE  a = b
BY DEF Log

\* What a log was is a log.
LEMMA BeginningIs ==
    ASSUME NEW s \in Log, NEW m \in 0 .. Len(s)
    PROVE  /\ SubSeq(s, 1, m) \in Log /\ Len(SubSeq(s, 1, m)) = m
           /\ \A i \in 1 .. m : SubSeq(s, 1, m)[i] = s[i]
BY DEF Log

\* Where an earlier log ends: in the left part, or further in.
LEMMA EarlierParts ==
    ASSUME NEW s \in Log, NEW m \in 1 .. Len(s), m # Len(s), NEW k, k = Split[Len(s)]
    PROVE  /\ Len(s) \in Nat /\ Len(s) >= 2
           /\ k \in Powers /\ k \in Nat /\ k > 0 /\ k < Len(s) /\ Len(s) <= 2 * k
           /\ Left(s) \in Log /\ Len(Left(s)) = k
           /\ Right(s) \in Log /\ Len(Right(s)) = Len(s) - k
           /\ Root[Left(s)] \in Hash /\ Root[Right(s)] \in Hash
           /\ Root[s] = NodeHash(Root[Left(s)], Root[Right(s)])
           /\ m <= k => m \in 1 .. Len(Left(s))
           /\ ~(m <= k) => m - k \in 1 .. Len(Right(s)) /\ m - k # Len(Right(s))
<1>1. Len(s) \in Nat
  BY DEF Log
<1>2. Len(s) >= 2
  BY <1>1
<1>3. /\ k \in Powers /\ k \in Nat /\ k > 0 /\ k < Len(s) /\ Len(s) <= 2 * k
      /\ Left(s) \in Log /\ Len(Left(s)) = k
      /\ Right(s) \in Log /\ Len(Right(s)) = Len(s) - k
  BY <1>2, Parts DEF Powers
<1>4. Root[Left(s)] \in Hash /\ Root[Right(s)] \in Hash
  BY <1>3 DEF Hash
<1>5. Root[s] = NodeHash(Root[Left(s)], Root[Right(s)])
  BY <1>2, RootOfTwo
<1>6. m <= k => m \in 1 .. k
  BY <1>3
<1>7. ~(m <= k) => m - k \in 1 .. Len(s) - k /\ m - k # Len(s) - k
  BY <1>1, <1>3
<1> QED BY <1>1, <1>2, <1>3, <1>4, <1>5, <1>6, <1>7, Zenon

\* An earlier log, and its root.
LEMMA EarlierIs ==
    ASSUME NEW s \in Log, NEW m \in 1 .. Len(s), NEW k, k = Split[Len(s)]
    PROVE  /\ Earlier(s, m) \in Log /\ Len(Earlier(s, m)) = m
           /\ \A i \in 1 .. m : Earlier(s, m)[i] = s[i]
           /\ m = Len(s) => Earlier(s, m) = s
           /\ m # Len(s) /\ m <= k => Earlier(s, m) = Earlier(Left(s), m)
           /\ m # Len(s) /\ ~(m <= k) =>
                Root[Earlier(s, m)] = NodeHash(Root[Left(s)], Root[Earlier(Right(s), m - k)])
<1>1. /\ Len(s) \in Nat
      /\ Earlier(s, m) \in Log /\ Len(Earlier(s, m)) = m
      /\ \A i \in 1 .. m : Earlier(s, m)[i] = s[i]
  BY DEF Log, Earlier
<1>2. m = Len(s) => Earlier(s, m) = s
  BY <1>1 DEF Log
<1>3. ASSUME m # Len(s), m <= k  PROVE Earlier(s, m) = Earlier(Left(s), m)
  <2>1. Left(s) \in Log /\ Len(Left(s)) = k /\ m \in 1 .. k /\ m \in 1 .. Len(Left(s))
    BY <1>3, EarlierParts
  <2>2. \A i \in 1 .. k : Left(s)[i] = s[i]
    BY <1>3, EarlierParts, Parts
  <2>3. /\ Earlier(Left(s), m) \in Log /\ Len(Earlier(Left(s), m)) = m
        /\ \A i \in 1 .. m : Earlier(Left(s), m)[i] = Left(s)[i]
    BY <2>1 DEF Log, Earlier
  <2>4. \A i \in 1 .. m : Earlier(Left(s), m)[i] = Earlier(s, m)[i]
    BY <1>1, <2>1, <2>2, <2>3
  <2> QED BY <1>1, <2>3, <2>4 DEF Log
<1>4. ASSUME m # Len(s), ~(m <= k)
      PROVE  Root[Earlier(s, m)] = NodeHash(Root[Left(s)], Root[Earlier(Right(s), m - k)])
  <2> DEFINE e == Earlier(s, m)
             f == Earlier(Right(s), m - k)
  <2>1. /\ Len(s) \in Nat /\ Len(s) >= 2
        /\ k \in Powers /\ k \in Nat /\ k > 0 /\ k < Len(s) /\ Len(s) <= 2 * k
        /\ Left(s) \in Log /\ Len(Left(s)) = k
        /\ Right(s) \in Log /\ Len(Right(s)) = Len(s) - k
        /\ m - k \in 1 .. Len(Right(s))
    BY <1>4, EarlierParts
  <2>2. /\ \A i \in 1 .. k : Left(s)[i] = s[i]
        /\ \A i \in 1 .. Len(s) - k : Right(s)[i] = s[k + i]
    BY <2>1, Parts
  <2>3. /\ m \in Nat /\ m >= 2 /\ k < m /\ m <= 2 * k /\ m <= Len(s)
        /\ k \in Nat /\ Len(s) \in Nat
    BY <1>4, <2>1
  <2>4. Split[m] = k
    BY <2>1, <2>3, SplitIsOnly
  <2>5. f \in Log /\ Len(f) = m - k /\ \A i \in 1 .. m - k : f[i] = Right(s)[i]
    <3>1. m - k \in 0 .. Len(Right(s))
      BY <2>1
    <3> QED BY <2>1, <3>1, BeginningIs, Zenon DEF Earlier
  <2> HIDE DEF e, f
  <2>6. e \in Log /\ Len(e) = m /\ \A i \in 1 .. m : e[i] = s[i]
    BY <1>1 DEF e
  <2>7. /\ Left(e) \in Log /\ Len(Left(e)) = k
        /\ Right(e) \in Log /\ Len(Right(e)) = m - k
        /\ \A i \in 1 .. k : Left(e)[i] = e[i]
        /\ \A i \in 1 .. m - k : Right(e)[i] = e[k + i]
    <3>1. e \in Log /\ Len(e) >= 2 /\ k = Split[Len(e)]
      BY <2>3, <2>4, <2>6
    <3>2. /\ Left(e) \in Log /\ Len(Left(e)) = k
          /\ Right(e) \in Log /\ Len(Right(e)) = Len(e) - k
          /\ \A i \in 1 .. k : Left(e)[i] = e[i]
          /\ \A i \in 1 .. Len(e) - k : Right(e)[i] = e[k + i]
      BY <3>1, Parts
    <3> QED BY <2>6, <3>2
  <2>8. Left(e) = Left(s)
    <3>1. \A i \in 1 .. k : i \in 1 .. m
      BY <2>1, <2>3
    <3>2. \A i \in 1 .. k : Left(e)[i] = Left(s)[i]
      BY <2>2, <2>6, <2>7, <3>1
    <3> QED BY <2>1, <2>7, <3>2, SameLog
  <2>9. Right(e) = f
    <3>1. \A i \in 1 .. m - k : k + i \in 1 .. m /\ i \in 1 .. Len(s) - k
      BY <2>3
    <3>2. ASSUME NEW i \in 1 .. m - k  PROVE Right(e)[i] = f[i]
      <4>1. k + i \in 1 .. m /\ i \in 1 .. Len(s) - k
        BY <3>1
      <4>2. Right(e)[i] = s[k + i] /\ f[i] = Right(s)[i] /\ Right(s)[i] = s[k + i]
        BY <2>2, <2>5, <2>6, <2>7, <4>1, Zenon
      <4> QED BY <4>2
    <3> QED BY <2>5, <2>7, <3>2, SameLog
  <2>10. Root[e] = NodeHash(Root[Left(e)], Root[Right(e)])
    <3>1. Len(e) >= 2
      BY <2>3, <2>6
    <3> QED BY <2>6, <3>1, RootOfTwo
  <2> QED BY <2>8, <2>9, <2>10 DEF e, f
<1> QED BY <1>1, <1>2, <1>3, <1>4

\* Proofs are made of roots, and the one that tells all begins with the earlier
\* log's own root wherever the other one need not tell it.
LEMMA SubproofType ==
    ASSUME NEW s \in Log, NEW m \in 1 .. Len(s)
    PROVE  /\ \A whole \in BOOLEAN : Subproof(s, m, whole) \in Seq(Hash)
           /\ Subproof(s, m, FALSE) # <<>>
           /\ m # Len(s) => Subproof(s, m, TRUE) # <<>>
           /\ m # Len(s) \/ m \in Powers =>
                Subproof(s, m, FALSE) =
                  IF m \in Powers THEN <<Root[Earlier(s, m)]>> \o Subproof(s, m, TRUE)
                  ELSE Subproof(s, m, TRUE)
<1> DEFINE Good(r, i) ==
             /\ Subproof(r, i, TRUE) \in Seq(Hash) /\ Subproof(r, i, FALSE) \in Seq(Hash)
             /\ Subproof(r, i, FALSE) # <<>>
             /\ i # Len(r) => Subproof(r, i, TRUE) # <<>>
             /\ i # Len(r) \/ i \in Powers =>
                  Subproof(r, i, FALSE) =
                    IF i \in Powers THEN <<Root[Earlier(r, i)]>> \o Subproof(r, i, TRUE)
                    ELSE Subproof(r, i, TRUE)
           T == {n \in Nat : \A r \in Log : Len(r) = n => \A i \in 1 .. Len(r) : Good(r, i)}
<1>1. ASSUME NEW n \in Nat, \A j \in Nat : j < n => j \in T  PROVE n \in T
  <2> SUFFICES ASSUME NEW r \in Log, Len(r) = n, NEW i \in 1 .. Len(r)
               PROVE  Good(r, i)
    BY Zenon
  <2> DEFINE k == Split[Len(r)]
  <2>1. CASE i = Len(r)
    <3>1. Subproof(r, i, TRUE) = <<>> /\ Subproof(r, i, FALSE) = <<Root[r]>>
      BY <2>1, SubproofIs
    <3>2. Root[r] \in Hash /\ Earlier(r, i) = r
      BY <2>1, EarlierIs DEF Hash
    <3>3. /\ <<Root[r]>> \o <<>> = <<Root[r]>> /\ <<Root[r]>> # <<>>
          /\ <<>> \in Seq(Hash) /\ <<Root[r]>> \in Seq(Hash)
      BY <3>2
    <3> QED BY <2>1, <3>1, <3>2, <3>3, Zenon
  <2>2. CASE i # Len(r) /\ i <= k
    <3>1. /\ Left(r) \in Log /\ Len(Left(r)) < Len(r) /\ Len(Left(r)) \in Nat
          /\ i \in 1 .. Len(Left(r)) /\ Len(Left(r)) = k
          /\ Root[Right(r)] \in Hash /\ k \in Powers
      BY <2>2, EarlierParts
    <3>2. \A b \in BOOLEAN : Subproof(r, i, b) = Append(Subproof(Left(r), i, b), Root[Right(r)])
      BY <2>2, SubproofIs, Zenon
    <3>3. Good(Left(r), i)
      <4>1. Len(Left(r)) \in T
        BY <1>1, <3>1
      <4> HIDE DEF Good
      <4> QED BY <3>1, <4>1
    <3>4. Earlier(r, i) = Earlier(Left(r), i)
      BY <2>2, EarlierIs
    <3>5. Root[Earlier(r, i)] \in Hash
      BY EarlierIs DEF Hash
    <3> DEFINE a == Subproof(Left(r), i, TRUE)
               b == Subproof(Left(r), i, FALSE)
               c == Root[Right(r)]
               h == Root[Earlier(r, i)]
    <3>6. Subproof(r, i, TRUE) = Append(a, c) /\ Subproof(r, i, FALSE) = Append(b, c)
      BY <3>2
    <3>7. a \in Seq(Hash) /\ b \in Seq(Hash) /\ c \in Hash /\ h \in Hash
      BY <3>1, <3>3, <3>5
    <3>8. b = IF i \in Powers THEN <<h>> \o a ELSE a
      BY <3>1, <3>3, <3>4
    <3> HIDE DEF a, b, c, h
    <3>9. <<h>> \o Append(a, c) = Append(<<h>> \o a, c)
      BY <3>7, OneThenAppend
    <3>10. Append(a, c) \in Seq(Hash) /\ Append(b, c) \in Seq(Hash)
           /\ Append(a, c) # <<>> /\ Append(b, c) # <<>>
      BY <3>7
    <3>11. Append(b, c) = IF i \in Powers THEN <<h>> \o Append(a, c) ELSE Append(a, c)
      BY <3>8, <3>9
    <3> QED BY <3>6, <3>10, <3>11 DEF h
  <2>3. CASE i # Len(r) /\ ~(i <= k)
    <3>1. /\ Right(r) \in Log /\ Len(Right(r)) < Len(r) /\ Len(Right(r)) \in Nat
          /\ i - k \in 1 .. Len(Right(r))
          /\ Root[Left(r)] \in Hash /\ k \in Powers /\ i < 2 * k /\ k < i
      BY <2>3, EarlierParts
    <3>2. \A b \in BOOLEAN :
            Subproof(r, i, b) = Append(Subproof(Right(r), i - k, FALSE), Root[Left(r)])
      BY <2>3, SubproofIs, Zenon
    <3>3. Subproof(Right(r), i - k, FALSE) \in Seq(Hash)
      <4>1. Len(Right(r)) \in T
        BY <1>1, <3>1
      <4>2. Good(Right(r), i - k)
        <5> HIDE DEF Good
        <5> QED BY <3>1, <4>1
      <4> QED BY <4>2
    <3>4. i \notin Powers
      BY <3>1, PowersApart DEF Powers
    <3> DEFINE b == Subproof(Right(r), i - k, FALSE)
               c == Root[Left(r)]
    <3>5. Subproof(r, i, TRUE) = Append(b, c) /\ Subproof(r, i, FALSE) = Append(b, c)
      BY <3>2
    <3>6. b \in Seq(Hash) /\ c \in Hash
      BY <3>1, <3>3
    <3> HIDE DEF b, c
    <3>7. Append(b, c) \in Seq(Hash) /\ Append(b, c) # <<>>
      BY <3>6
    <3> QED BY <3>4, <3>5, <3>7
  <2> QED BY <2>1, <2>2, <2>3
<1>2. \A n \in Nat : n \in T
  <2> HIDE DEF T
  <2> QED BY <1>1, OfSizes!Induction
<1>3. Good(s, m)
  <2>1. Len(s) \in Nat
    BY DEF Log
  <2> HIDE DEF Good
  <2> QED BY <1>2, <2>1
<1>4. \A whole \in BOOLEAN : whole = TRUE \/ whole = FALSE
  OBVIOUS
<1> QED BY <1>3, <1>4

\* Where a power of two ends the earlier log, the walk begins at the root.
LEMMA OddPower ==
    ASSUME NEW q \in Powers
    PROVE  SkipOdd[<<q - 1, q - 1>>] = <<0, 0>>
<1> DEFINE T == {n \in Nat : n \in Powers => SkipOdd[<<n - 1, n - 1>>] = <<0, 0>>}
<1>1. ASSUME NEW n \in Nat, \A m \in Nat : m < n => m \in T  PROVE n \in T
  <2> SUFFICES ASSUME n \in Powers  PROVE SkipOdd[<<n - 1, n - 1>>] = <<0, 0>>
    OBVIOUS
  <2>1. CASE n = 1
    <3>1. n - 1 = 0 /\ 0 \in Nat /\ ~(0 % 2 = 1)
      BY <2>1
    <3> QED BY <3>1, SkipOddIs
  <2>2. CASE n # 1
    <3>1. n \div 2 \in Powers /\ n = 2 * (n \div 2) /\ n > 0
      BY <2>2, PowerHalves DEF Powers
    <3>2. /\ n \div 2 \in Nat /\ n \div 2 < n /\ n - 1 \in Nat
          /\ (n - 1) % 2 = 1 /\ (n - 1) \div 2 = n \div 2 - 1
      BY <3>1
    <3>3. SkipOdd[<<n - 1, n - 1>>] = SkipOdd[<<n \div 2 - 1, n \div 2 - 1>>]
      BY <3>2, SkipOddIs
    <3> QED BY <1>1, <3>1, <3>2, <3>3
  <2> QED BY <2>1, <2>2
<1>2. \A n \in Nat : n \in T
  <2> HIDE DEF T
  <2> QED BY <1>1, OfSizes!Induction
<1> QED BY <1>2 DEF Powers

\* Walking from the last leaf of an earlier log of m one is at the root s has,
\* and at old ...
Leads(s, m, old, p) ==
    LET w == Walk(SkipOdd[<<m - 1, Len(s) - 1>>], p)
    IN  Arrives(w, p) /\ BothRoots(w[Len(p)], old, Root[s])

\* ... only through the proof that tells all, and if the earlier log had old.
LEMMA OnlyItsSubproof ==
    ASSUME NEW s \in Log, NEW m \in 1 .. Len(s), m # Len(s) \/ m \in Powers,
           NEW p \in Seq(Hash), p # <<>>, NEW old
    PROVE  Leads(s, m, old, p)
             <=> p = Subproof(s, m, FALSE) /\ old = Root[Earlier(s, m)]
<1> DEFINE Only(r, i) == \A q \in Seq(Hash) \ {<<>>} : \A h :
             Leads(r, i, h, q) <=> q = Subproof(r, i, FALSE) /\ h = Root[Earlier(r, i)]
           T == {n \in Nat : \A r \in Log : Len(r) = n =>
                   \A i \in 1 .. Len(r) : i # Len(r) \/ i \in Powers => Only(r, i)}
<1>1. ASSUME NEW n \in Nat, \A j \in Nat : j < n => j \in T  PROVE n \in T
  <2> SUFFICES ASSUME NEW r \in Log, Len(r) = n, NEW i \in 1 .. Len(r),
                      i # Len(r) \/ i \in Powers,
                      NEW q \in Seq(Hash) \ {<<>>}, NEW h
               PROVE  Leads(r, i, h, q)
                        <=> q = Subproof(r, i, FALSE) /\ h = Root[Earlier(r, i)]
    BY Zenon
  <2>1. CASE i = Len(r)
    <3> DEFINE at == SkipOdd[<<i - 1, Len(r) - 1>>]
    <3>1. at[2] = 0
      <4>1. at = <<0, 0>>
        BY <2>1, OddPower
      <4> QED BY <4>1
    <3> HIDE DEF at
    <3>2. /\ Arrives(Walk(at, q), q) <=> Len(q) = 1
          /\ Len(q) = 1 => /\ Walk(at, q)[Len(q)].fr = q[1]
                           /\ Walk(at, q)[Len(q)].sr = q[1]
      BY <3>1, WalkAtRoot
    <3>3. Leads(r, i, h, q) <=> Len(q) = 1 /\ q[1] = h /\ q[1] = Root[r]
      BY <3>2 DEF Leads, BothRoots, at
    <3>4. Len(q) = 1 /\ q[1] = Root[r] <=> q = <<Root[r]>>
      OBVIOUS
    <3>5. Subproof(r, i, FALSE) = <<Root[r]>>
      BY <2>1, SubproofIs
    <3>6. Earlier(r, i) = r
      BY <2>1, EarlierIs
    <3>7. q = <<Root[r]>> => q[1] = Root[r]
      OBVIOUS
    <3> QED BY <3>3, <3>4, <3>5, <3>6, <3>7, Zenon
  <2>2. CASE i # Len(r)
    <3> DEFINE k == Split[Len(r)]
               side == IF i <= k THEN "left" ELSE "right"
               part == IF i <= k THEN Left(r) ELSE Right(r)
               rest == IF i <= k THEN Root[Right(r)] ELSE Root[Left(r)]
               size == IF i <= k THEN i ELSE i - k
               at == SkipOdd[<<i - 1, Len(r) - 1>>]
               bt == SkipOdd[<<size - 1, Len(part) - 1>>]
               was == Root[Earlier(part, size)]
               sub == Subproof(part, size, FALSE)
    <3>1. /\ Len(r) \in Nat /\ Len(r) >= 2
          /\ k \in Powers /\ k \in Nat /\ k > 0 /\ k < Len(r) /\ Len(r) <= 2 * k
          /\ Left(r) \in Log /\ Len(Left(r)) = k
          /\ Right(r) \in Log /\ Len(Right(r)) = Len(r) - k
          /\ Root[Left(r)] \in Hash /\ Root[Right(r)] \in Hash
          /\ Root[r] = NodeHash(Root[Left(r)], Root[Right(r)])
          /\ i <= k => i \in 1 .. Len(Left(r))
          /\ ~(i <= k) => i - k \in 1 .. Len(Right(r)) /\ i - k # Len(Right(r))
      BY <2>2, EarlierParts
    <3>2. /\ part \in Log /\ Len(part) \in Nat /\ Len(part) < Len(r)
          /\ size \in 1 .. Len(part) /\ rest \in Hash
          /\ size # Len(part) \/ size \in Powers
      <4> HIDE DEF k
      <4> QED BY <3>1
    <3>3. Subproof(r, i, FALSE) = Append(sub, rest)
      BY <2>2, SubproofIs
    <3>4. at[2] # 0 /\ \A g : Under(side, Begin(bt, g), Begin(at, g))
      <4> HIDE DEF k
      <4>1. CASE i <= k
        <5>1. /\ i - 1 \in Nat /\ Len(r) - 1 \in Nat /\ i - 1 < k
              /\ k <= Len(r) - 1 /\ Len(r) - 1 < 2 * k
          BY <3>1, <4>1
        <5>2. PICK e \in Nat, v \in Nat, t \in Powers :
                /\ e < t /\ t <= v /\ v < 2 * t
                /\ SkipOdd[<<i - 1, k - 1>>] = <<e, t - 1>>
                /\ SkipOdd[<<i - 1, Len(r) - 1>>] = <<e, v>>
          <6> DEFINE f == i - 1
                     l == Len(r) - 1
          <6>1. k \in Powers /\ f \in Nat /\ l \in Nat /\ f < k /\ k <= l /\ l < 2 * k
            BY <3>1, <5>1
          <6> HIDE DEF f, l
          <6>2. StartsLeft(f, l, k)
            BY <6>1, OddLeft
          <6> QED BY <6>2, Zenon DEF f, l, StartsLeft
        <5>3. at = <<e, v>> /\ bt = <<e, t - 1>>
          BY <3>1, <4>1, <5>2
        <5>4. v # 0
          BY <5>2 DEF Powers
        <5> HIDE DEF at, bt
        <5> QED BY <4>1, <5>2, <5>3, <5>4 DEF Under, UnderLeft, Begin
      <4>2. CASE ~(i <= k)
        <5>1. /\ (i - k) - 1 \in Nat /\ (Len(r) - k) - 1 \in Nat
              /\ (i - k) - 1 < (Len(r) - k) - 1 /\ (Len(r) - k) - 1 < k
              /\ ((i - k) - 1) + k = i - 1 /\ ((Len(r) - k) - 1) + k = Len(r) - 1
          BY <2>2, <3>1, <4>2
        <5>2. PICK e \in Nat, v \in Nat, t \in Powers :
                /\ e <= v /\ v < t
                /\ SkipOdd[<<(i - k) - 1, (Len(r) - k) - 1>>] = <<e, v>>
                /\ SkipOdd[<<((i - k) - 1) + k, ((Len(r) - k) - 1) + k>>] = <<e + t, v + t>>
          <6> DEFINE f == (i - k) - 1
                     l == (Len(r) - k) - 1
          <6>1. k \in Powers /\ f \in Nat /\ l \in Nat /\ f < l /\ l < k
            BY <3>1, <5>1
          <6> HIDE DEF f, l
          <6>2. StartsRight(f, l, k)
            BY <6>1, OddRight
          <6> QED BY <6>2, Zenon DEF f, l, StartsRight
        <5>3. at = <<e + t, v + t>> /\ bt = <<e, v>>
          BY <3>1, <4>2, <5>1, <5>2
        <5>4. v + t # 0 /\ t \in Nat
          BY <5>2 DEF Powers
        <5> HIDE DEF at, bt
        <5> QED BY <4>2, <5>2, <5>3, <5>4 DEF Under, UnderRight, Begin
      <4> QED BY <4>1, <4>2
    <3>5. Root[r] = NewAbove(side, Root[part], rest)
      BY <3>1 DEF NewAbove
    <3>6. sub \in Seq(Hash) /\ sub # <<>>
      <4> HIDE DEF part, size
      <4>1. /\ \A whole \in BOOLEAN : Subproof(part, size, whole) \in Seq(Hash)
            /\ Subproof(part, size, FALSE) # <<>>
        BY <3>2, SubproofType, Zenon
      <4> QED BY <4>1, Zenon
    <3>7. Root[Earlier(r, i)] = OldAbove(side, was, rest)
      <4>1. /\ i <= k => Earlier(r, i) = Earlier(Left(r), i)
            /\ ~(i <= k) =>
                 Root[Earlier(r, i)] = NodeHash(Root[Left(r)], Root[Earlier(Right(r), i - k)])
        BY <2>2, EarlierIs
      <4>2. CASE i <= k
        BY <4>1, <4>2, Zenon DEF OldAbove
      <4>3. CASE ~(i <= k)
        BY <4>1, <4>3 DEF OldAbove
      <4> QED BY <4>2, <4>3
    <3>8. rest \in Hash
      BY <3>2
    <3> HIDE DEF k, side, part, rest, size, at, bt, was, sub
    <3>9. CASE Len(q) >= 2
      <4>1. PICK b \in Seq(Hash), c \in Hash : q = Append(b, c) /\ b # <<>> /\ b[1] = q[1]
        BY <3>9, AllButLast
      <4> DEFINE u == Walk(bt, b)
                 w == Walk(at, q)
                 g == u[Len(b)].fr
      <4>2. Under(side, Begin(bt, b[1]), Begin(at, b[1]))
        BY <3>4
      <4>3. Above(side, u, b, w, q, c)
        BY <4>1, <4>2, PartWalk
      <4>4. \A f : NewAbove(side, f, c) = NewAbove(side, Root[part], rest)
                     <=> f = Root[part] /\ c = rest
        BY NodeOnce DEF NewAbove
      <4>5. Only(part, size)
        <5>1. Len(part) \in T
          BY <1>1, <3>2
        <5> HIDE DEF Only
        <5> QED BY <3>2, <5>1
      <4>6. Leads(r, i, h, q) <=> /\ Leads(part, size, g, b) /\ c = rest
                                  /\ h = OldAbove(side, g, c)
        <5>1. Leads(r, i, h, q) <=> Arrives(w, q) /\ w[Len(q)].fr = h /\ w[Len(q)].sr = Root[r]
          BY DEF Leads, BothRoots, at
        <5>2. Leads(part, size, g, b) <=> Arrives(u, b) /\ u[Len(b)].sr = Root[part]
          BY DEF Leads, BothRoots, bt
        <5> HIDE DEF u, w
        <5> QED BY <3>5, <4>3, <4>4, <5>1, <5>2 DEF Above
      <4>7. b \in Seq(Hash) \ {<<>>}
        BY <4>1
      <4>8. Leads(part, size, g, b) <=> b = sub /\ g = was
        BY <4>5, <4>7 DEF was, sub
      <4>9. b = sub => Leads(part, size, was, b)
        BY <4>5, <4>7 DEF was, sub
      <4>10. Leads(part, size, was, b) => g = was
        BY DEF Leads, BothRoots, bt
      <4>11. q = Subproof(r, i, FALSE) <=> b = sub /\ c = rest
        <5>1. Append(b, c) = Append(sub, rest) <=> b = sub /\ c = rest
          BY <3>6, <3>8, <4>1, AppendOnce
        <5> QED BY <3>3, <4>1, <5>1
      <4> HIDE DEF u, w, g
      <4> QED BY <3>7, <4>6, <4>8, <4>9, <4>10, <4>11
    <3>10. CASE ~(Len(q) >= 2)
      <4>1. ~Leads(r, i, h, q)
        BY <3>4, <3>10, WalkBelowRoot DEF Leads, at
      <4>2. Len(Append(sub, rest)) >= 2
        BY <3>6, <3>8
      <4> QED BY <3>3, <3>10, <4>1, <4>2, Zenon
    <3> QED BY <3>9, <3>10
  <2> QED BY <2>1, <2>2
<1>2. \A n \in Nat : n \in T
  <2> HIDE DEF T
  <2> QED BY <1>1, OfSizes!Induction
<1>3. Len(s) \in Nat
  BY DEF Log
<1>4. Only(s, m)
  <2> HIDE DEF Only
  <2> QED BY <1>2, <1>3
<1> QED BY <1>4, Zenon

-----------------------------------------------------------------------------
(* A root has one log, a proof one place.                                  *)

\* Both parts make the log.
LEMMA Rejoin ==
    ASSUME NEW a \in Log, NEW b \in Log, Len(a) >= 2, Len(b) >= 2,
           Left(a) = Left(b), Right(a) = Right(b)
    PROVE  a = b
<1> DEFINE k == Split[Len(a)]
           l == Split[Len(b)]
<1>1. /\ k \in Nat /\ k > 0 /\ k < Len(a)
      /\ Len(Left(a)) = k /\ Len(Right(a)) = Len(a) - k
      /\ \A i \in 1 .. k : Left(a)[i] = a[i]
      /\ \A i \in 1 .. Len(a) - k : Right(a)[i] = a[k + i]
  BY Parts DEF Powers
<1>2. /\ l \in Nat /\ l > 0 /\ l < Len(b)
      /\ Len(Left(b)) = l /\ Len(Right(b)) = Len(b) - l
      /\ \A i \in 1 .. l : Left(b)[i] = b[i]
      /\ \A i \in 1 .. Len(b) - l : Right(b)[i] = b[l + i]
  BY Parts DEF Powers
<1>3. Len(a) \in Nat /\ Len(b) \in Nat
  BY DEF Log
<1> HIDE DEF k, l
<1>4. k = l /\ Len(a) = Len(b)
  <2>1. k = l /\ Len(a) - k = Len(b) - l
    BY <1>1, <1>2
  <2> QED BY <1>1, <1>3, <2>1
<1>5. ASSUME NEW i \in 1 .. Len(a)  PROVE a[i] = b[i]
  <2>1. CASE i <= k
    <3>1. i \in 1 .. k
      BY <1>1, <2>1
    <3> QED BY <1>1, <1>2, <1>4, <3>1
  <2>2. CASE ~(i <= k)
    <3> DEFINE j == i - k
    <3>1. j \in 1 .. Len(a) - k /\ k + j = i
      BY <1>1, <1>3, <2>2
    <3> HIDE DEF j
    <3>2. Right(a)[j] = a[i] /\ Right(b)[j] = b[i]
      BY <1>1, <1>2, <1>4, <3>1
    <3> QED BY <3>2
  <2> QED BY <2>1, <2>2
<1> QED BY <1>4, <1>5, SameLog

\* Two logs with one root are one log.
LEMMA RootOnce ==
    ASSUME NEW a \in Log, NEW b \in Log, Root[a] = Root[b]
    PROVE  a = b
<1> DEFINE T == {n \in Nat : \A c \in Log : Len(c) = n =>
                   \A d \in Log : Root[c] = Root[d] => c = d}
<1>1. ASSUME NEW n \in Nat, \A j \in Nat : j < n => j \in T  PROVE n \in T
  <2> SUFFICES ASSUME NEW c \in Log, Len(c) = n, NEW d \in Log, Root[c] = Root[d]
               PROVE  c = d
    OBVIOUS
  <2>1. \A e \in Log : \/ e = <<>> /\ Root[e] = Empty
                       \/ e = <<e[1]>> /\ Root[e] = LeafHash(e[1])
                       \/ /\ Len(e) >= 2
                          /\ Root[e] = NodeHash(Root[Left(e)], Root[Right(e)])
    <3> SUFFICES ASSUME NEW e \in Log
                 PROVE  \/ e = <<>> /\ Root[e] = Empty
                        \/ e = <<e[1]>> /\ Root[e] = LeafHash(e[1])
                        \/ /\ Len(e) >= 2
                           /\ Root[e] = NodeHash(Root[Left(e)], Root[Right(e)])
      OBVIOUS
    <3>1. CASE Len(e) >= 2
      BY <3>1, RootOfTwo
    <3>2. CASE Len(e) = 1
      <4>1. e[1] \in Entry
        BY <3>2 DEF Log
      <4>2. <<e[1]>> \in Log /\ Len(<<e[1]>>) = Len(e)
        BY <3>2, <4>1 DEF Log
      <4>3. \A i \in 1 .. Len(e) : e[i] = <<e[1]>>[i]
        <5>1. \A i \in 1 .. 1 : i = 1
          OBVIOUS
        <5>2. \A i \in 1 .. Len(e) : i = 1
          BY <3>2, <5>1, Zenon
        <5> QED BY <5>2
      <4>4. e = <<e[1]>>
        BY <4>2, <4>3, SameLog
      <4>5. e # <<>>
        <5>1. Len(<<>>) # 1
          OBVIOUS
        <5> QED BY <3>2, <5>1, Zenon
      <4> QED BY <3>2, <4>4, <4>5, RootIs, Zenon
    <3>3. CASE Len(e) = 0
      <4>1. e = <<>>
        BY <3>3 DEF Log
      <4> QED BY <4>1, RootIs
    <3>4. Len(e) \in Nat
      BY DEF Log
    <3> QED BY <3>1, <3>2, <3>3, <3>4, Small, Zenon
  <2>2. /\ \A e : Empty # LeafHash(e)
        /\ \A l, r : Empty # NodeHash(l, r)
        /\ \A e, l, r : LeafHash(e) # NodeHash(l, r)
        /\ \A e, f : LeafHash(e) = LeafHash(f) => e = f
    BY DEF Empty, LeafHash, NodeHash
  <2>3. CASE Len(c) >= 2 /\ Root[c] = NodeHash(Root[Left(c)], Root[Right(c)])
    <3>1. Len(d) >= 2 /\ Root[d] = NodeHash(Root[Left(d)], Root[Right(d)])
      <4>1. \/ d = <<>> /\ Root[d] = Empty
            \/ d = <<d[1]>> /\ Root[d] = LeafHash(d[1])
            \/ /\ Len(d) >= 2
               /\ Root[d] = NodeHash(Root[Left(d)], Root[Right(d)])
        BY <2>1
      <4>2. Root[d] = NodeHash(Root[Left(c)], Root[Right(c)])
        BY <2>3
      <4> QED BY <2>2, <4>1, <4>2, Zenon
    <3>2. Root[Left(c)] = Root[Left(d)] /\ Root[Right(c)] = Root[Right(d)]
      <4>1. NodeHash(Root[Left(c)], Root[Right(c)]) = NodeHash(Root[Left(d)], Root[Right(d)])
        BY <2>3, <3>1
      <4> QED BY <4>1, NodeOnce
    <3>3. /\ Left(c) \in Log /\ Len(Left(c)) \in Nat /\ Len(Left(c)) < n
          /\ Right(c) \in Log /\ Len(Right(c)) \in Nat /\ Len(Right(c)) < n
      BY <2>3, Parts DEF Powers
    <3>4. Left(d) \in Log /\ Right(d) \in Log
      BY <3>1, Parts
    <3>5. Left(c) = Left(d) /\ Right(c) = Right(d)
      BY <1>1, <3>2, <3>3, <3>4
    <3> QED BY <2>3, <3>1, <3>5, Rejoin
  <2>4. CASE c = <<>> /\ Root[c] = Empty
    BY <2>1, <2>2, <2>4
  <2>5. CASE c = <<c[1]>> /\ Root[c] = LeafHash(c[1])
    <3>1. d = <<d[1]>> /\ Root[d] = LeafHash(d[1])
      <4>1. \/ d = <<>> /\ Root[d] = Empty
            \/ d = <<d[1]>> /\ Root[d] = LeafHash(d[1])
            \/ /\ Len(d) >= 2
               /\ Root[d] = NodeHash(Root[Left(d)], Root[Right(d)])
        BY <2>1
      <4>2. Root[d] = LeafHash(c[1])
        BY <2>5
      <4> QED BY <2>2, <4>1, <4>2, Zenon
    <3>2. c[1] = d[1]
      BY <2>2, <2>5, <3>1, Zenon
    <3> QED BY <2>5, <3>1, <3>2, Zenon
  <2> QED BY <2>1, <2>3, <2>4, <2>5
<1>2. \A n \in Nat : n \in T
  <2> HIDE DEF T
  <2> QED BY <1>1, OfSizes!Induction
<1>3. Len(a) \in Nat
  BY DEF Log
<1> QED BY <1>2, <1>3

\* No two leaves of the log are the same.
Distinct(s) == \A i, j \in 1 .. Len(s) : s[i] = s[j] => i = j

\* Nor are any in a part of it, nor the first leaves of the two parts.
LEMMA DistinctParts ==
    ASSUME NEW s \in Log, Len(s) >= 2, Distinct(s), NEW k, k = Split[Len(s)]
    PROVE  /\ Distinct(Left(s)) /\ Distinct(Right(s))
           /\ Left(s)[1] = s[1] /\ Right(s)[1] = s[k + 1]
           /\ Left(s) # Right(s) /\ Root[Left(s)] # Root[Right(s)]
<1>1. /\ k \in Nat /\ k > 0 /\ k < Len(s) /\ Len(s) \in Nat
      /\ Left(s) \in Log /\ Len(Left(s)) = k
      /\ Right(s) \in Log /\ Len(Right(s)) = Len(s) - k
      /\ \A i \in 1 .. k : Left(s)[i] = s[i]
      /\ \A i \in 1 .. Len(s) - k : Right(s)[i] = s[k + i]
  BY Parts DEF Powers, Log
<1>2. Distinct(Left(s))
  <2>1. \A i \in 1 .. k : i \in 1 .. Len(s)
    BY <1>1
  <2> QED BY <1>1, <2>1 DEF Distinct
<1>3. Distinct(Right(s))
  <2> SUFFICES ASSUME NEW i \in 1 .. Len(s) - k, NEW j \in 1 .. Len(s) - k,
                      Right(s)[i] = Right(s)[j]
               PROVE  i = j
    BY <1>1 DEF Distinct
  <2>1. k + i \in 1 .. Len(s) /\ k + j \in 1 .. Len(s)
    <3>1. k \in Nat /\ Len(s) \in Nat
      BY <1>1
    <3>2. \A n \in Nat : \A h \in 1 .. n - k : k + h \in 1 .. n
      BY <3>1
    <3> QED BY <3>1, <3>2, Zenon
  <2>2. s[k + i] = s[k + j]
    <3>1. Right(s)[i] = s[k + i] /\ Right(s)[j] = s[k + j]
      BY <1>1, Zenon
    <3> QED BY <3>1
  <2>3. k + i = k + j
    BY <2>1, <2>2 DEF Distinct
  <2> QED BY <1>1, <2>3
<1>4. Left(s)[1] = s[1] /\ Right(s)[1] = s[k + 1]
  <2>1. 1 \in 1 .. k /\ 1 \in 1 .. Len(s) - k
    BY <1>1
  <2> QED BY <1>1, <2>1
<1>5. s[1] # s[k + 1]
  <2>1. 1 \in 1 .. Len(s) /\ k + 1 \in 1 .. Len(s) /\ 1 # k + 1
    BY <1>1
  <2> QED BY <2>1 DEF Distinct
<1>6. Left(s) # Right(s)
  BY <1>4, <1>5
<1> QED BY <1>1, <1>2, <1>3, <1>4, <1>6, RootOnce

\* No two leaves have the same proof.
LEMMA PathOnce ==
    ASSUME NEW s \in Log, Distinct(s), NEW i \in 0 .. Len(s) - 1, NEW j \in 0 .. Len(s) - 1,
           InclusionProof(s, i) = InclusionProof(s, j)
    PROVE  i = j
<1> DEFINE T == {n \in Nat : \A r \in Log : Len(r) = n /\ Distinct(r) =>
                   \A g, h \in 0 .. Len(r) - 1 :
                     InclusionProof(r, g) = InclusionProof(r, h) => g = h}
<1>1. ASSUME NEW n \in Nat, \A m \in Nat : m < n => m \in T  PROVE n \in T
  <2> SUFFICES ASSUME NEW r \in Log, Len(r) = n, Distinct(r),
                      NEW g \in 0 .. Len(r) - 1, NEW h \in 0 .. Len(r) - 1,
                      InclusionProof(r, g) = InclusionProof(r, h)
               PROVE  g = h
    BY Zenon
  <2>1. CASE n = 1
    BY <2>1
  <2>2. CASE n >= 2
    <3> DEFINE k == Split[Len(r)]
               l == Root[Left(r)]
               t == Root[Right(r)]
    <3>1. /\ k \in Nat /\ k > 0 /\ k < n
          /\ Left(r) \in Log /\ Len(Left(r)) = k /\ Right(r) \in Log /\ Len(Right(r)) = n - k
      BY <2>2, Halves
    <3>2. Distinct(Left(r)) /\ Distinct(Right(r)) /\ l # t
      BY <2>2, DistinctParts
    <3>3. l \in Hash /\ t \in Hash
      BY <3>1 DEF Hash
    <3>4. Len(r) # 1
      BY <2>2
    <3>5. \A m \in 0 .. Len(r) - 1 :
            /\ m < k => /\ InclusionProof(r, m) = Append(InclusionProof(Left(r), m), t)
                        /\ InclusionProof(Left(r), m) \in Seq(Hash)
                        /\ m \in 0 .. Len(Left(r)) - 1
            /\ ~(m < k) => /\ InclusionProof(r, m) = Append(InclusionProof(Right(r), m - k), l)
                           /\ InclusionProof(Right(r), m - k) \in Seq(Hash)
                           /\ m - k \in 0 .. Len(Right(r)) - 1
      <4> SUFFICES ASSUME NEW m \in 0 .. Len(r) - 1
                   PROVE
            /\ m < k => /\ InclusionProof(r, m) = Append(InclusionProof(Left(r), m), t)
                        /\ InclusionProof(Left(r), m) \in Seq(Hash)
                        /\ m \in 0 .. Len(Left(r)) - 1
            /\ ~(m < k) => /\ InclusionProof(r, m) = Append(InclusionProof(Right(r), m - k), l)
                           /\ InclusionProof(Right(r), m - k) \in Seq(Hash)
                           /\ m - k \in 0 .. Len(Right(r)) - 1
        BY Zenon
      <4>1. /\ m < k => InclusionProof(r, m) = Append(InclusionProof(Left(r), m), t)
            /\ ~(m < k) => InclusionProof(r, m) = Append(InclusionProof(Right(r), m - k), l)
        BY <3>4, InclusionProofIs, Zenon
      <4> HIDE DEF k, l, t
      <4>2. m < k => m \in 0 .. Len(Left(r)) - 1
        BY <3>1
      <4>3. ~(m < k) => m - k \in 0 .. Len(Right(r)) - 1
        BY <3>1
      <4> QED BY <3>1, <4>1, <4>2, <4>3, InclusionProofType, Zenon
    <3> HIDE DEF k, l, t
    <3>6. CASE g < k /\ h < k
      <4>1. /\ InclusionProof(r, g) = Append(InclusionProof(Left(r), g), t) /\ InclusionProof(Left(r), g) \in Seq(Hash)
            /\ InclusionProof(r, h) = Append(InclusionProof(Left(r), h), t) /\ InclusionProof(Left(r), h) \in Seq(Hash)
        BY <3>5, <3>6
      <4>2. Append(InclusionProof(Left(r), g), t) = Append(InclusionProof(Left(r), h), t)
        BY <4>1
      <4>3. InclusionProof(Left(r), g) = InclusionProof(Left(r), h) /\ t = t
        BY <3>3, <4>1, <4>2, AppendOnce
      <4>4. Len(Left(r)) \in T
        BY <1>1, <3>1
      <4> QED BY <3>1, <3>2, <3>5, <3>6, <4>3, <4>4
    <3>7. CASE g < k /\ ~(h < k)
      <4>1. /\ InclusionProof(r, g) = Append(InclusionProof(Left(r), g), t) /\ InclusionProof(Left(r), g) \in Seq(Hash)
            /\ InclusionProof(r, h) = Append(InclusionProof(Right(r), h - k), l) /\ InclusionProof(Right(r), h - k) \in Seq(Hash)
        BY <3>5, <3>7
      <4>2. Append(InclusionProof(Left(r), g), t) = Append(InclusionProof(Right(r), h - k), l)
        BY <4>1
      <4>3. InclusionProof(Left(r), g) = InclusionProof(Right(r), h - k) /\ t = l
        BY <3>3, <4>1, <4>2, AppendOnce
      <4> QED BY <3>2, <4>3
    <3>8. CASE ~(g < k) /\ h < k
      <4>1. /\ InclusionProof(r, g) = Append(InclusionProof(Right(r), g - k), l) /\ InclusionProof(Right(r), g - k) \in Seq(Hash)
            /\ InclusionProof(r, h) = Append(InclusionProof(Left(r), h), t) /\ InclusionProof(Left(r), h) \in Seq(Hash)
        BY <3>5, <3>8
      <4>2. Append(InclusionProof(Right(r), g - k), l) = Append(InclusionProof(Left(r), h), t)
        BY <4>1
      <4>3. InclusionProof(Right(r), g - k) = InclusionProof(Left(r), h) /\ l = t
        BY <3>3, <4>1, <4>2, AppendOnce
      <4> QED BY <3>2, <4>3
    <3>9. CASE ~(g < k) /\ ~(h < k)
      <4>1. /\ InclusionProof(r, g) = Append(InclusionProof(Right(r), g - k), l) /\ InclusionProof(Right(r), g - k) \in Seq(Hash)
            /\ InclusionProof(r, h) = Append(InclusionProof(Right(r), h - k), l) /\ InclusionProof(Right(r), h - k) \in Seq(Hash)
        BY <3>5, <3>9
      <4>2. Append(InclusionProof(Right(r), g - k), l) = Append(InclusionProof(Right(r), h - k), l)
        BY <4>1
      <4>3. InclusionProof(Right(r), g - k) = InclusionProof(Right(r), h - k) /\ l = l
        BY <3>3, <4>1, <4>2, AppendOnce
      <4>4. Len(Right(r)) \in T
        BY <1>1, <3>1
      <4>5. g - k = h - k
        BY <3>1, <3>2, <3>5, <3>9, <4>3, <4>4
      <4> QED BY <3>1, <4>5
    <3> QED BY <3>6, <3>7, <3>8, <3>9
  <2>3. n # 0
    OBVIOUS
  <2> QED BY <2>1, <2>2, <2>3, Small
<1>2. \A n \in Nat : n \in T
  <2> HIDE DEF T
  <2> QED BY <1>1, OfSizes!Induction
<1>3. Len(s) \in Nat
  BY DEF Log
<1> QED BY <1>2, <1>3

\* A proof of more than the root: the proof in a part, and something after it.
LEMMA SubproofEnds ==
    ASSUME NEW s \in Log, NEW m \in 1 .. Len(s), m # Len(s), NEW whole \in BOOLEAN
    PROVE  \A h : Subproof(s, m, whole) # <<h>> \/ whole
<1> SUFFICES ASSUME whole = FALSE, NEW h, Subproof(s, m, FALSE) = <<h>>  PROVE FALSE
  BY Zenon
<1> DEFINE k == Split[Len(s)]
<1>1. /\ Left(s) \in Log /\ Right(s) \in Log
      /\ Root[Left(s)] \in Hash /\ Root[Right(s)] \in Hash
      /\ m <= k => m \in 1 .. Len(Left(s))
      /\ ~(m <= k) => m - k \in 1 .. Len(Right(s))
  BY EarlierParts
<1>2. PICK b \in Seq(Hash), c \in Hash : Subproof(s, m, FALSE) = Append(b, c) /\ b # <<>>
  <2>1. CASE m <= k
    <3>1. Subproof(s, m, FALSE) = Append(Subproof(Left(s), m, FALSE), Root[Right(s)])
      BY <2>1, SubproofIs, Zenon
    <3>2. Subproof(Left(s), m, FALSE) \in Seq(Hash) /\ Subproof(Left(s), m, FALSE) # <<>>
      BY <1>1, <2>1, SubproofType
    <3> QED BY <1>1, <3>1, <3>2, Zenon
  <2>2. CASE ~(m <= k)
    <3>1. Subproof(s, m, FALSE) = Append(Subproof(Right(s), m - k, FALSE), Root[Left(s)])
      BY <2>2, SubproofIs, Zenon
    <3>2. Subproof(Right(s), m - k, FALSE) \in Seq(Hash) /\ Subproof(Right(s), m - k, FALSE) # <<>>
      BY <1>1, <2>2, SubproofType
    <3> QED BY <1>1, <3>1, <3>2, Zenon
  <2> QED BY <2>1, <2>2
<1>3. Append(b, c) # <<h>>
  <2>1. Len(Append(b, c)) # 1
    BY <1>2
  <2>2. Len(<<h>>) = 1
    OBVIOUS
  <2> QED BY <2>1, <2>2, Zenon
<1> QED BY <1>2, <1>3, Zenon

\* a is how b began.
Begins(a, b) == Len(a) <= Len(b) /\ \A i \in 1 .. Len(a) : a[i] = b[i]

\* Of two logs of distinct leaves of which one is how the other began, no part
\* is the opposite part of the other, and their right parts are the same only
\* if they are.
LEMMA PartsOnce ==
    ASSUME NEW a \in Log, NEW b \in Log, Begins(a, b), Len(a) >= 2, Len(b) >= 2, Distinct(b)
    PROVE  /\ Right(a) = Right(b) => a = b
           /\ Right(a) # Left(b) /\ Left(a) # Right(b)
           /\ Left(a) = Left(b) =>
                Split[Len(a)] = Split[Len(b)] /\ Begins(Right(a), Right(b))
<1> DEFINE k == Split[Len(a)]
           l == Split[Len(b)]
<1>1. /\ Len(a) \in Nat /\ k \in Nat /\ k > 0 /\ k < Len(a)
      /\ Len(Left(a)) = k /\ Len(Right(a)) = Len(a) - k
      /\ \A i \in 1 .. k : Left(a)[i] = a[i]
      /\ \A i \in 1 .. Len(a) - k : Right(a)[i] = a[k + i]
  BY Halves
<1>2. /\ Len(b) \in Nat /\ l \in Nat /\ l > 0 /\ l < Len(b)
      /\ Len(Left(b)) = l /\ Len(Right(b)) = Len(b) - l
      /\ \A i \in 1 .. l : Left(b)[i] = b[i]
      /\ \A i \in 1 .. Len(b) - l : Right(b)[i] = b[l + i]
  BY Halves
<1> HIDE DEF k, l
<1>3. /\ Left(a)[1] = a[1] /\ Right(a)[1] = a[k + 1]
      /\ Left(b)[1] = b[1] /\ Right(b)[1] = b[l + 1]
  <2>1. 1 \in 1 .. k /\ 1 \in 1 .. Len(a) - k /\ 1 \in 1 .. l /\ 1 \in 1 .. Len(b) - l
    BY <1>1, <1>2
  <2> QED BY <1>1, <1>2, <2>1
<1>4. a[1] = b[1] /\ a[k + 1] = b[k + 1]
  <2>1. 1 \in 1 .. Len(a) /\ k + 1 \in 1 .. Len(a)
    BY <1>1
  <2> QED BY <2>1 DEF Begins
<1>5. 1 \in 1 .. Len(b) /\ k + 1 \in 1 .. Len(b) /\ l + 1 \in 1 .. Len(b)
  BY <1>1, <1>2 DEF Begins
<1>6. ASSUME Right(a) = Right(b)  PROVE a = b
  <2>1. b[k + 1] = b[l + 1]
    BY <1>3, <1>4, <1>6
  <2>2. k + 1 = l + 1
    BY <1>5, <2>1 DEF Distinct
  <2>3. Len(a) - k = Len(b) - l
    BY <1>1, <1>2, <1>6
  <2>4. Len(a) = Len(b)
    <3>1. Len(a) \in Nat /\ Len(b) \in Nat /\ k \in Nat /\ l \in Nat
      BY <1>1, <1>2
    <3> QED BY <2>2, <2>3, <3>1
  <2> QED BY <2>4, SameLog DEF Begins
<1>7. ASSUME Right(a) = Left(b)  PROVE FALSE
  <2>1. b[k + 1] = b[1]
    BY <1>3, <1>4, <1>7
  <2>2. k + 1 = 1
    BY <1>5, <2>1 DEF Distinct
  <2> QED BY <1>1, <2>2
<1>8. ASSUME Left(a) = Right(b)  PROVE FALSE
  <2>1. b[1] = b[l + 1]
    BY <1>3, <1>4, <1>8
  <2>2. 1 = l + 1
    BY <1>5, <2>1 DEF Distinct
  <2> QED BY <1>2, <2>2
<1>9. ASSUME Left(a) = Left(b)  PROVE k = l /\ Begins(Right(a), Right(b))
  <2>1. k = l
    BY <1>1, <1>2, <1>9
  <2>2. Len(Right(a)) <= Len(Right(b))
    BY <1>1, <1>2, <2>1 DEF Begins
  <2>3. ASSUME NEW i \in 1 .. Len(Right(a))  PROVE Right(a)[i] = Right(b)[i]
    <3>1. /\ i \in 1 .. Len(a) - k /\ i \in 1 .. Len(b) - l /\ k + i \in 1 .. Len(a)
          /\ k + i = l + i
      BY <1>1, <1>2, <2>1, <2>2, <2>3
    <3>2. a[k + i] = b[k + i]
      BY <3>1 DEF Begins
    <3> QED BY <1>1, <1>2, <3>1, <3>2
  <2> QED BY <2>1, <2>2, <2>3 DEF Begins
<1> QED BY <1>6, <1>7, <1>8, <1>9 DEF k, l

\* The proof of an earlier size, and where it comes from.
LEMMA SubproofParts ==
    ASSUME NEW s \in Log, NEW m \in 1 .. Len(s), m # Len(s), NEW whole \in BOOLEAN,
           NEW k, k = Split[Len(s)]
    PROVE  /\ m <= k =>
                /\ Subproof(s, m, whole) = Append(Subproof(Left(s), m, whole), Root[Right(s)])
                /\ Subproof(Left(s), m, whole) \in Seq(Hash)
           /\ ~(m <= k) =>
                /\ Subproof(s, m, whole) = Append(Subproof(Right(s), m - k, FALSE), Root[Left(s)])
                /\ Subproof(Right(s), m - k, FALSE) \in Seq(Hash)
<1>1. /\ Left(s) \in Log /\ Right(s) \in Log
      /\ m <= k => m \in 1 .. Len(Left(s))
      /\ ~(m <= k) => m - k \in 1 .. Len(Right(s))
  BY EarlierParts
<1>2. /\ m <= k => Subproof(s, m, whole) = Append(Subproof(Left(s), m, whole), Root[Right(s)])
      /\ ~(m <= k) =>
           Subproof(s, m, whole) = Append(Subproof(Right(s), m - k, FALSE), Root[Left(s)])
  BY SubproofIs, Zenon
<1>3. m <= k => Subproof(Left(s), m, whole) \in Seq(Hash)
  <2> SUFFICES ASSUME m <= k  PROVE Subproof(Left(s), m, whole) \in Seq(Hash)
    OBVIOUS
  <2>1. \A b \in BOOLEAN : Subproof(Left(s), m, b) \in Seq(Hash)
    BY <1>1, SubproofType, Zenon
  <2> QED BY <2>1, Zenon
<1>4. ~(m <= k) => Subproof(Right(s), m - k, FALSE) \in Seq(Hash)
  <2> SUFFICES ASSUME ~(m <= k)  PROVE Subproof(Right(s), m - k, FALSE) \in Seq(Hash)
    OBVIOUS
  <2>1. \A b \in BOOLEAN : Subproof(Right(s), m - k, b) \in Seq(Hash)
    BY <1>1, SubproofType, Zenon
  <2>2. FALSE \in BOOLEAN
    OBVIOUS
  <2> QED BY <2>1, <2>2, Zenon
<1> QED BY <1>2, <1>3, <1>4, Zenon

\* No proof made from a log that began as b did is also one made from b,
\* unless it is the proof of the same size of the same log.
ToldApart(a, b) ==
    \A m \in 1 .. Len(a), j \in 1 .. Len(b), whole \in BOOLEAN :
        /\ m # Len(a) \/ a = b
        /\ Subproof(a, m, whole) = Subproof(b, j, whole)
        => a = b /\ m = j

\* By induction on the longer log: the last hashes tell which part each proof
\* is of, and the parts' proofs are what is left.
LEMMA SubproofOnce ==
    ASSUME NEW a \in Log, NEW b \in Log, Begins(a, b), Distinct(b)
    PROVE  ToldApart(a, b)
<1> DEFINE T == {n \in Nat : \A d \in Log : Len(d) = n /\ Distinct(d) =>
                   \A c \in Log : Begins(c, d) => ToldApart(c, d)}
<1>1. ASSUME NEW n \in Nat, \A i \in Nat : i < n => i \in T  PROVE n \in T
  <2> SUFFICES ASSUME NEW d \in Log, Len(d) = n, Distinct(d), NEW c \in Log, Begins(c, d)
               PROVE  ToldApart(c, d)
    OBVIOUS
  <2> SUFFICES ASSUME NEW m \in 1 .. Len(c), NEW j \in 1 .. Len(d), NEW whole \in BOOLEAN,
                      m # Len(c) \/ c = d,
                      Subproof(c, m, whole) = Subproof(d, j, whole)
               PROVE  c = d /\ m = j
    BY Zenon DEF ToldApart
  <2>1. ASSUME NEW s \in Log, NEW i \in 1 .. Len(s), i # Len(s)
        PROVE  Subproof(s, i, whole) # IF whole THEN <<>> ELSE <<Root[d]>>
    <3>1. CASE whole
      <4>1. Subproof(s, i, TRUE) # <<>>
        BY <2>1, SubproofType
      <4> QED BY <3>1, <4>1, Zenon
    <3>2. CASE ~whole
      <4>1. Subproof(s, i, whole) # <<Root[d]>> \/ whole
        BY <2>1, SubproofEnds
      <4> QED BY <3>2, <4>1, Zenon
    <3> QED BY <3>1, <3>2
  <2>2. CASE m = Len(c)
    <3>1. c = d
      BY <2>2
    <3>2. ASSUME j # Len(d)  PROVE FALSE
      <4>1. Subproof(d, m, whole) = IF whole THEN <<>> ELSE <<Root[d]>>
        BY <2>2, <3>1, SubproofIs, Zenon
      <4> QED BY <2>1, <3>1, <3>2, <4>1, Zenon
    <3> QED BY <2>2, <3>1, <3>2
  <2>3. CASE m # Len(c) /\ j = Len(d)
    <3>1. Subproof(d, j, whole) = IF whole THEN <<>> ELSE <<Root[d]>>
      BY <2>3, SubproofIs, Zenon
    <3> QED BY <2>1, <2>3, <3>1, Zenon
  <2>4. CASE m # Len(c) /\ j # Len(d)
    <3> DEFINE k == Split[Len(c)]
               l == Split[Len(d)]
    <3>1. /\ Len(c) \in Nat /\ Len(c) >= 2 /\ k \in Nat /\ k > 0 /\ k < Len(c)
          /\ Left(c) \in Log /\ Right(c) \in Log
          /\ Root[Left(c)] \in Hash /\ Root[Right(c)] \in Hash
          /\ m <= k => m \in 1 .. Len(Left(c)) /\ k = Len(Left(c))
          /\ ~(m <= k) => m - k \in 1 .. Len(Right(c)) /\ m - k # Len(Right(c))
      BY <2>4, EarlierParts
    <3>2. /\ Len(d) \in Nat /\ Len(d) >= 2 /\ l \in Nat /\ l > 0 /\ l < Len(d)
          /\ Left(d) \in Log /\ Right(d) \in Log
          /\ Len(Left(d)) \in Nat /\ Len(Left(d)) < n
          /\ Len(Right(d)) \in Nat /\ Len(Right(d)) < n
          /\ Root[Left(d)] \in Hash /\ Root[Right(d)] \in Hash
          /\ j <= l => j \in 1 .. Len(Left(d))
          /\ ~(j <= l) => j - l \in 1 .. Len(Right(d))
      BY <2>4, EarlierParts
    <3>3. /\ Right(c) = Right(d) => c = d
          /\ Right(c) # Left(d) /\ Left(c) # Right(d)
          /\ Left(c) = Left(d) => k = l /\ Begins(Right(c), Right(d))
      BY <3>1, <3>2, PartsOnce
    <3>4. Distinct(Left(d)) /\ Distinct(Right(d))
      BY <3>2, DistinctParts
    <3>5. /\ \A e \in Log : Begins(e, Left(d)) => ToldApart(e, Left(d))
          /\ \A e \in Log : Begins(e, Right(d)) => ToldApart(e, Right(d))
      <4>1. Len(Left(d)) \in T /\ Len(Right(d)) \in T
        BY <1>1, <3>2
      <4> QED BY <3>2, <3>4, <4>1, Zenon
    <3>6. /\ m <= k =>
               /\ Subproof(c, m, whole) = Append(Subproof(Left(c), m, whole), Root[Right(c)])
               /\ Subproof(Left(c), m, whole) \in Seq(Hash)
          /\ ~(m <= k) =>
               /\ Subproof(c, m, whole) = Append(Subproof(Right(c), m - k, FALSE), Root[Left(c)])
               /\ Subproof(Right(c), m - k, FALSE) \in Seq(Hash)
      BY <2>4, SubproofParts, Zenon
    <3>7. /\ j <= l =>
               /\ Subproof(d, j, whole) = Append(Subproof(Left(d), j, whole), Root[Right(d)])
               /\ Subproof(Left(d), j, whole) \in Seq(Hash)
          /\ ~(j <= l) =>
               /\ Subproof(d, j, whole) = Append(Subproof(Right(d), j - l, FALSE), Root[Left(d)])
               /\ Subproof(Right(d), j - l, FALSE) \in Seq(Hash)
      BY <2>4, SubproofParts, Zenon
    <3> HIDE DEF k, l
    <3>8. CASE m <= k /\ j <= l
      <4>1. Subproof(Left(c), m, whole) = Subproof(Left(d), j, whole)
            /\ Root[Right(c)] = Root[Right(d)]
        <5> DEFINE p == Subproof(Left(c), m, whole)
                   q == Subproof(Left(d), j, whole)
        <5>1. Subproof(c, m, whole) = Append(p, Root[Right(c)]) /\ p \in Seq(Hash)
          BY <3>6, <3>8, Zenon
        <5>2. Subproof(d, j, whole) = Append(q, Root[Right(d)]) /\ q \in Seq(Hash)
          BY <3>7, <3>8, Zenon
        <5> HIDE DEF p, q
        <5>3. Append(p, Root[Right(c)]) = Append(q, Root[Right(d)])
          BY <5>1, <5>2, Zenon
        <5>4. p = q /\ Root[Right(c)] = Root[Right(d)]
          BY <3>1, <3>2, <5>1, <5>2, <5>3, AppendOnce
        <5> QED BY <5>4, Zenon DEF p, q
      <4>2. c = d
        BY <3>1, <3>2, <3>3, <4>1, RootOnce, Zenon
      <4>3. ToldApart(Left(c), Left(d))
        <5>1. Begins(Left(d), Left(d))
          BY <3>2 DEF Begins
        <5> QED BY <3>2, <3>5, <4>2, <5>1, Zenon
      <4>4. m = j
        BY <3>1, <3>2, <3>8, <4>1, <4>2, <4>3, Zenon DEF ToldApart
      <4> QED BY <4>2, <4>4
    <3>9. CASE m <= k /\ ~(j <= l)
      <4>1. Root[Right(c)] = Root[Left(d)]
        <5> DEFINE p == Subproof(Left(c), m, whole)
                   q == Subproof(Right(d), j - l, FALSE)
        <5>1. Subproof(c, m, whole) = Append(p, Root[Right(c)]) /\ p \in Seq(Hash)
          BY <3>6, <3>9, Zenon
        <5>2. Subproof(d, j, whole) = Append(q, Root[Left(d)]) /\ q \in Seq(Hash)
          BY <3>7, <3>9, Zenon
        <5> HIDE DEF p, q
        <5>3. Append(p, Root[Right(c)]) = Append(q, Root[Left(d)])
          BY <5>1, <5>2, Zenon
        <5>4. p = q /\ Root[Right(c)] = Root[Left(d)]
          BY <3>1, <3>2, <5>1, <5>2, <5>3, AppendOnce
        <5> QED BY <5>4, Zenon DEF p, q
      <4> QED BY <3>1, <3>2, <3>3, <4>1, RootOnce, Zenon
    <3>10. CASE ~(m <= k) /\ j <= l
      <4>1. Root[Left(c)] = Root[Right(d)]
        <5> DEFINE p == Subproof(Right(c), m - k, FALSE)
                   q == Subproof(Left(d), j, whole)
        <5>1. Subproof(c, m, whole) = Append(p, Root[Left(c)]) /\ p \in Seq(Hash)
          BY <3>6, <3>10, Zenon
        <5>2. Subproof(d, j, whole) = Append(q, Root[Right(d)]) /\ q \in Seq(Hash)
          BY <3>7, <3>10, Zenon
        <5> HIDE DEF p, q
        <5>3. Append(p, Root[Left(c)]) = Append(q, Root[Right(d)])
          BY <5>1, <5>2, Zenon
        <5>4. p = q /\ Root[Left(c)] = Root[Right(d)]
          BY <3>1, <3>2, <5>1, <5>2, <5>3, AppendOnce
        <5> QED BY <5>4, Zenon DEF p, q
      <4> QED BY <3>1, <3>2, <3>3, <4>1, RootOnce, Zenon
    <3>11. CASE ~(m <= k) /\ ~(j <= l)
      <4>1. Subproof(Right(c), m - k, FALSE) = Subproof(Right(d), j - l, FALSE)
            /\ Root[Left(c)] = Root[Left(d)]
        <5> DEFINE p == Subproof(Right(c), m - k, FALSE)
                   q == Subproof(Right(d), j - l, FALSE)
        <5>1. Subproof(c, m, whole) = Append(p, Root[Left(c)]) /\ p \in Seq(Hash)
          BY <3>6, <3>11, Zenon
        <5>2. Subproof(d, j, whole) = Append(q, Root[Left(d)]) /\ q \in Seq(Hash)
          BY <3>7, <3>11, Zenon
        <5> HIDE DEF p, q
        <5>3. Append(p, Root[Left(c)]) = Append(q, Root[Left(d)])
          BY <5>1, <5>2, Zenon
        <5>4. p = q /\ Root[Left(c)] = Root[Left(d)]
          BY <3>1, <3>2, <5>1, <5>2, <5>3, AppendOnce
        <5> QED BY <5>4, Zenon DEF p, q
      <4>2. Left(c) = Left(d)
        BY <3>1, <3>2, <4>1, RootOnce, Zenon
      <4>3. k = l /\ ToldApart(Right(c), Right(d))
        BY <3>1, <3>3, <3>5, <4>2, Zenon
      <4>4. FALSE \in BOOLEAN
        OBVIOUS
      <4>5. Right(c) = Right(d) /\ m - k = j - l
        BY <3>1, <3>2, <3>11, <4>1, <4>3, <4>4, Zenon DEF ToldApart
      <4>6. c = d
        BY <3>3, <4>5
      <4>7. m = j
        BY <3>1, <3>2, <4>3, <4>5
      <4> QED BY <4>6, <4>7
    <3> QED BY <3>8, <3>9, <3>10, <3>11
  <2> QED BY <2>2, <2>3, <2>4
<1>2. \A n \in Nat : n \in T
  <2> HIDE DEF T
  <2> QED BY <1>1, OfSizes!Induction
<1>3. Len(b) \in Nat
  BY DEF Log
<1> QED BY <1>2, <1>3

\* A hash and what follows it are told from the two together.
LEMMA ConsOnce ==
    ASSUME NEW a \in Seq(Hash), NEW b \in Seq(Hash), NEW x \in Hash, NEW y \in Hash
    PROVE  <<x>> \o a = <<y>> \o b <=> x = y /\ a = b
<1> SUFFICES ASSUME <<x>> \o a = <<y>> \o b  PROVE x = y /\ a = b
  OBVIOUS
<1> DEFINE p == <<x>> \o a
           q == <<y>> \o b
<1>1. /\ Len(p) = 1 + Len(a) /\ p[1] = x /\ \A i \in 1 .. Len(a) : p[1 + i] = a[i]
      /\ Len(q) = 1 + Len(b) /\ q[1] = y /\ \A i \in 1 .. Len(b) : q[1 + i] = b[i]
  OBVIOUS
<1>2. p = q
  OBVIOUS
<1> HIDE DEF p, q
<1>3. x = y
  BY <1>1, <1>2
<1>4. Len(a) = Len(b)
  <2>1. Len(a) \in Nat /\ Len(b) \in Nat
    OBVIOUS
  <2>2. 1 + Len(a) = 1 + Len(b)
    BY <1>1, <1>2, Zenon
  <2> QED BY <2>1, <2>2
<1>5. \A i \in 1 .. Len(a) : a[i] = b[i]
  BY <1>1, <1>2, <1>4
<1> QED BY <1>3, <1>4, <1>5

-----------------------------------------------------------------------------
(* The logs numbered as they grew.                                         *)

\* make_entry gives a leaf the place it will have.
Numbered(s) == \A i \in 1 .. Len(s) : s[i].seq = i - 1

Placed ==
    /\ one \in Log /\ Numbered(one)
    /\ other \in Log /\ Numbered(other)

\* So no two leaves are alike, whatever they say.
LEMMA NumberedDistinct ==
    ASSUME NEW s \in Log, Numbered(s)
    PROVE  Distinct(s)
<1> SUFFICES ASSUME NEW i \in 1 .. Len(s), NEW j \in 1 .. Len(s), s[i] = s[j]
             PROVE  i = j
  BY DEF Distinct
<1>1. i - 1 = j - 1
  BY DEF Numbered
<1> QED BY <1>1

\* A log grows by a leaf that is numbered with its place.
LEMMA GrownIs ==
    ASSUME NEW s \in Log, Numbered(s), NEW t \in Grown(s)
    PROVE  t \in Log /\ Numbered(t)
<1>1. PICK what \in Decision : t = Append(s, MakeEntry(what, Len(s)))
  BY SizeAssumption DEF Grown
<1>2. Len(s) \in Nat
  BY DEF Log
<1> DEFINE e == MakeEntry(what, Len(s))
<1>3. e \in Entry /\ e.seq = Len(s)
  BY <1>2 DEF MakeEntry, Entry
<1> HIDE DEF e
<1>4. t = Append(s, e)
  BY <1>1 DEF e
<1>5. t \in Log /\ Len(t) = Len(s) + 1
  BY <1>3, <1>4 DEF Log
<1>6. ASSUME NEW i \in 1 .. Len(t)  PROVE t[i].seq = i - 1
  <2>1. CASE i \in 1 .. Len(s)
    <3>1. t[i] = s[i]
      BY <1>3, <1>4, <2>1 DEF Log
    <3> QED BY <2>1, <3>1 DEF Numbered
  <2>2. CASE i = Len(s) + 1
    <3>1. t[i] = e
      BY <1>3, <1>4, <2>2 DEF Log
    <3>2. i - 1 = Len(s)
      BY <1>2, <2>2
    <3> QED BY <1>3, <3>1, <3>2
  <2>3. i \in 1 .. Len(s) \/ i = Len(s) + 1
    BY <1>2, <1>5
  <2> QED BY <2>1, <2>2, <2>3
<1> QED BY <1>5, <1>6 DEF Numbered

\* Both logs hold entries that are numbered with their places.
THEOREM AlwaysPlaced == Spec => []Placed
<1>1. Init => Placed
  BY DEF Init, Placed, Numbered, Log
<1>2. Placed /\ [Next]_vars => Placed'
  <2> SUFFICES ASSUME Placed, [Next]_vars  PROVE Placed'
    OBVIOUS
  <2>1. CASE one' \in Grown(one) /\ UNCHANGED other
    BY <2>1, GrownIs DEF Placed, Numbered
  <2>2. CASE other' \in Grown(other) /\ UNCHANGED one
    BY <2>2, GrownIs DEF Placed, Numbered
  <2>3. CASE UNCHANGED vars
    BY <2>3 DEF Placed, Numbered, vars
  <2> QED BY <2>1, <2>2, <2>3 DEF Next
<1> QED BY <1>1, <1>2, PTL DEF Spec

-----------------------------------------------------------------------------
(* What the verifiers mean.                                                *)

\* verify_inclusion accepts what inclusion_proof made for a leaf, for that
\* leaf and its place, and refuses it for any other.
LEMMA InclusionMeans ==
    ASSUME NEW s \in Log, Distinct(s), NEW j \in 0 .. Len(s) - 1,
           NEW entry \in Entry, NEW m \in 0 .. Len(s)
    PROVE  VerifyInclusion(entry, m, Len(s), InclusionProof(s, j), Root[s])
             <=> m = j /\ entry = s[j + 1]
<1> DEFINE p == <<LeafHash(entry)>> \o InclusionProof(s, j)
<1>1. CASE m = Len(s)
  BY <1>1 DEF VerifyInclusion
<1>2. CASE m # Len(s)
  <2>1. m \in 0 .. Len(s) - 1 /\ 0 <= m /\ m < Len(s) /\ s[m + 1] \in Entry
    BY <1>2 DEF Log
  <2>2. LeafHash(entry) \in Hash /\ LeafHash(s[m + 1]) \in Hash
    BY <2>1, LeafIsRoot
  <2>3. InclusionProof(s, j) \in Seq(Hash) /\ InclusionProof(s, m) \in Seq(Hash)
    BY <2>1, InclusionProofType
  <2>4. p \in Seq(Hash) /\ p # <<>>
    BY <2>2, <2>3
  <2>5. VerifyInclusion(entry, m, Len(s), InclusionProof(s, j), Root[s]) <=> Climbs(s, m, p)
    BY <2>1, Zenon DEF VerifyInclusion, Climbs
  <2>6. Climbs(s, m, p) <=> p = PathOf(s, m)
    <3> HIDE DEF p
    <3> QED BY <2>1, <2>4, OnlyItsPath, Zenon
  <2>7. p = PathOf(s, m)
          <=> LeafHash(entry) = LeafHash(s[m + 1]) /\ InclusionProof(s, j) = InclusionProof(s, m)
    BY <2>2, <2>3, ConsOnce DEF PathOf
  <2>8. LeafHash(entry) = LeafHash(s[m + 1]) <=> entry = s[m + 1]
    BY DEF LeafHash
  <2>9. InclusionProof(s, j) = InclusionProof(s, m) <=> j = m
    BY <2>1, PathOnce
  <2> QED BY <2>5, <2>6, <2>7, <2>8, <2>9, Zenon
<1> QED BY <1>1, <1>2

\* verify_consistency accepts, between two sizes of a log, the root it had and
\* the proof that consistency_proof makes, and nothing else.
LEMMA ConsistencyMeans ==
    ASSUME NEW s \in Log, NEW m \in 1 .. Len(s), m # Len(s),
           NEW old \in Hash, NEW proof \in Seq(Hash)
    PROVE  VerifyConsistency(old, m, Root[s], Len(s), proof)
             <=> old = Root[Earlier(s, m)] /\ proof = ConsistencyProof(s, m)
<1> DEFINE told == ConsistencyProof(s, m)
           all == Subproof(s, m, FALSE)
           root == Root[Earlier(s, m)]
           p == IF PowerOfTwo(m) THEN <<old>> \o proof ELSE proof
<1>1. /\ told \in Seq(Hash) /\ told # <<>>
      /\ all = IF m \in Powers THEN <<root>> \o told ELSE told
  <2>1. \A whole \in BOOLEAN : Subproof(s, m, whole) \in Seq(Hash)
    BY SubproofType, Zenon
  <2>2. Subproof(s, m, TRUE) \in Seq(Hash)
    BY <2>1, Zenon
  <2>3. /\ Subproof(s, m, TRUE) # <<>>
        /\ Subproof(s, m, FALSE) = IF m \in Powers THEN <<root>> \o Subproof(s, m, TRUE)
                                   ELSE Subproof(s, m, TRUE)
    BY SubproofType, Zenon
  <2> QED BY <2>2, <2>3, Zenon DEF ConsistencyProof, Subproof
<1>2. root \in Hash
  BY EarlierIs DEF Hash
<1>3. PowerOfTwo(m) <=> m \in Powers
  BY DEF PowerOfTwo, Powers
<1>4. 0 < m /\ m < Len(s)
  BY DEF Log
<1>5. CASE proof = <<>>
  <2>1. ~VerifyConsistency(old, m, Root[s], Len(s), proof)
    BY <1>5, Zenon DEF VerifyConsistency
  <2> QED BY <1>1, <1>5, <2>1, Zenon
<1>6. CASE proof # <<>>
  <2>1. p \in Seq(Hash) /\ p # <<>>
    BY <1>6
  <2>2. VerifyConsistency(old, m, Root[s], Len(s), proof) <=> Leads(s, m, old, p)
    BY <1>4, <1>6, Zenon DEF VerifyConsistency, Leads
  <2>3. Leads(s, m, old, p) <=> p = all /\ old = root
    <3> HIDE DEF p
    <3> QED BY <2>1, OnlyItsSubproof, Zenon
  <2> HIDE DEF told, all, root
  <2>4. CASE m \in Powers
    <3>1. p = all <=> <<old>> \o proof = <<root>> \o told
      BY <1>1, <1>3, <2>4
    <3>2. <<old>> \o proof = <<root>> \o told <=> old = root /\ proof = told
      BY <1>1, <1>2, ConsOnce
    <3> QED BY <2>2, <2>3, <3>1, <3>2, Zenon DEF told, root
  <2>5. CASE m \notin Powers
    <3>1. p = all <=> proof = told
      BY <1>1, <1>3, <2>5
    <3> QED BY <2>2, <2>3, <3>1, Zenon DEF told, root
  <2> QED BY <2>4, <2>5
<1> QED BY <1>5, <1>6

-----------------------------------------------------------------------------
(* What the runs check, for logs of any size.                              *)

\* A proof of inclusion is good for the entry and the place it was made for,
\* and for no other entry or place (verify_inclusion, inclusion_proof).
THEOREM AProofIsOfOnePlace == Spec => []InclusionIsOnePlace
<1>1. Placed => InclusionIsOnePlace
  <2> SUFFICES ASSUME Placed, NEW j \in 0 .. Len(one) - 1,
                      NEW entry \in Range(one) \cup Range(other), NEW m \in 0 .. Len(one)
               PROVE  VerifyInclusion(entry, m, Len(one), InclusionProof(one, j), Root[one])
                        <=> (m = j /\ entry = one[j + 1])
    BY Zenon DEF InclusionIsOnePlace, Positions
  <2>1. one \in Log /\ Distinct(one)
    BY NumberedDistinct DEF Placed
  <2>2. entry \in Entry
    BY DEF Placed, Log, Range
  <2> QED BY <2>1, <2>2, InclusionMeans
<1> QED BY <1>1, AlwaysPlaced, PTL

\* A log shows that it extends any earlier, nonempty state of itself
\* (verify_consistency accepts what consistency_proof makes).
THEOREM GrowthIsShown == Spec => []HistoryIsShown
<1>1. Placed => HistoryIsShown
  <2> SUFFICES ASSUME Placed, NEW old \in Prefixes(one) \ {<<>>}
               PROVE  VerifyConsistency(Root[old], Len(old), Root[one], Len(one),
                                        ConsistencyProof(one, Len(old)))
    BY Zenon DEF HistoryIsShown
  <2>1. one \in Log
    BY DEF Placed
  <2>2. PICK m \in 1 .. Len(one) : old = Earlier(one, m)
    <3>1. PICK m \in 0 .. Len(one) : old = SubSeq(one, 1, m)
      BY DEF Prefixes
    <3>2. m # 0
      BY <2>1, <3>1 DEF Log
    <3> QED BY <3>1, <3>2 DEF Earlier
  <2>3. old \in Log /\ Len(old) = m /\ Root[old] \in Hash
    BY <2>1, <2>2, EarlierIs DEF Hash
  <2>4. CASE m = Len(one)
    <3>1. old = one
      BY <2>1, <2>2, <2>4, EarlierIs
    <3>2. ConsistencyProof(one, m) = <<>>
      <4>1. Subproof(one, m, TRUE) = IF TRUE THEN <<>> ELSE <<Root[one]>>
        BY <2>1, <2>4, SubproofIs, Zenon
      <4> QED BY <4>1, Zenon DEF Subproof, ConsistencyProof
    <3> QED BY <2>3, <3>1, <3>2, Zenon DEF VerifyConsistency
  <2>5. CASE m # Len(one)
    <3>1. ConsistencyProof(one, m) \in Seq(Hash)
      <4>1. \A whole \in BOOLEAN : Subproof(one, m, whole) \in Seq(Hash)
        BY <2>1, SubproofType, Zenon
      <4>2. Subproof(one, m, TRUE) \in Seq(Hash)
        BY <4>1, Zenon
      <4> QED BY <4>2, Zenon DEF Subproof, ConsistencyProof
    <3>2. VerifyConsistency(Root[old], m, Root[one], Len(one), ConsistencyProof(one, m))
      BY <2>1, <2>2, <2>3, <2>5, <3>1, ConsistencyMeans, Zenon
    <3> QED BY <2>3, <3>2, Zenon
  <2> QED BY <2>4, <2>5
<1> QED BY <1>1, AlwaysPlaced, PTL

\* What a log was began it.
LEMMA EarlierBegins ==
    ASSUME NEW s \in Log, NEW t \in Prefixes(s)
    PROVE  t \in Log /\ Begins(t, s)
<1>1. PICK l \in 0 .. Len(s) : t = SubSeq(s, 1, l)
  BY DEF Prefixes
<1>2. t \in Log /\ Len(t) = l /\ \A i \in 1 .. l : t[i] = s[i]
  BY <1>1 DEF Log
<1> QED BY <1>2 DEF Begins

\* No proof either log could make, now or earlier, shows that other extends
\* one unless it does; and the proof is then one made from this very state
\* of other (verify_consistency, consistency_proof, make_entry).
THEOREM GrowthIsNotFeigned == Spec => []HistoryIsNotFeigned
<1>1. Placed => HistoryIsNotFeigned
  <2> SUFFICES ASSUME Placed, NEW log \in Prefixes(one) \cup Prefixes(other),
                      NEW m \in 1 .. Len(log),
                      VerifyConsistency(Root[one], Len(one), Root[other], Len(other),
                                        ConsistencyProof(log, m))
               PROVE  /\ IsPrefix(one, other)
                      /\ one # other => one # <<>> /\ log = other /\ m = Len(one)
    BY Zenon DEF HistoryIsNotFeigned
  <2>1. one \in Log /\ other \in Log /\ Distinct(other)
    BY NumberedDistinct DEF Placed
  <2>2. /\ log \in Log
        /\ Begins(log, one) \/ Begins(log, other)
    BY <2>1, EarlierBegins
  <2> DEFINE proof == ConsistencyProof(log, m)
  <2>3. CASE Len(one) = Len(other) /\ Root[one] = Root[other] /\ proof = <<>>
    <3>1. one = other
      BY <2>1, <2>3, RootOnce
    <3> QED BY <3>1 DEF IsPrefix
  <2>4. CASE 0 < Len(one) /\ Len(one) < Len(other) /\ proof # <<>>
    <3> DEFINE n == Len(one)
    <3>1. n \in 1 .. Len(other) /\ n # Len(other) /\ Root[one] \in Hash
      BY <2>1, <2>4 DEF Log, Hash
    <3>2. proof \in Seq(Hash)
      <4>1. \A whole \in BOOLEAN : Subproof(log, m, whole) \in Seq(Hash)
        BY <2>2, SubproofType, Zenon
      <4>2. Subproof(log, m, TRUE) \in Seq(Hash)
        BY <4>1, Zenon
      <4> QED BY <4>2, Zenon DEF Subproof, ConsistencyProof
    <3>3. Root[one] = Root[Earlier(other, n)] /\ proof = ConsistencyProof(other, n)
      <4> HIDE DEF proof
      <4>1. VerifyConsistency(Root[one], n, Root[other], Len(other), proof)
        BY DEF proof
      <4> QED BY <2>1, <3>1, <3>2, <4>1, ConsistencyMeans, Zenon
    <3>4. /\ Earlier(other, n) \in Log /\ Len(Earlier(other, n)) = n
          /\ \A i \in 1 .. n : Earlier(other, n)[i] = other[i]
      BY <2>1, <3>1, EarlierIs
    <3>5. one = Earlier(other, n)
      BY <2>1, <3>3, <3>4, RootOnce
    <3>6. Begins(one, other)
      BY <2>4, <3>4, <3>5 DEF Begins
    <3>7. IsPrefix(one, other)
      <4>1. SubSeq(one, 1, n) = one
        BY <2>1 DEF Log
      <4>2. SubSeq(other, 1, n) = one
        BY <3>5 DEF Earlier
      <4>3. n <= Len(other)
        BY <2>1, <3>1
      <4> QED BY <4>1, <4>2, <4>3, Zenon DEF IsPrefix
    <3>8. Begins(log, other)
      <4>1. CASE Begins(log, one)
        <5>1. Len(log) \in Nat /\ Len(one) \in Nat /\ Len(other) \in Nat
          BY <2>1, <2>2 DEF Log
        <5>2. /\ Len(log) <= Len(one) /\ \A i \in 1 .. Len(log) : log[i] = one[i]
              /\ Len(one) <= Len(other) /\ \A i \in 1 .. Len(one) : one[i] = other[i]
          BY <3>6, <4>1 DEF Begins
        <5>3. Len(log) <= Len(other)
          BY <5>1, <5>2
        <5>4. ASSUME NEW i \in 1 .. Len(log)  PROVE log[i] = other[i]
          <6>1. i \in 1 .. Len(one)
            BY <5>1, <5>2
          <6> QED BY <5>2, <6>1
        <5> QED BY <5>3, <5>4 DEF Begins
      <4> QED BY <2>2, <4>1
    <3>9. m # Len(log)
      <4> SUFFICES ASSUME m = Len(log)  PROVE FALSE
        OBVIOUS
      <4>1. Subproof(log, m, TRUE) = IF TRUE THEN <<>> ELSE <<Root[log]>>
        BY <2>2, SubproofIs, Zenon
      <4> QED BY <2>4, <4>1, Zenon DEF Subproof, ConsistencyProof
    <3>10. log = other /\ m = n
      <4>1. Subproof(log, m, TRUE) = Subproof(other, n, TRUE)
        BY <3>3, Zenon DEF Subproof, ConsistencyProof
      <4>2. ToldApart(log, other)
        BY <2>1, <2>2, <3>8, SubproofOnce
      <4>3. TRUE \in BOOLEAN
        OBVIOUS
      <4> QED BY <3>1, <3>9, <4>1, <4>2, <4>3, Zenon DEF ToldApart
    <3>11. one # <<>>
      <4>1. Len(one) # 0
        BY <3>1
      <4>2. Len(<<>>) = 0
        OBVIOUS
      <4> QED BY <4>1, <4>2, Zenon
    <3> QED BY <3>7, <3>10, <3>11, Zenon
  <2> QED BY <2>3, <2>4, Zenon DEF VerifyConsistency
<1> QED BY <1>1, AlwaysPlaced, PTL
=============================================================================
