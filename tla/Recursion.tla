------------------------------ MODULE Recursion ------------------------------
(***************************************************************************)
(* What a recursive function computes.  f[x \in S] == Def(f, x) stands for *)
(* CHOOSE f : f = [x \in S |-> Def(f, x)], and says nothing unless there   *)
(* is such an f.  There is one when Def looks only at what is smaller.     *)
(*                                                                         *)
(* To be instantiated with the set, the measure and the definition of a    *)
(* recursive function: the provers cannot instantiate a theorem that has   *)
(* an operator for a parameter, and need not when a module has.            *)
(***************************************************************************)
EXTENDS Naturals, WellFoundedInduction, TLAPS

CONSTANTS S, Size(_), Def(_, _)

\* Every element has a size, and Def(g, x) depends only on what g is below x.
Decreasing ==
    /\ \A x \in S : Size(x) \in Nat
    /\ \A g, h : \A x \in S :
         (\A y \in S : Size(y) < Size(x) => g[y] = h[y]) => Def(g, x) = Def(h, x)

\* g is as defined on all that is smaller than n.
Below(n, g) == \A x \in S : Size(x) < n => g[x] = Def(g, x)

\* A set of numbers that holds every number it holds all below of, holds all.
LEMMA Induction ==
    ASSUME NEW T, \A n \in Nat : (\A m \in Nat : m < n => m \in T) => n \in T
    PROVE  \A n \in Nat : n \in T
<1> SUFFICES ASSUME Nat \ T # {}  PROVE FALSE
  OBVIOUS
<1>1. PICK n \in Nat \ T : \A m \in Nat \ T : ~(<<m, n>> \in OpToRel(<, Nat))
  BY NatLessThanWellFounded, WFMin
<1>2. \A m \in Nat : m < n => m \in T
  BY <1>1 DEF OpToRel
<1> QED BY <1>1, <1>2

\* Two functions that are as defined so far agree so far.
LEMMA BelowAgree ==
    ASSUME Decreasing, NEW n \in Nat, NEW g, NEW h, Below(n, g), Below(n, h)
    PROVE  \A x \in S : Size(x) < n => g[x] = h[x]
<1> DEFINE T == {k \in Nat : k < n => \A x \in S : Size(x) = k => g[x] = h[x]}
<1>1. ASSUME NEW k \in Nat, \A m \in Nat : m < k => m \in T  PROVE k \in T
  <2> SUFFICES ASSUME k < n, NEW x \in S, Size(x) = k  PROVE g[x] = h[x]
    OBVIOUS
  <2>1. \A y \in S : Size(y) < Size(x) => g[y] = h[y]
    BY <1>1 DEF Decreasing
  <2>2. Def(g, x) = Def(h, x)
    BY <2>1 DEF Decreasing
  <2> QED BY <2>2 DEF Below
<1>2. \A k \in Nat : k \in T
  <2> HIDE DEF T
  <2> QED BY <1>1, Induction
<1> QED BY <1>2 DEF Decreasing

\* There is a function that is as defined as far as one likes.
LEMMA BelowExists ==
    ASSUME Decreasing, NEW n \in Nat
    PROVE  \E g : Below(n, g)
<1> DEFINE T == {k \in Nat : \E g : Below(k, g)}
<1>1. ASSUME NEW k \in Nat, \A m \in Nat : m < k => m \in T  PROVE k \in T
  <2>1. CASE k = 0
    <3>1. Below(0, [x \in S |-> x])
      BY DEF Below, Decreasing
    <3> QED BY <2>1, <3>1
  <2>2. CASE k # 0
    <3>1. PICK g : Below(k - 1, g)
      BY <1>1, <2>2
    <3> DEFINE h == [x \in S |-> Def(g, x)]
    <3>2. ASSUME NEW x \in S, Size(x) < k  PROVE h[x] = Def(h, x)
      <4>1. \A y \in S : Size(y) < Size(x) => g[y] = h[y]
        BY <2>2, <3>1, <3>2 DEF Below, Decreasing
      <4>2. Def(g, x) = Def(h, x)
        <5> HIDE DEF h
        <5> QED BY <4>1 DEF Decreasing
      <4> QED BY <4>2
    <3>3. Below(k, h)
      <4> HIDE DEF h
      <4> QED BY <3>2 DEF Below
    <3> QED BY <3>3
  <2> QED BY <2>1, <2>2
<1>2. \A k \in Nat : k \in T
  <2> HIDE DEF T
  <2> QED BY <1>1, Induction
<1> QED BY <1>2

\* There is a function that is as defined on all of S.
THEOREM Exists ==
    ASSUME Decreasing
    PROVE  \E f : f = [x \in S |-> Def(f, x)]
<1> DEFINE upto(n) == CHOOSE g : Below(n, g)
           f == [x \in S |-> upto(Size(x) + 1)[x]]
<1>1. \A n \in Nat : Below(n, upto(n))
  BY BelowExists
<1>2. ASSUME NEW x \in S  PROVE f[x] = Def(f, x)
  <2> DEFINE g == upto(Size(x) + 1)
  <2>1. Size(x) \in Nat /\ Below(Size(x) + 1, g)
    BY <1>1 DEF Decreasing
  <2>2. f[x] = Def(g, x)
    BY <2>1 DEF Below
  <2>3. ASSUME NEW y \in S, Size(y) < Size(x)  PROVE g[y] = f[y]
    <3> DEFINE h == upto(Size(y) + 1)
    <3>1. Size(y) \in Nat /\ Below(Size(y) + 1, h)
      BY <1>1 DEF Decreasing
    <3>2. f[y] = h[y]
      OBVIOUS
    <3> HIDE DEF g, h, f
    <3>3. Below(Size(y) + 1, g)
      BY <2>1, <2>3, <3>1 DEF Below, Decreasing
    <3>4. g[y] = h[y]
      BY <3>1, <3>3, BelowAgree
    <3> QED BY <3>2, <3>4
  <2>4. Def(g, x) = Def(f, x)
    <3> HIDE DEF g, f
    <3> QED BY <2>3 DEF Decreasing
  <2> QED BY <2>2, <2>4
<1>3. f = [x \in S |-> Def(f, x)]
  <2>1. f = [x \in S |-> f[x]]
    OBVIOUS
  <2> HIDE DEF f
  <2> QED BY <1>2, <2>1
<1> QED BY <1>3
=============================================================================
