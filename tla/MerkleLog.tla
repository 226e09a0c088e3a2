------------------------------ MODULE MerkleLog ------------------------------
(***************************************************************************)
(* The append-only Merkle log (hatls/log.py): roots, the two kinds of      *)
(* proof, and their verifiers, over hashes taken as free terms.            *)
(*                                                                         *)
(* The module runs two logs side by side, as there are whenever two        *)
(* incarnations of a mandate, or two answers of one, are to be compared,   *)
(* and sets what the verifiers answer against what it should mean: this    *)
(* entry is at this place, this log is a prefix of that one.               *)
(***************************************************************************)
EXTENDS Integers, SequencesExt

CONSTANTS
    Decision,    \* what a leaf can say, its position apart
    Usual,       \* one of them
    MaxFork,     \* bound: past this size a leaf says what is usual
    MaxSize      \* bound on the size of a log

ASSUME SizeAssumption == {MaxFork, MaxSize} \subseteq Nat /\ Usual \in Decision

VARIABLES one, other    \* MerkleLog.entries, of two logs

vars == <<one, other>>

-----------------------------------------------------------------------------
(* Hashes (RFC 6962), as terms: equal only when built alike.               *)

Empty == <<"empty">>
LeafHash(entry) == <<"leaf", entry>>
NodeHash(l, r) == <<"node", l, r>>

\* A leaf: what was decided, and the place it occupies.
Entry == [seq : Nat, what : Decision]

Log == Seq(Entry)

\* The largest power of two strictly less than n.
Split[n \in Nat] == IF n <= 2 THEN 1 ELSE 2 * Split[(n + 1) \div 2]

Left(leaves) == SubSeq(leaves, 1, Split[Len(leaves)])
Right(leaves) == SubSeq(leaves, Split[Len(leaves)] + 1, Len(leaves))

Root[leaves \in Log] ==
    IF leaves = <<>> THEN Empty
    ELSE IF Len(leaves) = 1 THEN LeafHash(leaves[1])
    ELSE NodeHash(Root[Left(leaves)], Root[Right(leaves)])

-----------------------------------------------------------------------------
(* Proofs.  Leaves are numbered from 0.                                    *)

\* The proof of each leaf of a log.
Paths[leaves \in Log] ==
    LET k == Split[Len(leaves)]
    IN  [m \in 0 .. Len(leaves) - 1 |->
           IF Len(leaves) = 1 THEN <<>>
           ELSE IF m < k THEN Append(Paths[Left(leaves)][m], Root[Right(leaves)])
           ELSE Append(Paths[Right(leaves)][m - k], Root[Left(leaves)])]

InclusionProof(leaves, m) == Paths[leaves][m]

\* The proof for each size a log has had.  whole (b) says that the subtree is
\* the old log's own, and that its root need not be told.
Subproofs[leaves \in Log] ==
    LET k == Split[Len(leaves)]
    IN  [whole \in BOOLEAN |-> [m \in 1 .. Len(leaves) |->
           IF m = Len(leaves) THEN IF whole THEN <<>> ELSE <<Root[leaves]>>
           ELSE IF m <= k
           THEN Append(Subproofs[Left(leaves)][whole][m], Root[Right(leaves)])
           ELSE Append(Subproofs[Right(leaves)][FALSE][m - k], Root[Left(leaves)])]]

\* Raises for m = 0, the size every log starts from.
ConsistencyProof(leaves, m) == Subproofs[leaves][TRUE][m]

-----------------------------------------------------------------------------
(* Verifiers: a walk from a leaf to the root, <<fn, sn>> being the leaf's   *)
(* and the last leaf's numbers at the level reached.                       *)

\* while not (fn == 0 or fn & 1): up one level.
SkipAligned[at \in Nat \X Nat] ==
    IF at[1] = 0 \/ at[1] % 2 = 1 THEN at
    ELSE SkipAligned[<<at[1] \div 2, at[2] \div 2>>]

\* while fn & 1: up one level.
SkipOdd[at \in Nat \X Nat] ==
    IF at[1] % 2 = 1 THEN SkipOdd[<<at[1] \div 2, at[2] \div 2>>] ELSE at

\* Mutant: a right edge that is not odd is taken for a left child.
FromTheLeftWhenOdd(fn, sn) == fn % 2 = 1

FromTheLeft(fn, sn) == fn % 2 = 1 \/ fn = sn

\* The walk after one more sibling: fr gathers the old root, which what comes
\* from the right is no part of, and sr (verify_inclusion: node) the new one.
Meet(w, sibling) ==
    LET left == FromTheLeft(w.fn, w.sn)
        at == IF left THEN SkipAligned[<<w.fn, w.sn>>] ELSE <<w.fn, w.sn>>
    IN  [fn |-> at[1] \div 2, sn |-> at[2] \div 2,
         fr |-> IF left THEN NodeHash(sibling, w.fr) ELSE w.fr,
         sr |-> IF left THEN NodeHash(sibling, w.sr) ELSE NodeHash(w.sr, sibling)]

\* From the first hash of p, where the walk begins, through all the others.
Walk(at, p) ==
    LET w[i \in 1 .. Len(p)] ==
          IF i = 1 THEN [fn |-> at[1], sn |-> at[2], fr |-> p[1], sr |-> p[1]]
          ELSE Meet(w[i - 1], p[i])
    IN  w

\* At the root when p is used up, and not before.
Arrives(w, p) == \A i \in 1 .. Len(p) : w[i].sn = 0 <=> i = Len(p)

VerifyInclusion(entry, m, n, proof, root) ==
    /\ 0 <= m /\ m < n
    /\ LET p == <<LeafHash(entry)>> \o proof
           w == Walk(<<m, n - 1>>, p)
       IN  Arrives(w, p) /\ w[Len(p)].sr = root

\* m & (m - 1) == 0, bit by bit.
HasOneBit[m \in Nat] == m <= 1 \/ (m % 2 = 0 /\ HasOneBit[m \div 2])

\* Mutant: a log of one leaf is not seen to be a subtree.
PowerOfTwoButOne(m) == m > 1 /\ HasOneBit[m]

PowerOfTwo(m) == HasOneBit[m]

\* Mutant: the new root alone is compared.
BothRootsNewOnly(end, old, new) == end.sr = new

BothRoots(end, old, new) == end.fr = old /\ end.sr = new

VerifyConsistency(old, m, new, n, proof) ==
    \/ m = n /\ old = new /\ proof = <<>>
    \/ /\ 0 < m /\ m < n /\ proof # <<>>
       /\ LET p == IF PowerOfTwo(m) THEN <<old>> \o proof ELSE proof
              w == Walk(SkipOdd[<<m - 1, n - 1>>], p)
          IN  Arrives(w, p) /\ BothRoots(w[Len(p)], old, new)

-----------------------------------------------------------------------------
(* The logs grow, one decision at a time.                                  *)

\* make_entry: the decision and the place it will occupy.
MakeEntry(what, seq) == [seq |-> seq, what |-> what]

Grown(log) ==
    {Append(log, MakeEntry(what, Len(log))) :
        what \in IF Len(log) < MaxFork THEN Decision ELSE {Usual}}

Init == one = <<>> /\ other = <<>>

Next ==
    \/ Len(one) < MaxSize /\ one' \in Grown(one) /\ UNCHANGED other
    \/ Len(other) < MaxSize /\ other' \in Grown(other) /\ UNCHANGED one

Spec == Init /\ [][Next]_vars

-----------------------------------------------------------------------------

Positions(log) == 0 .. Len(log) - 1

\* A proof of inclusion is good for the entry and the place it was made for
\* (verify_inclusion accepts what inclusion_proof produced, make_entry tells
\* two decisions alike apart), and for no other entry or place.
InclusionIsOnePlace ==
    \A j \in Positions(one) : \A entry \in Range(one) \cup Range(other) :
        \A m \in 0 .. Len(one) :
            VerifyInclusion(entry, m, Len(one), InclusionProof(one, j), Root[one])
                <=> (m = j /\ entry = one[j + 1])

\* A log shows that it extends any earlier, nonempty state of itself
\* (consistency_proof and verify_consistency agree on the shape of the tree).
HistoryIsShown ==
    \A old \in Prefixes(one) \ {<<>>} :
        VerifyConsistency(Root[old], Len(old), Root[one], Len(one),
                          ConsistencyProof(one, Len(old)))

\* No proof either log could make, now or earlier, shows that other extends
\* one unless it does; and the proof is then one made from this very state
\* of other.
HistoryIsNotFeigned ==
    \A log \in Prefixes(one) \cup Prefixes(other) : \A m \in 1 .. Len(log) :
        VerifyConsistency(Root[one], Len(one), Root[other], Len(other),
                          ConsistencyProof(log, m))
            => /\ IsPrefix(one, other)
               /\ one # other => one # <<>> /\ log = other /\ m = Len(one)
=============================================================================
