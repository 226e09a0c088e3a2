-------------------------- MODULE TransparencyProofs --------------------------
(***************************************************************************)
(* Theorems about the audits of Transparency, for any number of mandates,  *)
(* decisions and restarts: an honest mandate is never convicted, knows its *)
(* own heads, and two receipts that contradict each other convict the key. *)
(***************************************************************************)
EXTENDS Transparency, TLAPS

-----------------------------------------------------------------------------
(* Lists of decisions.                                                     *)

Entries == Seq(Decision)

\* Mutually prefixes, or prefixes of equal length, are equal.
LEMMA PrefixOfEqualLength ==
    ASSUME NEW a \in Entries, NEW b \in Entries, IsPrefix(a, b), Len(a) = Len(b)
    PROVE  a = b
<1>1. SubSeq(a, 1, Len(a)) = a /\ SubSeq(b, 1, Len(b)) = b
  BY DEF Entries
<1> QED BY <1>1 DEF IsPrefix

\* A list is a prefix of itself.
LEMMA PrefixOfItself ==
    ASSUME NEW a \in Entries
    PROVE  IsPrefix(a, a)
BY DEF Entries, IsPrefix

\* What a prefix has in a place, the longer list has there.
LEMMA PrefixAgrees ==
    ASSUME NEW a \in Entries, NEW b \in Entries
    PROVE  IsPrefix(a, b) <=>
             /\ Len(a) <= Len(b)
             /\ \A i \in 1 .. Len(a) : a[i] = b[i]
<1>1. Len(a) \in Nat /\ Len(b) \in Nat /\ SubSeq(a, 1, Len(a)) = a
  BY DEF Entries
<1>2. ASSUME Len(a) <= Len(b)
      PROVE  SubSeq(a, 1, Len(a)) = SubSeq(b, 1, Len(a)) <=> \A i \in 1 .. Len(a) : a[i] = b[i]
  <2> DEFINE c == SubSeq(b, 1, Len(a))
  <2>1. c \in Entries /\ Len(c) = Len(a) /\ \A i \in 1 .. Len(a) : c[i] = b[i]
    BY <1>1, <1>2 DEF Entries
  <2> HIDE DEF c
  <2>2. a = c <=> \A i \in 1 .. Len(a) : a[i] = c[i]
    BY <1>1, <2>1 DEF Entries
  <2>3. (\A i \in 1 .. Len(a) : a[i] = c[i]) <=> (\A i \in 1 .. Len(a) : a[i] = b[i])
    BY <2>1
  <2> QED BY <1>1, <2>2, <2>3 DEF c
<1> QED BY <1>2 DEF IsPrefix

\* One more decision extends whatever the log extended.
LEMMA PrefixOfLonger ==
    ASSUME NEW a \in Entries, NEW b \in Entries, NEW d \in Decision, IsPrefix(a, b)
    PROVE  IsPrefix(a, Append(b, d))
<1>1. /\ Append(b, d) \in Entries /\ Len(Append(b, d)) = Len(b) + 1 /\ Len(b) \in Nat
      /\ Len(a) \in Nat
      /\ \A i \in 1 .. Len(b) : Append(b, d)[i] = b[i]
  BY DEF Entries
<1>2. Len(a) <= Len(b) /\ \A i \in 1 .. Len(a) : a[i] = b[i]
  BY PrefixAgrees
<1>3. \A i \in 1 .. Len(a) : i \in 1 .. Len(b)
  BY <1>1, <1>2
<1>4. Len(a) <= Len(Append(b, d)) /\ \A i \in 1 .. Len(a) : a[i] = Append(b, d)[i]
  BY <1>1, <1>2, <1>3
<1> QED BY <1>1, <1>4, PrefixAgrees

-----------------------------------------------------------------------------
(* What the mandates have said.                                            *)

Statement == [by : Mandate \X Nat, log : Entries]

TransparencyTypeOK ==
    /\ log \in [Mandate -> Entries]
    /\ roots \in [Mandate -> SUBSET Entries]
    /\ life \in [Mandate -> Nat]
    /\ signed \subseteq Statement

\* A head on record was signed, and so was the head of every receipt, which shows
\* what that head has in the receipt's place.
OnlySigned ==
    /\ witnessed \subseteq signed
    /\ \A r \in receipts : /\ r.sth \in signed
                           /\ r.index \in DOMAIN r.sth.log
                           /\ r.entry = r.sth.log[r.index]

\* No head is signed under a key that is yet to be made.
NoneAhead == ~SigningKeyGiven => \A s \in signed : s.by[2] <= life[s.by[1]]

\* A process knows the head of its log.
PresentIsKnown == \A m \in Mandate : log[m] \in roots[m]

TransparencyInv ==
    TransparencyTypeOK /\ OnlySigned /\ NoneAhead /\ PresentIsKnown /\ OwnHeadsAreKnown

\* A mandate's key is one of those it may have.
LEMMA KeyType ==
    ASSUME TransparencyTypeOK, NEW m \in Mandate
    PROVE  /\ Key(m) \in Mandate \X Nat /\ Key(m)[1] = m
           /\ ~SigningKeyGiven => Key(m)[2] = life[m]
BY DEF Key, TransparencyTypeOK

\* At the start nothing was said.
LEMMA TransparencyStart == Init => TransparencyInv
<1> SUFFICES ASSUME Init  PROVE TransparencyInv
  OBVIOUS
<1>1. <<>> \in Entries
  BY DEF Entries
<1>2. TransparencyTypeOK
  BY <1>1 DEF Init, TransparencyTypeOK
<1>3. OwnHeadsAreKnown
  BY <1>1, PrefixOfItself DEF Init, OwnHeadsAreKnown
<1> QED BY <1>2, <1>3 DEF Init, TransparencyInv, OnlySigned, NoneAhead, PresentIsKnown

\* A head signed for the log a mandate has, and receipts from that log: sign_sth,
\* receipt() and _record all end here.
LEMMA HeadIsSigned ==
    ASSUME TransparencyInv, NEW m \in Mandate, NEW entries \in Entries,
           TransparencyTypeOK', UNCHANGED <<life, witnessed>>,
           signed' = signed \cup {Sth(m, entries)},
           \A r \in receipts' \ receipts : \E i \in DOMAIN entries : r = Receipt(m, entries, i)
    PROVE  OnlySigned' /\ NoneAhead'
<1> USE DEF TransparencyInv
<1>1. Sth(m, entries).by = Key(m) /\ Sth(m, entries).log = entries
  BY DEF Sth
<1>2. \A i \in DOMAIN entries :
        LET r == Receipt(m, entries, i)
        IN  r.sth = Sth(m, entries) /\ r.index = i /\ r.entry = entries[i]
  BY DEF Receipt
<1>3. OnlySigned'
  BY <1>1, <1>2 DEF OnlySigned
<1>4. NoneAhead'
  <2> SUFFICES ASSUME ~SigningKeyGiven, NEW s \in signed'  PROVE s.by[2] <= life[s.by[1]]
    BY DEF NoneAhead
  <2>1. CASE s \in signed
    BY <2>1 DEF NoneAhead
  <2>2. CASE s = Sth(m, entries)
    <3>1. s.by[1] = m /\ s.by[2] = life[m] /\ life[m] \in Nat
      BY <1>1, <2>2, KeyType DEF TransparencyTypeOK
    <3> QED BY <3>1
  <2> QED BY <2>1, <2>2
<1> QED BY <1>3, <1>4

\* A decision: the log grows, and its head is noted, signed and handed out.
LEMMA DecisionKeeps ==
    ASSUME TransparencyInv, NEW m \in Mandate, NEW d \in Decision, Decide(m, d)
    PROVE  TransparencyInv'
<1> USE DEF TransparencyInv
<1> DEFINE entries == Append(log[m], d)
<1>1. entries \in Entries /\ Len(entries) = Len(log[m]) + 1 /\ Len(log[m]) \in Nat
  BY DEF TransparencyTypeOK, Entries
<1>2. /\ log' = [log EXCEPT ![m] = entries]
      /\ roots' = [roots EXCEPT ![m] = roots[m] \cup {entries}]
      /\ signed' = signed \cup {Sth(m, entries)}
      /\ receipts' = receipts \cup {Receipt(m, entries, Len(entries))}
      /\ UNCHANGED <<life, witnessed>>
  BY DEF Decide, Extended, NoteHead
<1> HIDE DEF entries
<1>3. Sth(m, entries) \in Statement
  BY <1>1, KeyType DEF Sth, Statement
<1>4. TransparencyTypeOK'
  BY <1>1, <1>2, <1>3 DEF TransparencyTypeOK
<1>5. Len(entries) \in DOMAIN entries
  BY <1>1 DEF Entries
<1>6. OnlySigned' /\ NoneAhead'
  BY <1>1, <1>2, <1>4, <1>5, HeadIsSigned
<1>7. OwnHeadsAreKnown'
  <2> SUFFICES ASSUME NEW n \in Mandate, NeverRestarted(n)
               PROVE  /\ \A s \in signed' : s.by = Key(n) => s.log \in roots'[n]
                      /\ \A root \in roots'[n] : IsPrefix(root, log'[n])
    BY <1>2 DEF OwnHeadsAreKnown, NeverRestarted, Key
  <2>1. /\ \A s \in signed : s.by = Key(n) => s.log \in roots[n]
        /\ \A root \in roots[n] : IsPrefix(root, log[n])
    BY DEF OwnHeadsAreKnown
  <2>2. Sth(m, entries).by = Key(m) /\ Sth(m, entries).log = entries
    BY DEF Sth
  <2>3. CASE n = m
    <3>1. \A root \in roots[m] : IsPrefix(root, entries)
      BY <2>1, <2>3, PrefixOfLonger DEF TransparencyTypeOK, entries
    <3>2. IsPrefix(entries, entries)
      BY <1>1, PrefixOfItself
    <3>3. roots'[m] = roots[m] \cup {entries} /\ log'[m] = entries
      BY <1>2 DEF TransparencyTypeOK
    <3> QED BY <1>2, <2>1, <2>2, <2>3, <3>1, <3>2, <3>3
  <2>4. CASE n # m
    <3>1. roots'[n] = roots[n] /\ log'[n] = log[n]
      BY <1>2, <2>4 DEF TransparencyTypeOK
    <3>2. Key(m) # Key(n)
      BY <2>4, KeyType
    <3> QED BY <1>2, <2>1, <2>2, <3>1, <3>2
  <2> QED BY <2>3, <2>4
<1>8. PresentIsKnown'
  BY <1>2 DEF PresentIsKnown, TransparencyTypeOK
<1> QED BY <1>4, <1>6, <1>7, <1>8

\* A head or a receipt for whoever asks: what was noted was of this log.
LEMMA AnswerKeeps ==
    ASSUME TransparencyInv, NEW m \in Mandate,
           SignHead(m) \/ \E index \in 1 .. MaxSize : GiveReceipt(m, index)
    PROVE  TransparencyInv'
<1> USE DEF TransparencyInv
<1> DEFINE entries == log[m]
<1>1. entries \in Entries
  BY DEF TransparencyTypeOK
<1>2. /\ UNCHANGED <<log, roots, life, witnessed>>
      /\ signed' = signed \cup {Sth(m, entries)}
      /\ \A r \in receipts' \ receipts : \E i \in DOMAIN entries : r = Receipt(m, entries, i)
  BY DEF SignHead, GiveReceipt
<1>3. Sth(m, entries) \in Statement /\ Sth(m, entries).by = Key(m) /\ Sth(m, entries).log = entries
  BY <1>1, KeyType DEF Sth, Statement
<1>4. TransparencyTypeOK'
  BY <1>2, <1>3 DEF TransparencyTypeOK
<1>5. OnlySigned' /\ NoneAhead'
  BY <1>1, <1>2, <1>4, HeadIsSigned
<1>6. OwnHeadsAreKnown'
  <2> SUFFICES ASSUME NEW n \in Mandate, NeverRestarted(n)
               PROVE  /\ \A s \in signed' : s.by = Key(n) => s.log \in roots[n]
                      /\ \A root \in roots[n] : IsPrefix(root, log[n])
    BY <1>2 DEF OwnHeadsAreKnown, NeverRestarted, Key
  <2>1. /\ \A s \in signed : s.by = Key(n) => s.log \in roots[n]
        /\ \A root \in roots[n] : IsPrefix(root, log[n])
    BY DEF OwnHeadsAreKnown
  <2>2. Key(m) = Key(n) => m = n
    BY KeyType
  <2>3. Key(m) = Key(n) => Sth(m, entries).log \in roots[n]
    BY <1>3, <2>2 DEF PresentIsKnown
  <2> QED BY <1>2, <1>3, <2>1, <2>3
<1>7. PresentIsKnown'
  BY <1>2 DEF PresentIsKnown
<1> QED BY <1>4, <1>5, <1>6, <1>7

\* The process dies: under a key it keeps it is no longer one that was never
\* restarted, and under a new one nothing has been signed.
LEMMA RestartKeeps ==
    ASSUME TransparencyInv, NEW m \in Mandate, Restart(m)
    PROVE  TransparencyInv'
<1> USE DEF TransparencyInv
<1>1. /\ life' = [life EXCEPT ![m] = life[m] + 1]
      /\ log' = [log EXCEPT ![m] = <<>>]
      /\ roots' = [roots EXCEPT ![m] = {<<>>}]
      /\ UNCHANGED <<signed, receipts, witnessed>>
  BY DEF Restart
<1>2. <<>> \in Entries
  BY DEF Entries
<1>3. TransparencyTypeOK'
  BY <1>1, <1>2 DEF TransparencyTypeOK
<1>4. OnlySigned' /\ PresentIsKnown'
  BY <1>1 DEF OnlySigned, PresentIsKnown, TransparencyTypeOK
<1>5. NoneAhead'
  <2> SUFFICES ASSUME ~SigningKeyGiven, NEW s \in signed  PROVE s.by[2] <= life'[s.by[1]]
    BY <1>1 DEF NoneAhead
  <2>1. s.by[2] <= life[s.by[1]] /\ s.by[1] \in Mandate /\ s.by[2] \in Nat
    BY DEF NoneAhead, TransparencyTypeOK, Statement
  <2>2. life[s.by[1]] \in Nat /\ life'[s.by[1]] \in {life[s.by[1]], life[s.by[1]] + 1}
    BY <1>1, <2>1 DEF TransparencyTypeOK
  <2> QED BY <2>1, <2>2
<1>6. OwnHeadsAreKnown'
  <2> SUFFICES ASSUME NEW n \in Mandate, NeverRestarted(n)'
               PROVE  /\ \A s \in signed : s.by = Key(n)' => s.log \in roots'[n]
                      /\ \A root \in roots'[n] : IsPrefix(root, log'[n])
    BY <1>1 DEF OwnHeadsAreKnown
  <2>1. CASE n # m
    <3>1. roots'[n] = roots[n] /\ log'[n] = log[n] /\ life'[n] = life[n]
      BY <1>1, <2>1 DEF TransparencyTypeOK
    <3>2. NeverRestarted(n) /\ Key(n)' = Key(n)
      BY <3>1 DEF NeverRestarted, Key
    <3> QED BY <3>1, <3>2 DEF OwnHeadsAreKnown
  <2>2. CASE n = m
    <3>1. life'[m] = life[m] + 1 /\ life[m] \in Nat /\ roots'[m] = {<<>>} /\ log'[m] = <<>>
      BY <1>1 DEF TransparencyTypeOK
    <3>2. ~SigningKeyGiven /\ Key(m)' = <<m, life[m] + 1>>
      BY <2>2, <3>1 DEF NeverRestarted, Key
    <3>3. \A s \in signed : s.by # <<m, life[m] + 1>>
      BY <3>1, <3>2 DEF NoneAhead
    <3>4. IsPrefix(<<>>, <<>>)
      BY <1>2, PrefixOfItself
    <3> QED BY <2>2, <3>1, <3>2, <3>3, <3>4
  <2> QED BY <2>1, <2>2
<1> QED BY <1>3, <1>4, <1>5, <1>6

\* Every step keeps the invariant.
LEMMA TransparencyPreserved == TransparencyInv /\ [Next]_vars => TransparencyInv'
<1> SUFFICES ASSUME TransparencyInv, [Next]_vars  PROVE TransparencyInv'
  OBVIOUS
<1>1. ASSUME NEW sth \in Offered, Witness(sth)
      PROVE  TransparencyInv'
  <2>1. UNCHANGED <<log, roots, life, signed, receipts>> /\ witnessed' \subseteq signed
    BY <1>1 DEF Witness, SignatureVerifies, TransparencyInv, OnlySigned
  <2> QED BY <2>1 DEF TransparencyInv, TransparencyTypeOK, OnlySigned, NoneAhead, PresentIsKnown,
          OwnHeadsAreKnown, NeverRestarted, Key
<1>2. CASE UNCHANGED vars
  BY <1>2 DEF vars, TransparencyInv, TransparencyTypeOK, OnlySigned, NoneAhead, PresentIsKnown,
     OwnHeadsAreKnown, NeverRestarted, Key
<1> QED BY <1>1, <1>2, DecisionKeeps, AnswerKeeps, RestartKeeps DEF Next

LEMMA TransparencyInvariant == Spec => []TransparencyInv
BY TransparencyStart, TransparencyPreserved, PTL DEF Spec

-----------------------------------------------------------------------------
(* The theorems.                                                           *)

\* knows_head() answers yes for every head its process has signed, and for none
\* that its log does not extend.
THEOREM HeadsAreKnown == Spec => []OwnHeadsAreKnown
<1>1. TransparencyInv => OwnHeadsAreKnown
  BY DEF TransparencyInv
<1> QED BY <1>1, TransparencyInvariant, PTL

\* No audit of its own heads convicts a mandate that was not restarted under a
\* key it kept: not divergence(), not is_equivocation(), whoever witnessed it.
THEOREM TheHonestAreAcquitted == Spec => []HonestMandateIsAcquitted
<1>1. TransparencyInv => HonestMandateIsAcquitted
  <2> SUFFICES ASSUME TransparencyInv, NEW m \in Mandate, NEW w \in witnessed,
                      NeverRestarted(m), w.by = Key(m), w.log # <<>>
               PROVE  LET proofs == ProveExtension(m, Len(w.log))
                      IN  /\ ~Diverged(w.log, log[m], proofs)
                          /\ ~IsEquivocation(w.log, log[m], proofs)
    BY DEF HonestMandateIsAcquitted
  <2> DEFINE n == Len(w.log)
             proof == [size |-> n, log |-> log[m]]
  <2>1. w \in signed /\ w.log \in Entries /\ log[m] \in Entries
    BY DEF TransparencyInv, OnlySigned, TransparencyTypeOK, Statement
  <2>2. IsPrefix(w.log, log[m])
    BY <2>1 DEF TransparencyInv, OwnHeadsAreKnown
  <2>3. n \in Nat /\ Len(log[m]) \in Nat /\ 0 < n /\ n <= Len(log[m])
    BY <2>1, <2>2 DEF Entries, IsPrefix
  <2>4. CASE n = Len(log[m])
    <3>1. w.log = log[m]
      BY <2>1, <2>2, <2>4, PrefixOfEqualLength
    <3> QED BY <3>1 DEF Diverged, IsEquivocation
  <2>5. CASE n < Len(log[m])
    <3>1. ProveExtension(m, n) = {proof}
      BY <2>3 DEF ProveExtension
    <3>2. Shows(proof, w.log, log[m])
      BY <2>2, <2>3, <2>5 DEF Shows
    <3> QED BY <2>3, <2>5, <3>1, <3>2 DEF Diverged, IsEquivocation
  <2> QED BY <2>3, <2>4, <2>5
<1> QED BY <1>1, TransparencyInvariant, PTL

\* Neither of two lists of decisions that go apart shows that it extends the other.
Incompatible(a, b) == ~IsPrefix(a, b) /\ ~IsPrefix(b, a)

LEMMA ForkHasNoProof ==
    ASSUME NEW a \in Entries, NEW b \in Entries, Incompatible(a, b), NEW proof
    PROVE  IsEquivocation(a, b, {proof})
<1>1. a # b
  BY PrefixOfItself DEF Incompatible
<1>2. ~Shows(proof, a, b) /\ ~Shows(proof, b, a)
  BY <1>1 DEF Shows, Incompatible
<1> QED BY <1>1, <1>2 DEF IsEquivocation

\* A decision cannot be denied: two receipts under one key that say different things
\* of one place come with heads that convict the key.
THEOREM DenialsAreConvicted == Spec => []DenialIsConvicted
<1>1. TransparencyInv => DenialIsConvicted
  <2> SUFFICES ASSUME TransparencyInv, NEW r \in receipts, NEW q \in receipts,
                      r.index = q.index, r.entry # q.entry, NEW proof
               PROVE  IsEquivocation(r.sth.log, q.sth.log, {proof})
    BY DEF DenialIsConvicted
  <2> DEFINE a == r.sth.log
             b == q.sth.log
             i == r.index
  <2>1. /\ r.sth \in signed /\ q.sth \in signed
        /\ i \in DOMAIN a /\ i \in DOMAIN b /\ a[i] # b[i]
    BY DEF TransparencyInv, OnlySigned
  <2>2. a \in Entries /\ b \in Entries
    BY <2>1 DEF TransparencyInv, TransparencyTypeOK, Statement
  <2> HIDE DEF a, b, i
  <2>3. i \in 1 .. Len(a) /\ i \in 1 .. Len(b)
    BY <2>1, <2>2 DEF Entries
  <2>4. Incompatible(a, b)
    BY <2>1, <2>2, <2>3, PrefixAgrees DEF Incompatible
  <2> QED BY <2>2, <2>4, ForkHasNoProof DEF a, b
<1> QED BY <1>1, TransparencyInvariant, PTL
=============================================================================
